----------------------------- MODULE GatewayProcess -----------------------------
(***************************************************************************)
(* The process of Lifecycle with what it is configured to do: main loads   *)
(* and validates a document (config.Load), limiter.New picks the backend   *)
(* it names, and proxy.NewHandler compiles its routes.  From then on both  *)
(* are read only.                                                          *)
(*                                                                         *)
(* limiter.New and proxy.NewHandler can fail, but not on a validated       *)
(* document: BuildFails of Lifecycle is no step here, and                  *)
(* NothingLeftToFail says why.                                             *)
(***************************************************************************)
EXTENDS Lifecycle, RouteTable

CONSTANTS
  Documents,  \* the configuration documents considered, decoded
  Paths,      \* escaped request paths
  Clients     \* [key, host, port] of requests: X-API-Key, if any, and RemoteAddr

\* A document is decoded into a record whose routes are a list; a prefix is a
\* list of segments.
IsDocument(d) ==
  /\ "routes" \in DOMAIN d
  /\ d.routes \in Seq(Range(d.routes))
  /\ \A i \in DOMAIN d.routes :
       "prefix" \in DOMAIN d.routes[i] /\ d.routes[i].prefix \in Seq(STRING)

ASSUME DocumentAssumption == \A d \in Documents : IsDocument(d)

\* Decoding splits a segment at its encoded slashes, into one segment at least,
\* and leaves one without an escape alone.
ASSUME PathAssumption ==
  /\ Paths \subseteq Seq(STRING)
  /\ \A path \in Paths : \A i \in DOMAIN path :
       Unescape(path[i]) \in Seq(STRING) /\ Unescape(path[i]) # << >>
  /\ \A segment \in {"", ".", ".."} : Unescape(segment) = <<segment>>

\* Fingerprints of the keys considered do not collide.
ASSUME ProcessAssumption ==
  \A c, d \in Clients : Fingerprint(c.key) = Fingerprint(d.key) => c.key = d.key

VARIABLES
  cfg,        \* the document, then the Config that config.Load returns
  table       \* the route table's entries, empty until it is built

processVars == <<vars, cfg, table>>

ProcessInit == Init /\ cfg \in Documents /\ table = << >>

\* config.Load rejects the document, or net.Listen fails.
LoadFails == BootFails /\ UNCHANGED <<cfg, table>>

\* config.Load accepts it and net.Listen binds.
Load ==
  /\ validate(applyDefaults(cfg))
  /\ cfg' = applyDefaults(cfg)
  /\ Bind
  /\ UNCHANGED table

\* limiter.New: only the redis limiter has a client to close.
NewLimiter ==
  /\ BuildLimiter
  /\ client' = IF cfg.backend = "redis" THEN "open" ELSE "none"
  /\ UNCHANGED <<cfg, table>>

\* proxy.NewHandler, and the serving goroutine is started.
NewHandler ==
  /\ Launch
  /\ table' = NewTable(cfg.routes)
  /\ UNCHANGED cfg

ProcessNext ==
  \/ LoadFails \/ Load \/ NewLimiter \/ NewHandler
  \/ Running /\ UNCHANGED <<cfg, table>>

ProcessSpec == ProcessInit /\ [][ProcessNext]_processVars /\ Fairness

-------------------------------------------------------------------------------
(* What the table and the limits are once built, whatever document was
   accepted. *)

\* The step that compiles the table.
Built == table' # table

\* The branches that are "unreachable after config validation" (limiter.go:107,
\* gateway.go:64, memory.go:85, redis.go:153) are: the backend is known, every
\* upstream parses, and each limit that ServeHTTP can look up for a client is
\* one its algorithm works with, overrides and defaults merged at request time
\* included.
NothingLeftToFail ==
  [][Built => /\ cfg.backend \in {"memory", "redis"}
              /\ \A i \in DOMAIN table', c \in Clients :
                   LET limit == EffectiveLimit(table'[i], c)
                   IN  /\ table'[i].route.upstream # "unparseable"
                       /\ limit.algorithm \in Algorithms
                       /\ limit.rate > 0 /\ limit.window > 0
                       /\ limit.algorithm = "token_bucket" => limit.burst > 0]_processVars

\* The segments of a path, empty ones aside.
Segments(path) ==
  LET segments[i \in 0 .. Len(path)] ==
        IF i = 0 THEN << >>
        ELSE IF path[i] = "" THEN segments[i - 1] ELSE Append(segments[i - 1], path[i])
  IN  segments[Len(path)]

\* A prefix with a doubled slash validates and matches nothing.
Doubled(prefix) == \E i \in 2 .. Len(TrimRight(prefix)) : TrimRight(prefix)[i] = ""

\* The routes whose prefix is a segment-boundary prefix of the path.
Candidates(path) ==
  {i \in DOMAIN cfg.routes : /\ ~Doubled(cfg.routes[i].prefix)
                             /\ IsPrefix(Segments(cfg.routes[i].prefix), Segments(path))}

\* config.go:104-110, "when several prefixes match, the longest wins": the
\* sorted table's first match is the longest candidate, in whatever order the
\* document lists the routes and however the slashes of the path are doubled;
\* a path is unrouted only without a candidate.
RoutesLongestPrefix ==
  [][Built => \A path \in Paths :
       Rooted(path) /\ ~hasDotSegments(Decoded(path))
         => LET place == Route(table', path)
            IN  IF place = 0 THEN Candidates(path) = {}
                ELSE \E i \in Candidates(path) :
                       /\ table'[place].route = cfg.routes[i]
                       /\ \A j \in Candidates(path) \ {i} :
                            Len(Segments(cfg.routes[j].prefix))
                              < Len(Segments(cfg.routes[i].prefix))]_processVars

Literal(prefix) == \A i \in DOMAIN prefix : Unescape(prefix[i]) = <<prefix[i]>>

\* gateway.go:81-85: dot segments, "plain or percent-encoded", would "let the
\* matched route and the path the upstream resolves diverge".  The URL is
\* forwarded unchanged; once the upstream has decoded and cleaned it, it still
\* lies under the prefix whose quota was charged, if that has no escapes.
ResolvedWithinRoute ==
  [][Built => \A path \in Paths :
       LET place == Route(table', path)
       IN  place # 0 /\ Literal(table'[place].prefix)
             => IsPrefix(table'[place].prefix, Clean(Decoded(path)))]_processVars

\* Two requests are from one client: the same key, or the same host without one.
SameClient(c, d) == c.key = d.key /\ (c.key = "" => c.host = d.host)

\* gateway.go:97-103, "namespaced by route so two routes never share a quota":
\* two requests share limiter state exactly if they are from one client on one
\* route, and then they are measured against one limit; and each route is
\* proxied to its own upstream.
QuotasSeparate ==
  [][Built => \A i, j \in DOMAIN table', c, d \in Clients :
       /\ StateKey(table'[i], c) = StateKey(table'[j], d) <=> i = j /\ SameClient(c, d)
       /\ SameClient(c, d) => EffectiveLimit(table'[i], c) = EffectiveLimit(table'[i], d)
       /\ Proxies(table')[table'[i].prefix] = table'[i].route.upstream]_processVars
================================================================================
