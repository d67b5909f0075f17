--------------------------------- MODULE Config ---------------------------------
(***************************************************************************)
(* The configuration (internal/config/config.go): defaults, validation and *)
(* the limit that a client gets on a route, as operators on records.       *)
(*                                                                         *)
(* A zero value is a field the document leaves out.  Strings that name a   *)
(* path are split at their slashes: "/api/" is <<"", "api", "">>.  An      *)
(* upstream is "relative" or "unparseable" where it is not an absolute     *)
(* http(s) URL.                                                            *)
(***************************************************************************)
EXTENDS Integers, SequencesExt

CONSTANT
  Second     \* time.Second, in the unit of the durations

ASSUME ConfigAssumption == Second \in Nat \ {0}

Algorithms == {"fixed_window", "sliding_window", "token_bucket"}

\* token_bucket refills once per second unless the document says otherwise.
withDefaults(limit) ==
  IF limit.algorithm = "token_bucket" /\ limit.window = 0
  THEN [limit EXCEPT !.window = Second] ELSE limit

\* A zero field takes the base value.
Inherit(own, base) == IF own # 0 THEN own ELSE base

\* Route.LimitFor: the key's override merged over the route's limit, unless it
\* switches to another algorithm.
LimitFor(route, key) ==
  IF key \notin DOMAIN route.overrides THEN withDefaults(route.limit)
  ELSE LET o == route.overrides[key]
       IN  IF o.algorithm \notin {"", route.limit.algorithm} THEN withDefaults(o)
           ELSE withDefaults([route.limit EXCEPT !.rate = Inherit(o.rate, @),
                                                 !.burst = Inherit(o.burst, @),
                                                 !.window = Inherit(o.window, @)])

\* Limit.validate
ValidLimit(limit) ==
  /\ limit.rate > 0
  /\ limit.algorithm \in Algorithms
  /\ limit.window > 0
  /\ IF limit.algorithm = "token_bucket" THEN limit.burst > 0 ELSE limit.burst = 0

\* The path, or prefix, begins with a slash.
Rooted(path) == Len(path) > 1 /\ path[1] = ""

Absolute(upstream) == upstream \notin {"relative", "unparseable"}

mut_ValidRoute(route) ==
  /\ Rooted(route.prefix)
  /\ Absolute(route.upstream)
  /\ ValidLimit(route.limit)
  /\ \A key \in DOMAIN route.overrides : key # "" /\ route.overrides[key].rate >= 0

\* Route.validate: overrides are validated as merged.
ValidRoute(route) ==
  /\ Rooted(route.prefix)
  /\ Absolute(route.upstream)
  /\ ValidLimit(route.limit)
  /\ \A key \in DOMAIN route.overrides : key # "" /\ ValidLimit(LimitFor(route, key))

\* strings.TrimRight(path, "/")
TrimRight(path) ==
  LET last == SelectLastInSeq(path, LAMBDA segment : segment # "")
  IN  SubSeq(path, 1, IF last = 0 THEN 1 ELSE last)

DefaultSeconds ==
  [readHeader |-> 5, read |-> 30, write |-> 60, idle |-> 120, shutdown |-> 10,
   dial |-> 5, responseHeader |-> 10]

applyDefaults(c) ==
  [c EXCEPT
     !.timeouts = [t \in DOMAIN DefaultSeconds |->
                     Inherit(c.timeouts[t], DefaultSeconds[t] * Second)],
     !.backend = IF @ = "" THEN "memory" ELSE @,
     !.onError = IF @ = "" THEN "degrade" ELSE @,
     !.routes = [i \in DOMAIN c.routes |->
                   [c.routes[i] EXCEPT !.limit = withDefaults(@)]]]

mut_Unique(routes) == \A i, j \in DOMAIN routes : routes[i].prefix = routes[j].prefix => i = j

\* No prefix twice, trailing slashes aside.
Unique(routes) ==
  \A i, j \in DOMAIN routes : TrimRight(routes[i].prefix) = TrimRight(routes[j].prefix) => i = j

\* Config.validate
validate(c) ==
  /\ \A t \in DOMAIN c.timeouts : c.timeouts[t] >= 0
  /\ \/ c.backend = "memory"
     \/ c.backend = "redis" /\ c.addr # ""
  /\ c.onError \in {"fail_open", "fail_closed", "degrade"}
  /\ c.routes # << >>
  /\ \A i \in DOMAIN c.routes : ValidRoute(c.routes[i])
  /\ Unique(c.routes)
================================================================================
