------------------------------- MODULE Lifecycle -------------------------------
(***************************************************************************)
(* The life of the gateway process (cmd/gateway/main.go): main loads the   *)
(* configuration and run binds the listener; serve builds the limiter and  *)
(* the handler, runs http.Server.Serve in a goroutine that reports on      *)
(* errCh, waits for it or for the signal, and on the signal drains with    *)
(* Shutdown for at most the shutdown timeout.  The redis client is closed  *)
(* by a deferred call when serve returns.                                  *)
(*                                                                         *)
(* http.Server is outside the code: Shutdown stops the listener at once,   *)
(* makes Serve return ErrServerClosed, and returns when every request is   *)
(* answered or its context ends; Serve returns another error when the      *)
(* listener fails, and leaves the requests under way alone.                *)
(***************************************************************************)
EXTENDS Naturals

CONSTANT
  Requests   \* each is served once

VARIABLES
  main,      \* where the main goroutine is
  listener,  \* the listening socket
  server,    \* the goroutine that runs srv.Serve
  errCh,     \* what it has sent and serve has not received
  signalled, \* ctx is done
  client,    \* the redis client
  request,   \* where each request is
  failed,    \* history: serve returned because Serve failed
  timedOut   \* history: the shutdown timeout ran out

vars == <<main, listener, server, errCh, signalled, client, request, failed, timedOut>>

TypeOK ==
  /\ main \in {"boot", "bound", "built", "selecting", "draining", "returning", "exited"}
  /\ listener \in {"none", "open", "closed"}
  /\ server \in {"none", "starting", "serving", "ended"}
  /\ errCh \in {"empty", "closed", "failure"}
  /\ signalled \in BOOLEAN
  /\ client \in {"none", "open", "closed"}
  /\ request \in [Requests -> {"new", "refused", "deciding", "proxying", "answered"}]
  /\ failed \in BOOLEAN /\ timedOut \in BOOLEAN

Init ==
  /\ main = "boot"
  /\ listener = "none"
  /\ server = "none"
  /\ errCh = "empty"
  /\ signalled = FALSE
  /\ client = "none"
  /\ request = [r \in Requests |-> "new"]
  /\ failed = FALSE
  /\ timedOut = FALSE

-------------------------------------------------------------------------------
(* The main goroutine. *)

\* config.Load or net.Listen fails.
BootFails ==
  /\ main = "boot"
  /\ main' = "exited"
  /\ UNCHANGED <<listener, server, errCh, signalled, client, request, failed, timedOut>>

\* NotifyContext, net.Listen.
Bind ==
  /\ main = "boot"
  /\ main' = "bound"
  /\ listener' = "open"
  /\ UNCHANGED <<server, errCh, signalled, client, request, failed, timedOut>>

\* limiter.New, and the deferred Close of a redis client if there is one.
BuildLimiter ==
  /\ main = "bound"
  /\ main' = "built"
  /\ client' \in {"none", "open"}
  /\ UNCHANGED <<listener, server, errCh, signalled, request, failed, timedOut>>

\* limiter.New or proxy.NewHandler returns an error.
BuildFails ==
  /\ main \in {"bound", "built"}
  /\ main' = "returning"
  /\ UNCHANGED <<listener, server, errCh, signalled, client, request, failed, timedOut>>

\* go func() { errCh <- srv.Serve(ln) }()
Launch ==
  /\ main = "built"
  /\ main' = "selecting"
  /\ server' = "starting"
  /\ UNCHANGED <<listener, errCh, signalled, client, request, failed, timedOut>>

\* select: Serve has returned.
ServeReturned ==
  /\ main = "selecting"
  /\ errCh # "empty"
  /\ errCh' = "empty"
  /\ main' = "returning"
  /\ failed' = (errCh = "failure")
  /\ UNCHANGED <<listener, server, signalled, client, request, timedOut>>

\* select: ctx is done; Shutdown closes the listener and starts to wait.
Shutdown ==
  /\ main = "selecting"
  /\ signalled
  /\ main' = "draining"
  /\ listener' = "closed"
  /\ UNCHANGED <<server, errCh, signalled, client, request, failed, timedOut>>

Underway == {r \in Requests : request[r] \in {"deciding", "proxying"}}

mut_Drained ==
  /\ main = "draining"
  /\ main' = "returning"
  /\ UNCHANGED <<listener, server, errCh, signalled, client, request, failed, timedOut>>

\* Shutdown returns nil.
Drained ==
  /\ main = "draining"
  /\ Underway = {}
  /\ main' = "returning"
  /\ UNCHANGED <<listener, server, errCh, signalled, client, request, failed, timedOut>>

mut_DrainTimesOut == FALSE /\ UNCHANGED vars

\* Shutdown returns the context's error, the requests still under way.
DrainTimesOut ==
  /\ main = "draining"
  /\ Underway # {}
  /\ main' = "returning"
  /\ timedOut' = TRUE
  /\ UNCHANGED <<listener, server, errCh, signalled, client, request, failed>>

\* serve's deferred calls: rl.Close and ln.Close; main exits after that.
CloseClient ==
  /\ main = "returning"
  /\ client = "open"
  /\ client' = "closed"
  /\ UNCHANGED <<main, listener, server, errCh, signalled, request, failed, timedOut>>

Exit ==
  /\ main = "returning"
  /\ client # "open"
  /\ listener' = "closed"
  /\ main' = "exited"
  /\ UNCHANGED <<server, errCh, signalled, client, request, failed, timedOut>>

-------------------------------------------------------------------------------
(* The other goroutines, until the process exits. *)

Alive == main # "exited"

Signal ==
  /\ Alive /\ main # "boot"
  /\ ~signalled
  /\ signalled' = TRUE
  /\ UNCHANGED <<main, listener, server, errCh, client, request, failed, timedOut>>

Serve ==
  /\ Alive
  /\ server = "starting"
  /\ listener = "open"
  /\ server' = "serving"
  /\ UNCHANGED <<main, listener, errCh, signalled, client, request, failed, timedOut>>

\* Serve returns ErrServerClosed, also when it is called after Shutdown.
\* errCh has room for one value, so the send does not wait for a receiver.
ServeEnds ==
  /\ Alive
  /\ server \in {"starting", "serving"}
  /\ listener = "closed"
  /\ errCh = "empty"
  /\ server' = "ended"
  /\ errCh' = "closed"
  /\ UNCHANGED <<main, listener, signalled, client, request, failed, timedOut>>

\* Accept fails; Serve closes the listener and returns the error.
AcceptFails ==
  /\ Alive
  /\ server = "serving"
  /\ listener = "open"
  /\ errCh = "empty"
  /\ server' = "ended"
  /\ listener' = "closed"
  /\ errCh' = "failure"
  /\ UNCHANGED <<main, signalled, client, request, failed, timedOut>>

mut_Accept(r) ==
  /\ Alive
  /\ request[r] = "new"
  /\ server = "serving"
  /\ request' = [request EXCEPT ![r] = "deciding"]
  /\ UNCHANGED <<main, listener, server, errCh, signalled, client, failed, timedOut>>

\* A connection is accepted and its request handed to the handler; a connection
\* carries one request.
Accept(r) ==
  /\ Alive
  /\ request[r] = "new"
  /\ server = "serving"
  /\ listener = "open"
  /\ request' = [request EXCEPT ![r] = "deciding"]
  /\ UNCHANGED <<main, listener, server, errCh, signalled, client, failed, timedOut>>

\* Nobody listens.
RefuseConnection(r) ==
  /\ request[r] = "new"
  /\ listener # "open"
  /\ request' = [request EXCEPT ![r] = "refused"]
  /\ UNCHANGED <<main, listener, server, errCh, signalled, client, failed, timedOut>>

\* The limiter decides, through the redis client if there is one.
Decide(r) ==
  /\ Alive
  /\ request[r] = "deciding"
  /\ request' \in {[request EXCEPT ![r] = "proxying"], [request EXCEPT ![r] = "answered"]}
  /\ UNCHANGED <<main, listener, server, errCh, signalled, client, failed, timedOut>>

\* The upstream's answer is relayed.
Answer(r) ==
  /\ Alive
  /\ request[r] = "proxying"
  /\ request' = [request EXCEPT ![r] = "answered"]
  /\ UNCHANGED <<main, listener, server, errCh, signalled, client, failed, timedOut>>

Stopped == ~Alive /\ \A r \in Requests : request[r] # "new"

\* Everything from the start of Serve on, and the requests all along.
Running ==
  \/ ServeReturned \/ Shutdown \/ Drained \/ DrainTimesOut \/ CloseClient \/ Exit
  \/ Signal \/ Serve \/ ServeEnds \/ AcceptFails
  \/ \E r \in Requests : Accept(r) \/ RefuseConnection(r) \/ Decide(r) \/ Answer(r)
  \/ Stopped /\ UNCHANGED vars

Next == BootFails \/ Bind \/ BuildLimiter \/ BuildFails \/ Launch \/ Running

Spec == Init /\ [][Next]_vars

\* The main goroutine runs, the shutdown timeout runs out at last, and the
\* serving goroutine runs while the process does.  Nothing is assumed of
\* upstreams: a request may stay under way for ever.
Fairness ==
  /\ WF_vars(Bind \/ BootFails)
  /\ WF_vars(BuildLimiter \/ BuildFails \/ Launch)
  /\ WF_vars(ServeReturned \/ Shutdown)
  /\ WF_vars(Drained \/ DrainTimesOut)
  /\ WF_vars(CloseClient \/ Exit)
  /\ WF_vars(Serve \/ ServeEnds)

FairSpec == Spec /\ Fairness

-------------------------------------------------------------------------------
\* What the drain test pins (main.go:81-83): as long as Shutdown drains in time
\* and Serve does not fail, every request finds a live redis client until it
\* is answered.
DrainKeepsClient ==
  client = "closed" /\ ~failed /\ ~timedOut => Underway = {}

\* Nothing is under way, and nothing will be: nobody listens, or nobody has
\* served yet.
Quiet == Underway = {} /\ (listener = "closed" \/ server = "none")

\* The inductive invariant behind it: which exit path led where.
LifecycleInv ==
  /\ TypeOK
  /\ server = "none" => Underway = {}
  /\ main \in {"boot", "bound", "built"} => server = "none" /\ errCh = "empty"
  /\ main \in {"bound", "built"} => listener = "open"
  /\ main = "selecting"
       => \/ listener = "open" /\ errCh = "empty"
          \/ server = "ended" /\ errCh = "failure"
  /\ main = "draining" => listener = "closed"
  /\ client = "closed" => main \in {"returning", "exited"}
  /\ main = "returning" /\ ~failed /\ ~timedOut => Quiet
  /\ main = "exited" /\ client = "closed" /\ ~failed /\ ~timedOut => Underway = {}

\* main.go:47-50, "until it fails or ctx is canceled, then drains in-flight
\* requests for at most the configured shutdown timeout": the process ends
\* after the signal even if an upstream never answers.
SignalEnds == signalled ~> main = "exited"

\* main.go:81-83, the Close "runs only after srv.Shutdown has returned on every
\* exit path: draining in-flight requests keep a live redis client".
CloseAfterDrain == [][client = "open" /\ client' = "closed" => Underway = {} \/ timedOut]_vars
================================================================================
