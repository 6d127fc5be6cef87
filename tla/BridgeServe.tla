----------------------------- MODULE BridgeServe -----------------------------
(***************************************************************************)
(* The background bridge while it serves (src/src/bridge_host/serve.rs):   *)
(* the activity clock and the idle stop, the graceful stop with its grace, *)
(* the routes and logins built on first use, and the keys registered for   *)
(* a forwarding route, together with the sessions that use it through      *)
(* their credential helper (src/src/bridge_host/mod.rs).                   *)
(*                                                                         *)
(* How a bridge is started, and by whom, is BridgeStart: here a session    *)
(* whose helper finds no bridge starts one in a step.                      *)
(*                                                                         *)
(* EndCountFirst, LoginOwn, AddEvicts and AddKeepsFirst are mistakes the   *)
(* code does not make, each before what it would replace.                  *)
(***************************************************************************)
EXTENDS Integers, FiniteSets

CONSTANTS
  Coders,     \* sessions on a Codex route
  Natives,    \* sessions that forward with a native API key
  Routes, Files,
  RouteOf,    \* the route of each coder
  FileOf,     \* the login file a route names
  Keys,       \* how often the saved API key may be changed, and one
  Cap,        \* the keys a forwarding route may have (256)
  Limit,      \* IDLE_LIMIT
  Grace,      \* STOP_GRACE
  MaxTime, MaxStops

Clients == Coders \cup Natives

ASSUME SessionAssumption == Coders \cap Natives = {} /\ IsFiniteSet(Clients)
ASSUME RouteAssumption == RouteOf \in [Coders -> Routes] /\ FileOf \in [Routes -> Files]
ASSUME BoundAssumption ==
  /\ {Cap, Limit, Grace, MaxTime, MaxStops} \subseteq Nat
  /\ Keys \in Nat \ {0} /\ Cap > 0 /\ Limit > 0

VARIABLES
  host,       \* "down", "up", or "stopping"
  instance,   \* of the bridge that runs or ran last
  inFlight, last,             \* Activity
  stopAt,
  watch,      \* watch_idle: its step and what it has sampled
  logins, routes, made,       \* AuthManagers by file, states by route
  forward,    \* the keys a forwarding route accepts
  key,        \* the saved API key
  pc,
  helper, cred,   \* what a native session's helper has read, and what it handed out
  state,          \* the state that serves a coder's turn: its AuthManager
  now, stops,
  busy        \* when a request was last in flight (history)

hostVars == <<host, instance, inFlight, last, stopAt, watch>>
routeVars == <<logins, routes, made>>
sessionVars == <<pc, helper, cred, state>>
serveVars == <<hostVars, routeVars, forward, key, sessionVars, now, stops, busy>>

\* A credential sealed for an instance; Nothing is no credential.
Creds == [instance : Nat, key : 0..Keys]
Nothing == [instance |-> 0, key |-> 0]

\* A request that is over has been answered, stamps the clock, and is counted
\* no longer; a turn's and a registration's go to where their session goes on.
After == [stream |-> "ended", refused |-> "ended401", entered |-> "granted", full |-> "denied",
          ended |-> "idle", ended401 |-> "help", granted |-> "send", denied |-> "help"]
Replied == {"stream", "refused", "entered", "full"}
Stamped == {"ended", "ended401", "granted", "denied"}
Registering == {"counted", "enter", "entered", "full", "granted", "denied"}
Open == {"begun", "handle", "build"} \cup Registering \cup Replied \cup Stamped
Steps == {"idle", "help", "register", "send"} \cup Open

ServeTypeOK ==
  /\ host \in {"down", "up", "stopping"} /\ instance \in Nat
  /\ inFlight \in 0..Cardinality(Clients) /\ last \in 0..MaxTime /\ stopAt \in 0..MaxTime
  /\ watch \in [step : {"sleep", "flight", "last", "done"}, now : 0..MaxTime, busy : 0..MaxTime]
  /\ logins \in [Files -> Nat] /\ routes \in [Routes -> Nat] /\ made \in Nat
  /\ forward \subseteq 1..Keys /\ key \in 1..Keys
  /\ pc \in [Clients -> Steps] /\ {helper, cred} \subseteq [Natives -> Creds]
  /\ state \in [Coders -> Nat]
  /\ now \in 0..MaxTime /\ stops \in 0..MaxStops /\ busy \in 0..MaxTime

Asleep == [step |-> "sleep", now |-> 0, busy |-> 0]

ServeInit ==
  /\ host = "down" /\ instance = 0
  /\ inFlight = 0 /\ last = 0 /\ stopAt = 0 /\ watch = Asleep
  /\ logins = [f \in Files |-> 0] /\ routes = [r \in Routes |-> 0] /\ made = 0
  /\ forward = {} /\ key = 1
  /\ pc = [s \in Clients |-> "idle"] /\ helper = [s \in Natives |-> Nothing]
  /\ cred = helper /\ state = [s \in Coders |-> 0]
  /\ now = 0 /\ stops = 0 /\ busy = 0

Goto(s, step) == pc' = [pc EXCEPT ![s] = step]
IsOpen(s) == pc[s] \in Open

-----------------------------------------------------------------------------
(* The credential helper.                                                  *)

\* A fresh bridge knows no route, login, or key.
FreshHost ==
  /\ host' = "up" /\ instance' = instance + 1
  /\ inFlight' = 0 /\ last' = now /\ watch' = Asleep
  /\ logins' = [f \in Files |-> 0] /\ routes' = [r \in Routes |-> 0]
  /\ forward' = {} /\ made' = 0
  /\ UNCHANGED stopAt

\* A turn.  A native's may find its credential a minute old: the agent then
\* runs the helper first (CLAUDE_CODE_API_KEY_HELPER_TTL_MS).
Want(s) ==
  /\ pc[s] = "idle"
  /\ Goto(s, "send") \/ (s \in Natives /\ Goto(s, "help"))
  /\ UNCHANGED <<hostVars, routeVars, forward, key, helper, cred, state, now, stops, busy>>

\* resolve_credential: the saved key is read, and a bridge is there.
Help(s) ==
  /\ pc[s] = "help"
  /\ IF host = "down" THEN FreshHost ELSE UNCHANGED <<hostVars, routeVars, forward>>
  /\ IF s \in Natives
       THEN helper' = [helper EXCEPT ![s] = [instance |-> instance', key |-> key]] /\ Goto(s, "register")
       ELSE UNCHANGED helper /\ Goto(s, "send")
  /\ UNCHANGED <<key, cred, state, now, stops, busy>>

\* register_observer_forward: a registration is sealed to an instance, and is
\* in flight once it is known to be for this one.  The helper that finds
\* another bridge, or none, fails and is run again.
Register(s) ==
  /\ pc[s] = "register"
  /\ IF host = "up" /\ helper[s].instance = instance
       THEN inFlight' = inFlight + 1 /\ busy' = now /\ Goto(s, "counted")
       ELSE Goto(s, "help") /\ UNCHANGED <<inFlight, busy>>
  /\ helper' = IF pc'[s] = "help" THEN [helper EXCEPT ![s] = Nothing] ELSE helper
  /\ UNCHANGED <<host, instance, last, stopAt, watch, routeVars, forward, key, cred, state, now, stops>>

\* Which keys the entry has after a registration.
AddEvicts(k) == IF Cardinality(forward \cup {k}) > Cap THEN {k} ELSE forward \cup {k}
AddKeepsFirst(k) == IF forward = {} THEN {k} ELSE forward
Add(k) == forward \cup {k}

\* register_forward_inner, under the lock of the entries: a full entry refuses
\* a key it does not have.
Enter(s) ==
  /\ pc[s] = "enter"
  /\ LET keys == Add(helper[s].key) IN
       IF Cardinality(keys) <= Cap
         THEN forward' = keys /\ Goto(s, "entered")
         ELSE Goto(s, "full") /\ UNCHANGED forward
  /\ UNCHANGED <<hostVars, routeVars, key, helper, cred, state, now, stops, busy>>

-----------------------------------------------------------------------------
(* A turn.                                                                 *)

\* InFlight::begin counts first and stamps the clock second.
Send(s) ==
  /\ pc[s] = "send" /\ host = "up"
  /\ inFlight' = inFlight + 1 /\ busy' = now
  /\ Goto(s, "begun")
  /\ UNCHANGED <<host, instance, last, stopAt, watch, routeVars, forward, key, helper, cred, state, now, stops>>

\* Nobody listens: the helper is run again.
SendFails(s) ==
  /\ pc[s] = "send" /\ host # "up"
  /\ Goto(s, "help")
  /\ UNCHANGED <<hostVars, routeVars, forward, key, helper, cred, state, now, stops, busy>>

Begin(s) ==
  /\ pc[s] \in {"begun", "counted"}
  /\ last' = now
  /\ Goto(s, IF pc[s] = "begun" THEN "handle" ELSE "enter")
  /\ UNCHANGED <<host, instance, inFlight, stopAt, watch, routeVars, forward, key, helper, cred, state, now, stops, busy>>

\* forward: the credential opens under its route and instance, and the target
\* accepts the key inside.
Accepted(s) == cred[s].instance = instance /\ cred[s].key \in forward

Answer(s) ==
  /\ pc[s] = "handle" /\ s \in Natives
  /\ Goto(s, IF Accepted(s) THEN "stream" ELSE "refused")
  /\ UNCHANGED <<hostVars, routeVars, forward, key, helper, cred, state, now, stops, busy>>

\* Host::route: a state built before is used.
FindRoute(s) ==
  /\ pc[s] = "handle" /\ s \in Coders
  /\ state' = [state EXCEPT ![s] = routes[RouteOf[s]]]
  /\ Goto(s, IF routes[RouteOf[s]] # 0 THEN "stream" ELSE "build")
  /\ UNCHANGED <<hostVars, routeVars, forward, key, helper, cred, now, stops, busy>>

LoginOwn(s) ==
  /\ pc[s] = "build" /\ state[s] = 0
  /\ made' = made + 1 /\ state' = [state EXCEPT ![s] = made']
  /\ UNCHANGED <<hostVars, logins, routes, forward, key, pc, helper, cred, now, stops, busy>>

\* build_route: the one manager of the login file, made under its lock...
Login(s) ==
  /\ pc[s] = "build" /\ state[s] = 0
  /\ LET f == FileOf[RouteOf[s]] IN
       IF logins[f] = 0
         THEN /\ made' = made + 1 /\ logins' = [logins EXCEPT ![f] = made']
              /\ state' = [state EXCEPT ![s] = made']
         ELSE UNCHANGED <<made, logins>> /\ state' = [state EXCEPT ![s] = logins[f]]
  /\ UNCHANGED <<hostVars, routes, forward, key, pc, helper, cred, now, stops, busy>>

\* ...and the first state that is put in is the one everybody gets.
Insert(s) ==
  /\ pc[s] = "build" /\ state[s] # 0
  /\ LET r == RouteOf[s] IN
       /\ routes' = IF routes[r] = 0 THEN [routes EXCEPT ![r] = state[s]] ELSE routes
       /\ state' = [state EXCEPT ![s] = routes'[r]]
  /\ Goto(s, "stream")
  /\ UNCHANGED <<hostVars, logins, made, forward, key, helper, cred, now, stops, busy>>

\* A helper hands its credential out when its registration was taken.
HandsOut(s) ==
  /\ cred' = IF pc[s] = "granted" THEN [cred EXCEPT ![s] = helper[s]] ELSE cred
  /\ helper' = IF pc[s] \in {"granted", "denied"} THEN [helper EXCEPT ![s] = Nothing] ELSE helper

EndCountFirst(s) ==
  /\ pc[s] \in Replied \cup Stamped
  /\ IF pc[s] \in Replied
       THEN inFlight' = inFlight - 1 /\ UNCHANGED last
       ELSE last' = now /\ UNCHANGED inFlight
  /\ busy' = now
  /\ state' = [t \in Coders |-> IF t = s THEN 0 ELSE state[t]]
  /\ HandsOut(s) /\ Goto(s, After[pc[s]])
  /\ UNCHANGED <<host, instance, stopAt, watch, routeVars, forward, key, now, stops>>

\* The guard goes with the body of a turn's answer, and with the handler of a
\* registration: it stamps the clock first and stops counting second.  A 401
\* makes the agent run its helper again.
End(s) ==
  /\ pc[s] \in Replied \cup Stamped
  /\ IF pc[s] \in Replied
       THEN last' = now /\ UNCHANGED inFlight
       ELSE inFlight' = inFlight - 1 /\ UNCHANGED last
  /\ busy' = now
  /\ state' = [t \in Coders |-> IF t = s THEN 0 ELSE state[t]]
  /\ HandsOut(s) /\ Goto(s, After[pc[s]])
  /\ UNCHANGED <<host, instance, stopAt, watch, routeVars, forward, key, now, stops>>

-----------------------------------------------------------------------------
(* The idle stop, and going down.                                          *)

\* idle_for is called with the time, loads the count, then the clock.
WatchTime ==
  /\ host = "up" /\ watch.step = "sleep"
  /\ watch' = [watch EXCEPT !.step = "flight", !.now = now]
  /\ UNCHANGED <<host, instance, inFlight, last, stopAt, routeVars, forward, key, sessionVars, now, stops, busy>>

WatchFlight ==
  /\ host = "up" /\ watch.step = "flight"
  /\ watch' = IF inFlight > 0 THEN Asleep ELSE [watch EXCEPT !.step = "last", !.busy = busy]
  /\ UNCHANGED <<host, instance, inFlight, last, stopAt, routeVars, forward, key, sessionVars, now, stops, busy>>

StopServing == host' = "stopping" /\ stopAt' = now

WatchLast ==
  /\ host = "up" /\ watch.step = "last"
  /\ IF watch.now - last >= Limit
       THEN StopServing /\ watch' = [Asleep EXCEPT !.step = "done"]
       ELSE watch' = Asleep /\ UNCHANGED <<host, stopAt>>
  /\ UNCHANGED <<instance, inFlight, last, routeVars, forward, key, sessionVars, now, stops, busy>>

\* `alc bridge stop`.
StopAsked ==
  /\ host = "up" /\ stops < MaxStops
  /\ StopServing /\ stops' = stops + 1
  /\ UNCHANGED <<instance, inFlight, last, watch, routeVars, forward, key, sessionVars, now, busy>>

\* Requests still open are cut: agents send theirs again, and a helper fails
\* and is run again.
Down ==
  /\ host' = "down" /\ inFlight' = 0 /\ stopAt' = 0 /\ watch' = Asleep
  /\ pc' = [s \in Clients |-> CASE pc[s] \in Registering -> "help"
                               [] pc[s] \in Open \ Registering -> "send"
                               [] OTHER -> pc[s]]
  /\ state' = [s \in Coders |-> 0]
  /\ UNCHANGED <<instance, last, routeVars, forward, key, helper, cred, now, busy>>

\* Graceful shutdown ends when nothing is open, or when the grace is over.
Exit ==
  /\ host = "stopping"
  /\ inFlight = 0 \/ now >= stopAt + Grace
  /\ Down /\ UNCHANGED stops

Crash ==
  /\ host # "down" /\ stops < MaxStops
  /\ Down /\ stops' = stops + 1

-----------------------------------------------------------------------------
(* The rest of the world.                                                  *)

\* No request stays between its two stamps for a unit of time.
Tick ==
  /\ now < MaxTime
  /\ \A s \in Clients : pc[s] \notin {"begun", "counted"} \cup Stamped
  /\ now' = now + 1
  /\ busy' = IF \E s \in Clients : IsOpen(s) THEN now' ELSE busy
  /\ UNCHANGED <<hostVars, routeVars, forward, key, sessionVars, stops>>

\* The user saves another API key.
ChangeKey ==
  /\ key < Keys
  /\ key' = key + 1
  /\ UNCHANGED <<hostVars, routeVars, forward, sessionVars, now, stops, busy>>

\* What every turn does, what a forwarded one does, and what a coder's does.
Asks(s) == Help(s) \/ Send(s) \/ SendFails(s) \/ Begin(s) \/ End(s)
Forwards(s) == Register(s) \/ Enter(s) \/ Answer(s)
Builds(s) == FindRoute(s) \/ Login(s) \/ Insert(s)
Turn(s) == Asks(s) \/ (s \in Natives /\ Forwards(s)) \/ (s \in Coders /\ Builds(s))
Watch == WatchTime \/ WatchFlight \/ WatchLast

ServeNext ==
  \/ \E s \in Clients : Want(s) \/ Asks(s)
  \/ \E s \in Natives : Forwards(s)
  \/ \E s \in Coders : Builds(s)
  \/ Watch \/ StopAsked \/ Exit \/ Crash \/ Tick \/ ChangeKey

ServeSpec == ServeInit /\ [][ServeNext]_serveVars

\* Agents, their helpers and a stopping bridge get on, and the clock goes on
\* while a grace runs; nobody has to stop, crash or change a key.
ServeFairSpec ==
  /\ ServeSpec /\ WF_serveVars(Exit)
  /\ \A s \in Clients : WF_serveVars(Turn(s))
  /\ WF_serveVars(host = "stopping" /\ Tick)

-----------------------------------------------------------------------------
(* Properties.                                                             *)

\* Two turns that spend one login are served by one AuthManager, whichever
\* routes they came by and whoever built those: its mutex is what keeps the
\* turns of a process from exchanging a refresh token twice.
SharedLogin ==
  \A s, t \in Coders :
    (pc[s] = "stream" /\ pc[t] = "stream" /\ FileOf[RouteOf[s]] = FileOf[RouteOf[t]])
      => state[s] = state[t]

\* A credential handed out by the running bridge's helper is not taken back:
\* registering another key leaves the sessions that hold an earlier one
\* working (serve.rs, ForwardEntry).
EarlierKeysWork ==
  \A s \in Natives :
    host # "down" /\ cred[s].instance = instance
      => cred[s].key \in forward

\* The bridge goes idle only when no request was in flight for IDLE_LIMIT
\* before it looked, a response still streaming then included.
IdleStops ==
  [][watch.step = "last" /\ watch'.step = "done" => watch.now - watch.busy >= Limit]_serveVars

\* What the comments on Activity and track_activity say: a turn in flight
\* keeps the bridge up.
\* Not kept when the turn begins between the two reads (README).
TurnKeepsBridgeUp ==
  [][watch.step = "last" /\ watch'.step = "done" => inFlight = 0]_serveVars

\* The entry has no room for the saved key.
Full == key \notin forward /\ Cardinality(forward) >= Cap

\* A session that wants an answer gets it, through restarts of the bridge and
\* changes of the key: a 401 or a refused connection leads it back.  Not so a
\* native one while the bridge's entry stays too full for the saved key (README).
TurnsAnswered ==
  \A s \in Clients :
    pc[s] # "idle" ~> (pc[s] = "idle" \/ (s \in Natives /\ []Full))
=============================================================================
