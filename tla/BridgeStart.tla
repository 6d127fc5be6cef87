---------------------------- MODULE BridgeStart ----------------------------
(***************************************************************************)
(* How the background bridge is brought up: ensure and the starting lock   *)
(* in src/src/bridge_host/mod.rs, run and bind in bridge_host/serve.rs,    *)
(* the token and port files in bridge_host/files.rs.                       *)
(*                                                                         *)
(* Starters are alc processes that need a bridge; each may spawn a server, *)
(* an `alc bridge serve` process.  They meet in the run directory: the     *)
(* starting lock (a file created exclusively, taken over when thirty       *)
(* seconds old under a takeover lock), the owner lock (an OS lock, gone    *)
(* with its process), the token and the remembered port.  File age is the  *)
(* one clock, kept as a flag that a file gets some time after the process  *)
(* that made it has gone.  ensure_observer follows the same steps.         *)
(*                                                                         *)
(* CreateTokenKeepsOwn, RecheckNot, OverwriteUnmarked, OwnAlways,          *)
(* BindChosenForgets and MoveSettingsUntilOneFails are mistakes the code   *)
(* does not make; each stands before the definition it would replace, to   *)
(* show which property sees it.                                            *)
(***************************************************************************)
EXTENDS Naturals, FiniteSets

CONSTANTS
  Starters,   \* alc processes in ensure
  Servers,    \* alc bridge serve processes
  ByHand,     \* those a user runs in a terminal; the others are spawned
  Legacy,     \* TRUE in the Legacy scope, FALSE in a Generation's
  Faults,     \* which faults the environment may produce
  Ports,      \* loopback ports of PORT_RANGE
  Documents,  \* alc's settings files
  MaxToken,   \* bound on the bridge tokens minted
  None, Blank, Other

\* "disk": the port or the token cannot be written; "unwritable": a settings
\* file cannot be read or rewritten.
AllFaults == {"crash", "slow", "stop", "other", "blank", "spawn", "disk", "unwritable"}

ASSUME FaultsAssumption == Faults \subseteq AllFaults
ASSUME ByHandAssumption == ByHand \subseteq Servers
ASSUME LegacyAssumption == Legacy \in BOOLEAN
ASSUME NamesAssumption ==
  /\ Starters \cap Servers = {}
  /\ {None, Blank, Other} \cap (Starters \cup Servers \cup Ports \cup Nat) = {}
  /\ Cardinality({None, Blank, Other}) = 3
  /\ None \notin [mark : Starters, stale : BOOLEAN]
ASSUME BoundAssumption == MaxToken \in Nat \ {0}

VARIABLES
  token,      \* bridge.token: absent, empty, or a minted token
  minted,     \* tokens minted so far
  port,       \* bridge.port
  lock,       \* the starting lock
  takeover,   \* its takeover lock
  owner,      \* the server holding bridge.owner.lock
  bound,      \* who listens on each port
  settings,   \* the port that each of alc's settings files names
  todo,       \* those a move has not come to yet
  unmoved,    \* history: those a move reported, or never came to
  pc,         \* each process: where it is
  held, prev  \* a server: the token it loaded, the port remembered before it

vars == <<token, minted, port, lock, takeover, owner, bound, settings, todo, unmoved,
          pc, held, prev>>
moves == <<settings, todo, unmoved>>
files == <<token, minted, port, moves>>
locks == <<lock, takeover>>
host == <<owner, bound, prev>>

Procs == Starters \cup Servers
Lock == [mark : Starters, stale : BOOLEAN]
Tokens == 1..MaxToken

Loading == {"load", "clear", "create"}
TakingOver == {"judged", "sweep", "claim", "recheck", "overwrite", "freeing", "backout"}
Holding == {"spawn", "await", "unlock", "unlink"}
Up == {"bound", "serve"}
Moving == {"rotate", "resettle"}
Ended == {"done", "failed", "broken", "killed"}
Steps == Loading \cup TakingOver \cup Holding \cup Up \cup Moving \cup Ended
           \cup {"idle", "probe", "lock", "judge", "wait", "own", "bind", "drain"}

TypeOK ==
  /\ token \in Tokens \cup {None, Blank}
  /\ minted \in 0..MaxToken
  /\ port \in Ports \cup {None}
  /\ lock \in Lock \cup {None} /\ takeover \in Lock \cup {None}
  /\ owner \in Servers \cup {None}
  /\ bound \in [Ports -> Servers \cup {None, Other}]
  /\ settings \in [Documents -> Ports \cup {None}]
  /\ todo \subseteq Documents /\ unmoved \subseteq Documents
  /\ pc \in [Procs -> Steps]
  /\ held \in [Servers -> Tokens \cup {None}]
  /\ prev \in [Servers -> Ports \cup {None}]

\* A fresh configuration, or one a bridge has served before; "blank" adds the
\* empty token file "something that died left behind".
Init ==
  /\ \/ token = None /\ minted = 0 /\ port = None
     \/ token = 1 /\ minted = 1 /\ port \in Ports
     \/ "blank" \in Faults /\ token = Blank /\ minted = 0 /\ port = None
  /\ settings = [d \in Documents |-> port] /\ todo = {} /\ unmoved = {}
  /\ lock = None /\ takeover = None /\ owner = None
  /\ bound = [p \in Ports |-> None]
  /\ pc = [q \in Procs |-> "idle"]
  /\ held = [v \in Servers |-> None]
  /\ prev = [v \in Servers |-> None]

Goto(q, step) == pc' = [pc EXCEPT ![q] = step]
Gone(q) == pc[q] \in Ended

-----------------------------------------------------------------------------
(* Probing and loading, which starters and servers share.                  *)

\* probe_at: the port on disk answers with this runtime's identity.  Legacy
\* sends the token on disk and needs it accepted; a Generation authenticates
\* the answer by the observer key and only needs a token to be there.
Running ==
  /\ token \in Tokens /\ port # None
  /\ bound[port] \in Servers
  /\ pc[bound[port]] = "serve"
  /\ Legacy => held[bound[port]] = token

\* A loader that got token n goes on; servers keep it.
Loaded(q, n) ==
  /\ Goto(q, IF q \in Starters THEN "lock" ELSE "own")
  /\ held' = IF q \in Servers THEN [held EXCEPT ![q] = n] ELSE held

\* load_or_create_token, the read.
LoadToken(q) ==
  /\ pc[q] = "load"
  /\ \/ token \in Tokens /\ Loaded(q, token)
     \/ token = Blank /\ Goto(q, "clear") /\ UNCHANGED held
     \/ token = None /\ Goto(q, "create") /\ UNCHANGED held
  /\ UNCHANGED <<files, locks, host>>

\* The removal names the file, not the bytes that were read.
ClearToken(q) ==
  /\ pc[q] = "clear"
  /\ token' = None
  /\ Goto(q, "create")
  /\ UNCHANGED <<minted, port, moves, locks, host, held>>

CreateTokenKeepsOwn(q) ==
  /\ pc[q] = "create" /\ minted < MaxToken
  /\ minted' = minted + 1
  /\ token' = IF token = None THEN minted' ELSE token
  /\ Loaded(q, minted')
  /\ UNCHANGED <<port, moves, locks, host>>

\* create_token links a finished file into place, or adopts the one there.  (It
\* refuses an empty one there; nothing leaves one behind after the start.)
CreateToken(q) ==
  /\ pc[q] = "create"
  /\ \/ /\ token = None /\ minted < MaxToken
        /\ minted' = minted + 1 /\ token' = minted' /\ Loaded(q, minted')
     \/ /\ token \in Tokens /\ Loaded(q, token) /\ UNCHANGED <<token, minted>>
  /\ UNCHANGED <<port, moves, locks, host>>

-----------------------------------------------------------------------------
(* A starter: ensure_within, take_lock, take_over, release.                *)

Ask(s) ==
  /\ pc[s] = "idle"
  /\ Goto(s, "probe")
  /\ UNCHANGED <<files, locks, host, held>>

Probe(s) ==
  /\ pc[s] = "probe"
  /\ Goto(s, IF Running THEN "done" ELSE "load")
  /\ UNCHANGED <<files, locks, host, held>>

\* The mark is written through the handle the exclusive creation returned.
CreateLock(s) ==
  /\ pc[s] = "lock"
  /\ IF lock = None
       THEN lock' = [mark |-> s, stale |-> FALSE] /\ Goto(s, "spawn")
       ELSE Goto(s, "judge") /\ UNCHANGED lock
  /\ UNCHANGED <<files, takeover, host, held>>

Stale(l) == l # None /\ l.stale

\* take_lock's own look at the lock's age.
JudgeLock(s) ==
  /\ pc[s] = "judge"
  /\ Goto(s, IF Stale(lock) THEN "judged" ELSE "wait")
  /\ UNCHANGED <<files, locks, host, held>>

JudgeTakeover(s) ==
  /\ pc[s] = "judged"
  /\ Goto(s, IF Stale(takeover) THEN "sweep" ELSE "claim")
  /\ UNCHANGED <<files, locks, host, held>>

\* A dead taker's lock is removed by name.
SweepTakeover(s) ==
  /\ pc[s] = "sweep"
  /\ takeover' = None
  /\ Goto(s, "claim")
  /\ UNCHANGED <<files, lock, host, held>>

ClaimTakeover(s) ==
  /\ pc[s] = "claim"
  /\ IF takeover = None
       THEN takeover' = [mark |-> s, stale |-> FALSE] /\ Goto(s, "recheck")
       ELSE Goto(s, "wait") /\ UNCHANGED takeover
  /\ UNCHANGED <<files, lock, host, held>>

RecheckNot(s) ==
  /\ pc[s] = "recheck"
  /\ Goto(s, "overwrite")
  /\ UNCHANGED <<files, locks, host, held>>

\* "Asked again now that nobody else can be taking it over."
Recheck(s) ==
  /\ pc[s] = "recheck"
  /\ Goto(s, IF Stale(lock) THEN "overwrite" ELSE "backout")
  /\ UNCHANGED <<files, locks, host, held>>

OverwriteUnmarked(s) ==
  /\ pc[s] = "overwrite"
  /\ lock' = [stale |-> FALSE]
  /\ Goto(s, "freeing")
  /\ UNCHANGED <<files, takeover, host, held>>

Overwrite(s) ==
  /\ pc[s] = "overwrite"
  /\ lock' = [mark |-> s, stale |-> FALSE]
  /\ Goto(s, "freeing")
  /\ UNCHANGED <<files, takeover, host, held>>

FreeTakeover(s) ==
  /\ pc[s] \in {"freeing", "backout"}
  /\ takeover' = None
  /\ Goto(s, IF pc[s] = "freeing" THEN "spawn" ELSE "wait")
  /\ UNCHANGED <<files, lock, host, held>>

\* start_detached.
StartDetached(s) ==
  /\ pc[s] = "spawn"
  /\ \E v \in Servers \ ByHand :
       /\ pc[v] = "idle"
       /\ pc' = [pc EXCEPT ![s] = "await", ![v] = "load"]
  /\ UNCHANGED <<files, locks, host, held>>

\* A spawn that failed frees the lock at once; Release's two steps in one, for
\* a lock that is only as old as the spawn.
SpawnFails(s) ==
  /\ "spawn" \in Faults /\ pc[s] = "spawn"
  /\ lock' = IF lock # None /\ lock.mark = s THEN None ELSE lock
  /\ Goto(s, "failed")
  /\ UNCHANGED <<files, takeover, host, held>>

\* wait_for sees the bridge answer: the holder goes on to release.
Answered(s) ==
  /\ pc[s] \in {"await", "wait"} /\ Running
  /\ Goto(s, IF pc[s] = "await" THEN "unlock" ELSE "done")
  /\ UNCHANGED <<files, locks, host, held>>

\* Something is on its way up, or holds the starting lock to bring it up.
ComingUp ==
  \/ \E q \in Procs : pc[q] \in Loading
  \/ \E v \in Servers : pc[v] \in {"own", "bind", "bound"} \cup Moving
  \/ \E s \in Starters : pc[s] \in {"spawn", "freeing", "overwrite"}

\* The deadline.  The holder leaves its lock behind, deliberately.
Deadline(s) ==
  /\ pc[s] \in {"await", "wait"} /\ ~Running
  /\ "slow" \in Faults \/ ~ComingUp
  /\ Goto(s, "failed")
  /\ UNCHANGED <<files, locks, host, held>>

\* Lock::release reads the mark, then removes the name.
ReadMark(s) ==
  /\ pc[s] = "unlock"
  /\ Goto(s, IF lock # None /\ lock.mark = s THEN "unlink" ELSE "done")
  /\ UNCHANGED <<files, locks, host, held>>

Unlink(s) ==
  /\ pc[s] = "unlink"
  /\ lock' = None
  /\ Goto(s, "done")
  /\ UNCHANGED <<files, takeover, host, held>>

-----------------------------------------------------------------------------
(* A server: run and bind.                                                 *)

RunByHand(v) ==
  /\ v \in ByHand /\ pc[v] = "idle"
  /\ Goto(v, "load")
  /\ UNCHANGED <<files, locks, host, held>>

OwnAlways(v) ==
  /\ pc[v] = "own"
  /\ owner' = v /\ Goto(v, "bind")
  /\ UNCHANGED <<files, locks, bound, prev, held>>

\* A zero timeout: the loser exits and leaves token and settings untouched.
OwnRuntime(v) ==
  /\ pc[v] = "own"
  /\ IF owner = None
       THEN owner' = v /\ Goto(v, "bind")
       ELSE Goto(v, "failed") /\ UNCHANGED owner
  /\ UNCHANGED <<files, locks, bound, prev, held>>

\* The process ends: the OS closes its listener and drops its lock.
Exit(v, step) ==
  /\ Goto(v, step)
  /\ owner' = IF owner = v THEN None ELSE owner
  /\ bound' = [p \in Ports |-> IF bound[p] = v THEN None ELSE bound[p]]

BindRemembered(v) ==
  /\ pc[v] = "bind" /\ port # None /\ bound[port] = None
  /\ bound' = [bound EXCEPT ![port] = v]
  /\ Goto(v, "bound")
  /\ UNCHANGED <<files, locks, owner, prev, held>>

\* The port is somebody else's: a Generation never moves.
BindRefused(v) ==
  /\ pc[v] = "bind" /\ port # None /\ bound[port] # None
  /\ bound[port] \in Servers \/ ~Legacy
  /\ Exit(v, "failed")
  /\ UNCHANGED <<files, locks, prev, held>>

\* No port is remembered, or in the Legacy scope it is another program's.
MayChoose(v) ==
  pc[v] = "bind" /\ IF port = None THEN TRUE ELSE Legacy /\ bound[port] = Other

BindChosenForgets(v) ==
  /\ pc[v] = "bind" /\ port = None
  /\ \E p \in Ports : bound[p] = None /\ bound' = [bound EXCEPT ![p] = v]
  /\ Goto(v, "bound")
  /\ UNCHANGED <<files, locks, owner, prev, held>>

\* choose_port until one binds, then remember_port.  The settings files name
\* the old port still, if there was one.
BindChosen(v) ==
  /\ MayChoose(v)
  /\ \E p \in Ports :
       /\ bound[p] = None
       /\ bound' = [bound EXCEPT ![p] = v]
       /\ port' = p
  /\ prev' = [prev EXCEPT ![v] = port]
  /\ Goto(v, IF port = None THEN "bound" ELSE "rotate")
  /\ UNCHANGED <<token, minted, moves, locks, owner, held>>

\* No try found a free port, or the port found cannot be remembered.
BindFails(v) ==
  /\ MayChoose(v)
  /\ \/ (\A p \in Ports : bound[p] # None) /\ Exit(v, "failed")
     \/ "disk" \in Faults /\ (\E p \in Ports : bound[p] = None) /\ Exit(v, "broken")
  /\ UNCHANGED <<files, locks, prev, held>>

\* rotate_token: a fresh token over whatever is there.
RotateToken(v) ==
  /\ pc[v] = "rotate" /\ minted < MaxToken
  /\ minted' = minted + 1 /\ token' = minted'
  /\ held' = [held EXCEPT ![v] = minted']
  /\ todo' = Documents
  /\ Goto(v, "resettle")
  /\ UNCHANGED <<port, settings, unmoved, locks, host>>

\* A move broken off leaves the files it did not come to at the old port,
\* which no file names any more: "nothing ever tries again".
Unsettled(v) ==
  CASE pc[v] = "rotate" -> Documents
    [] pc[v] = "resettle" -> todo
    [] OTHER -> {}
BreakOff(v) ==
  /\ unmoved' = unmoved \cup {d \in Unsettled(v) : settings[d] = prev[v]}
  /\ todo' = todo \ Unsettled(v)

\* A token that cannot be written ends the server, when the port file names
\* its new port already.
RotateFails(v) ==
  /\ "disk" \in Faults /\ pc[v] = "rotate"
  /\ Exit(v, "broken") /\ BreakOff(v)
  /\ UNCHANGED <<token, minted, port, settings, locks, prev, held>>

\* move_one.
Rewrite(v, d) ==
  /\ settings' = IF settings[d] = prev[v] THEN [settings EXCEPT ![d] = port] ELSE settings
  /\ unmoved' = IF settings[d] = prev[v] THEN unmoved \ {d} ELSE unmoved

MoveSettingsUntilOneFails(v) ==
  /\ pc[v] = "resettle"
  /\ \/ /\ \E d \in todo :
             \/ Rewrite(v, d) /\ todo' = todo \ {d}
             \/ "unwritable" \in Faults /\ unmoved' = unmoved \cup {d} /\ todo' = {}
                  /\ UNCHANGED settings
        /\ UNCHANGED pc
     \/ todo = {} /\ Goto(v, "bound") /\ UNCHANGED moves
  /\ UNCHANGED <<token, minted, port, locks, host, held>>

\* move_settings_origin rewrites, one by one, the files that name the previous
\* port; "a file that cannot be rewritten does not end the move".
MoveSettings(v) ==
  /\ pc[v] = "resettle"
  /\ \/ /\ \E d \in todo :
             /\ todo' = todo \ {d}
             /\ \/ Rewrite(v, d)
                \/ "unwritable" \in Faults /\ unmoved' = unmoved \cup {d} /\ UNCHANGED settings
        /\ UNCHANGED pc
     \/ todo = {} /\ Goto(v, "bound") /\ UNCHANGED moves
  /\ UNCHANGED <<token, minted, port, locks, host, held>>

\* The listener is handed to the runtime and answers.
Serve(v) ==
  /\ pc[v] = "bound"
  /\ Goto(v, "serve")
  /\ UNCHANGED <<files, locks, host, held>>

\* alc bridge stop, or an hour idle: the listener closes first, and turns in
\* flight keep the process a little longer.
Stop(v) ==
  /\ "stop" \in Faults /\ pc[v] = "serve"
  /\ bound' = [p \in Ports |-> IF bound[p] = v THEN None ELSE bound[p]]
  /\ Goto(v, "drain")
  /\ UNCHANGED <<files, locks, owner, prev, held>>

Drained(v) ==
  /\ pc[v] = "drain"
  /\ Exit(v, "done")
  /\ UNCHANGED <<files, locks, prev, held>>

-----------------------------------------------------------------------------
(* The environment.                                                        *)

Crash(q) ==
  /\ "crash" \in Faults /\ ~Gone(q) /\ pc[q] # "idle"
  /\ IF q \in Servers
       THEN Exit(q, "killed") /\ BreakOff(q)
       ELSE Goto(q, "killed") /\ UNCHANGED <<owner, bound, todo, unmoved>>
  /\ UNCHANGED <<token, minted, port, settings, locks, prev, held>>

\* Another program takes a free port, or gives it back.  In the Legacy scope,
\* which may move, other programs leave some port of the range free.
OtherListens(p) ==
  /\ "other" \in Faults
  /\ bound[p] \in {None, Other}
  /\ Legacy => bound[p] = Other \/ \E f \in Ports \ {p} : bound[f] = None
  /\ bound' = [bound EXCEPT ![p] = IF @ = None THEN Other ELSE None]
  /\ UNCHANGED <<files, locks, owner, prev, pc, held>>

\* STALE_LOCK passes for a lock whose process is gone; a live one is through
\* with it well before.
AgeLock ==
  /\ lock # None /\ ~lock.stale /\ Gone(lock.mark)
  /\ lock' = [lock EXCEPT !.stale = TRUE]
  /\ UNCHANGED <<files, takeover, host, pc, held>>

AgeTakeover ==
  /\ takeover # None /\ ~takeover.stale /\ Gone(takeover.mark)
  /\ takeover' = [takeover EXCEPT !.stale = TRUE]
  /\ UNCHANGED <<files, lock, host, pc, held>>

-----------------------------------------------------------------------------
Load(q) == LoadToken(q) \/ ClearToken(q) \/ CreateToken(q)

Starter(s) ==
  \/ Ask(s) \/ Probe(s) \/ Load(s) \/ CreateLock(s) \/ JudgeLock(s)
  \/ JudgeTakeover(s) \/ SweepTakeover(s) \/ ClaimTakeover(s) \/ Recheck(s)
  \/ Overwrite(s) \/ FreeTakeover(s) \/ StartDetached(s) \/ SpawnFails(s)
  \/ Answered(s) \/ Deadline(s) \/ ReadMark(s) \/ Unlink(s)

Server(v) ==
  \/ Load(v) \/ OwnRuntime(v) \/ BindRemembered(v) \/ BindRefused(v)
  \/ BindChosen(v) \/ BindFails(v) \/ RotateToken(v) \/ RotateFails(v)
  \/ MoveSettings(v) \/ Serve(v) \/ Drained(v)

Next ==
  \/ \E s \in Starters : Starter(s) \/ Crash(s)
  \/ \E v \in Servers : Server(v) \/ RunByHand(v) \/ Stop(v) \/ Crash(v)
  \/ \E p \in Ports : OtherListens(p)
  \/ AgeLock \/ AgeTakeover

Spec == Init /\ [][Next]_vars

\* Every process is run by the OS; nothing is asked of faults or of files' age.
FairSpec ==
  /\ Spec
  /\ \A s \in Starters : WF_vars(Starter(s))
  /\ \A v \in Servers : WF_vars(Server(v))

-----------------------------------------------------------------------------
(* Properties.                                                             *)

\* "One starter holds the lock from before the spawn until the bridge
\* answers" (ensure): the lock file carries the mark of whoever is starting a
\* bridge, through stale locks and takeovers, as long as no process was killed.
StarterHoldsLock ==
  (\A q \in Procs : pc[q] # "killed") =>
    \A s \in Starters : pc[s] \in Holding => lock # None /\ lock.mark = s

\* "Two sessions asking at once must not both start a bridge" (ensure).
\* Not kept by four starters of which two are killed (README).
OneStarter ==
  \A s, u \in Starters : pc[s] \in Holding /\ pc[u] \in Holding => s = u

\* A serving bridge can be found: it owns the runtime and listens where the
\* port file says, whatever servers lost the race to it left undone (run, bind).
ServedWhereRemembered ==
  \A v \in Servers : pc[v] = "serve" => owner = v /\ port # None /\ bound[port] = v

\* The token on disk is the one the serving bridge accepts, so a session that
\* is refused "heals on its own" by asking for the token again (rotate_token);
\* two starters "both end up with the one token on disk" (load_or_create_token).
TokenHeals ==
  \A v \in Servers : pc[v] = "serve" => held[v] = token

\* An empty token is "unambiguously stale", so that "clearing it is safe"
\* (load_or_create_token): what is cleared is an empty token.
\* Not kept when two load an empty token at once (README).
ClearsOnlyBlank ==
  [][ \A q \in Procs : pc[q] = "clear" /\ pc'[q] = "create" => token \notin Tokens ]_vars

\* A bridge that had to move took alc's settings files along (bind): each names
\* the port of the bridge that serves, except those the move reported, and those
\* a move that was broken off between remembering the port and the end of its
\* list did not come to (README).
SettingsFollow ==
  \A v \in Servers : pc[v] = "serve" =>
    \A d \in Documents \ unmoved : settings[d] \in {None, port}

\* Losing a race never strands anyone: with nothing crashing or stopping,
\* whoever asks for a bridge gets one, and is not left at its deadline, unless
\* a bridge could not write its port or token.
AskersGetBridge ==
  \A s \in Starters :
    pc[s] = "probe" ~> pc[s] = "done" \/ \E v \in Servers : pc[v] = "broken"
=============================================================================
