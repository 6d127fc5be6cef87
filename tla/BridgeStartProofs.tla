------------------------- MODULE BridgeStartProofs -------------------------
(***************************************************************************)
(* Starting the bridge, for every number of askers, servers and ports and  *)
(* every combination of faults: a serving bridge can be found, the         *)
(* settings files follow one that moves, and short of a kill one starter   *)
(* at a time brings one up.  That the token on disk is the one the bridge  *)
(* accepts needs hypotheses, which the theorem names.                      *)
(***************************************************************************)
EXTENDS BridgeStart, FiniteSetTheorems, TLAPS

\* The owner lock is held from binding to the end of the process.
Owning == Up \cup Moving \cup {"bind", "drain"}
OwnerInv == \A v \in Servers : pc[v] \in Owning <=> owner = v

\* From its bind on, a bridge listens where the port file says.
Listening == Up \cup Moving
ListenInv ==
  \A v \in Servers : pc[v] \in Listening => port \in Ports /\ bound[port] = v

Calm == \A q \in Procs : pc[q] # "killed"

\* A starter that made the lock, or has written over it, has it.
Starting == Holding \cup {"freeing"}
LockInv ==
  /\ \A s \in Starters : pc[s] \in Starting => lock # None /\ lock.mark = s
  /\ lock # None /\ lock.stale => Gone(lock.mark)

\* Short of a kill, the takeover lock is there just while its owner works
\* under it, and what that owner is about to overwrite is stale.
Taking == {"recheck", "overwrite", "freeing", "backout"}
TakeoverInv ==
  /\ takeover # None => ~takeover.stale /\ pc[takeover.mark] \in Taking
  /\ \A s \in Starters :
       /\ pc[s] \in Taking => takeover # None /\ takeover.mark = s
       /\ pc[s] # "sweep"
       /\ pc[s] = "overwrite" => Stale(lock)

HostInv == TypeOK /\ OwnerInv /\ ListenInv
StartInv == Calm => LockInv /\ TakeoverInv
IInv == HostInv /\ StartInv

USE NamesAssumption, BoundAssumption, ByHandAssumption, LegacyAssumption

LEMMA InitIInv == Init => IInv
<1> SUFFICES ASSUME Init PROVE IInv
  OBVIOUS
<1>1. TypeOK
  BY DEF Init, TypeOK, Tokens, Steps, Procs
<1>2. OwnerInv /\ ListenInv
  BY DEF Init, OwnerInv, ListenInv, Owning, Listening, Up, Moving, Procs
<1>3. LockInv /\ TakeoverInv
  BY DEF Init, LockInv, TakeoverInv, Starting, Holding, Taking, Procs
<1> QED BY <1>1, <1>2, <1>3 DEF IInv, HostInv, StartInv

-----------------------------------------------------------------------------
(* Types.                                                                  *)

LEMMA LoadTypes ==
  ASSUME TypeOK, NEW q \in Procs, Load(q) PROVE TypeOK'
<1> USE DEF Tokens, Steps, Loading, Procs
<1>1. CASE LoadToken(q)
  BY <1>1 DEF TypeOK, LoadToken, Loaded, Goto, files, moves, locks, host
<1>2. CASE ClearToken(q)
  BY <1>2 DEF TypeOK, ClearToken, Goto, moves, locks, host
<1>3. CASE CreateToken(q)
  BY <1>3 DEF TypeOK, CreateToken, Loaded, Goto, moves, locks, host
<1> QED BY <1>1, <1>2, <1>3 DEF Load

\* A move that breaks off concerns only files of alc's.
LEMMA BreakOffTypes ==
  ASSUME TypeOK, NEW v \in Servers, BreakOff(v)
  PROVE  todo' \subseteq Documents /\ unmoved' \subseteq Documents
<1>1. Unsettled(v) \subseteq Documents
  BY DEF Unsettled, TypeOK
<1> QED BY <1>1 DEF BreakOff, TypeOK

LEMMA StarterTypes ==
  ASSUME TypeOK, NEW s \in Starters, Starter(s) PROVE TypeOK'
<1> USE DEF Steps, TakingOver, Holding, Ended, Loading, Lock, Procs, files, moves, locks, host, Goto
<1>0. [mark |-> s, stale |-> FALSE] \in Lock
  OBVIOUS
<1>1. CASE Ask(s) \/ Probe(s) \/ JudgeLock(s) \/ JudgeTakeover(s) \/ Recheck(s)
  BY <1>1 DEF TypeOK, Ask, Probe, JudgeLock, JudgeTakeover, Recheck
<1>2. CASE Load(s)
  BY <1>2, LoadTypes
<1>3. CASE CreateLock(s)
  <2>1. lock' \in Lock \cup {None}
    <3>1. lock' \in {lock, [mark |-> s, stale |-> FALSE]}
      BY <1>3 DEF CreateLock
    <3> QED BY <1>0, <3>1 DEF TypeOK
  <2>2. pc' \in [Procs -> Steps]
    BY <1>3 DEF TypeOK, CreateLock
  <2> QED BY <1>3, <2>1, <2>2 DEF TypeOK, CreateLock
<1>4. CASE SweepTakeover(s) \/ ClaimTakeover(s) \/ FreeTakeover(s)
  <2>1. takeover' \in Lock \cup {None}
    <3>1. takeover' \in {None, takeover, [mark |-> s, stale |-> FALSE]}
      BY <1>4 DEF SweepTakeover, ClaimTakeover, FreeTakeover
    <3> QED BY <1>0, <3>1 DEF TypeOK
  <2>2. pc' \in [Procs -> Steps]
    BY <1>4 DEF TypeOK, SweepTakeover, ClaimTakeover, FreeTakeover
  <2> QED BY <1>4, <2>1, <2>2 DEF TypeOK, SweepTakeover, ClaimTakeover, FreeTakeover
<1>5. CASE Overwrite(s)
  BY <1>5 DEF TypeOK, Overwrite
<1>6. CASE StartDetached(s)
  BY <1>6 DEF TypeOK, StartDetached
<1>7. CASE SpawnFails(s) \/ Unlink(s)
  BY <1>7 DEF TypeOK, SpawnFails, Unlink
<1>8. CASE Answered(s) \/ Deadline(s) \/ ReadMark(s)
  BY <1>8 DEF TypeOK, Answered, Deadline, ReadMark
<1> QED BY <1>1, <1>2, <1>3, <1>4, <1>5, <1>6, <1>7, <1>8 DEF Starter

LEMMA ServerTypes ==
  ASSUME TypeOK, NEW v \in Servers, Server(v) \/ RunByHand(v) \/ Stop(v) PROVE TypeOK'
<1> USE DEF Steps, Up, Moving, Ended, Loading, Procs, files, moves, locks, host, Goto
<1>1. CASE Load(v)
  BY <1>1, LoadTypes
<1>2. CASE OwnRuntime(v)
  BY <1>2 DEF TypeOK, OwnRuntime
<1>3. CASE BindRemembered(v) \/ BindChosen(v)
  BY <1>3 DEF TypeOK, BindRemembered, BindChosen, MayChoose
<1>4. CASE BindRefused(v) \/ Drained(v) \/ BindFails(v)
  BY <1>4 DEF TypeOK, BindRefused, Drained, BindFails, Exit
<1>5. CASE RotateToken(v)
  BY <1>5 DEF TypeOK, RotateToken, Tokens
<1>6. CASE RotateFails(v)
  BY <1>6, BreakOffTypes DEF TypeOK, RotateFails, Exit
<1>7. CASE MoveSettings(v)
  <2>1. settings' \in [Documents -> Ports \cup {None}]
    BY <1>7 DEF TypeOK, MoveSettings, Rewrite
  <2>2. todo' \subseteq Documents /\ unmoved' \subseteq Documents
    BY <1>7 DEF TypeOK, MoveSettings, Rewrite
  <2> QED BY <1>7, <2>1, <2>2 DEF TypeOK, MoveSettings
<1>8. CASE Serve(v) \/ RunByHand(v)
  BY <1>8 DEF TypeOK, Serve, RunByHand
<1>9. CASE Stop(v)
  BY <1>9 DEF TypeOK, Stop
<1> QED BY <1>1, <1>2, <1>3, <1>4, <1>5, <1>6, <1>7, <1>8, <1>9 DEF Server

\* Type correctness is preserved by every step.
LEMMA TypeStep == TypeOK /\ [Next]_vars => TypeOK'
<1> SUFFICES ASSUME TypeOK, [Next]_vars PROVE TypeOK'
  OBVIOUS
<1>1. ASSUME NEW s \in Starters, Starter(s) PROVE TypeOK'
  BY <1>1, StarterTypes
<1>2. ASSUME NEW v \in Servers, Server(v) \/ RunByHand(v) \/ Stop(v) PROVE TypeOK'
  BY <1>2, ServerTypes
<1>3. ASSUME NEW q \in Procs, Crash(q) PROVE TypeOK'
  <2> USE DEF Crash, Goto, Steps, Ended, Procs, locks
  <2>1. CASE q \in Servers
    BY <1>3, <2>1, BreakOffTypes DEF TypeOK, Exit
  <2>2. CASE q \notin Servers
    BY <1>3, <2>2 DEF TypeOK
  <2> QED BY <2>1, <2>2
<1>4. ASSUME NEW p \in Ports, OtherListens(p) PROVE TypeOK'
  BY <1>4 DEF TypeOK, OtherListens, files, moves, locks
<1>5. CASE AgeLock \/ AgeTakeover
  BY <1>5 DEF TypeOK, AgeLock, AgeTakeover, Lock, files, moves, host
<1>6. CASE UNCHANGED vars
  BY <1>6 DEF TypeOK, vars
<1> QED BY <1>1, <1>2, <1>3, <1>4, <1>5, <1>6 DEF Next, Procs

-----------------------------------------------------------------------------
(* The host.                                                               *)

\* Starters leave the owner lock, the ports and the serving bridge alone.
LEMMA StarterApart ==
  ASSUME TypeOK, NEW s \in Starters, Starter(s) \/ Crash(s)
  PROVE  /\ UNCHANGED <<owner, bound, port>>
         /\ \A v \in Servers : /\ pc'[v] \in Owning <=> pc[v] \in Owning
                               /\ pc'[v] \in Listening <=> pc[v] \in Listening
<1> USE DEF Owning, Listening, Up, Moving, Procs, Goto, files, moves, locks, host, TypeOK
<1>1. CASE Crash(s)
  BY <1>1 DEF Crash
<1>2. CASE Load(s)
  BY <1>2 DEF Load, LoadToken, ClearToken, CreateToken, Loaded
<1>3. CASE StartDetached(s)
  BY <1>3 DEF StartDetached
<1>4. CASE \/ Ask(s) \/ Probe(s) \/ CreateLock(s) \/ JudgeLock(s) \/ JudgeTakeover(s)
           \/ SweepTakeover(s) \/ ClaimTakeover(s) \/ Recheck(s) \/ Overwrite(s)
  BY <1>4 DEF Ask, Probe, CreateLock, JudgeLock, JudgeTakeover, SweepTakeover,
     ClaimTakeover, Recheck, Overwrite
<1>5. CASE \/ FreeTakeover(s) \/ SpawnFails(s) \/ Answered(s) \/ Deadline(s)
           \/ ReadMark(s) \/ Unlink(s)
  BY <1>5 DEF FreeTakeover, SpawnFails, Answered, Deadline, ReadMark, Unlink
<1> QED BY <1>1, <1>2, <1>3, <1>4, <1>5 DEF Starter

\* One server at a time is between taking the owner lock and its end, so that
\* nobody else moves the port or its listener.
LEMMA HostStep == HostInv /\ [Next]_vars => OwnerInv' /\ ListenInv'
<1> SUFFICES ASSUME HostInv, [Next]_vars PROVE OwnerInv' /\ ListenInv'
  OBVIOUS
<1> USE DEF HostInv
<1>1. ASSUME NEW s \in Starters, Starter(s) \/ Crash(s) PROVE OwnerInv' /\ ListenInv'
  BY <1>1, StarterApart DEF OwnerInv, ListenInv
<1>2. ASSUME NEW v \in Servers, Server(v) \/ RunByHand(v) \/ Stop(v) \/ Crash(v)
      PROVE  OwnerInv' /\ ListenInv'
  <2> USE DEF Owning, Listening, Up, Moving, Procs, Goto, files, moves, locks, host
  <2>1. CASE Load(v) \/ RunByHand(v)
    BY <1>2, <2>1 DEF TypeOK, OwnerInv, ListenInv, RunByHand,
       Load, LoadToken, ClearToken, CreateToken, Loaded
  <2>2. CASE OwnRuntime(v)
    BY <1>2, <2>2 DEF TypeOK, OwnerInv, ListenInv, OwnRuntime
  <2>3. CASE BindRemembered(v)
    BY <1>2, <2>3 DEF TypeOK, OwnerInv, ListenInv, BindRemembered
  <2>4. CASE BindRefused(v) \/ BindFails(v) \/ RotateFails(v) \/ Drained(v) \/ Crash(v)
    <3>1. PICK e \in Ended : Exit(v, e)
      BY <2>4 DEF BindRefused, BindFails, RotateFails, Drained, Crash, Ended
    <3>2. UNCHANGED port
      BY <2>4 DEF BindRefused, BindFails, RotateFails, Drained, Crash
    <3> QED BY <1>2, <3>1, <3>2 DEF TypeOK, OwnerInv, ListenInv, Exit, Ended
  <2>5. CASE BindChosen(v)
    <3>1. \A u \in Servers : pc[u] \in Owning => u = v
      BY <2>5 DEF BindChosen, MayChoose, OwnerInv
    <3> QED BY <1>2, <2>5, <3>1 DEF TypeOK, OwnerInv, ListenInv, BindChosen, MayChoose
  <2>6. CASE RotateToken(v) \/ MoveSettings(v) \/ Serve(v)
    BY <1>2, <2>6 DEF TypeOK, OwnerInv, ListenInv, RotateToken, MoveSettings, Serve
  <2>7. CASE Stop(v)
    BY <1>2, <2>7 DEF TypeOK, OwnerInv, ListenInv, Stop
  <2> QED BY <1>2, <2>1, <2>2, <2>3, <2>4, <2>5, <2>6, <2>7 DEF Server
<1>3. ASSUME NEW p \in Ports, OtherListens(p) PROVE OwnerInv' /\ ListenInv'
  BY <1>3 DEF TypeOK, OwnerInv, ListenInv, OtherListens, files, moves, locks
<1>4. CASE AgeLock \/ AgeTakeover \/ UNCHANGED vars
  BY <1>4 DEF OwnerInv, ListenInv, AgeLock, AgeTakeover, vars, files, moves, host
<1> QED BY <1>1, <1>2, <1>3, <1>4 DEF Next, Procs

-----------------------------------------------------------------------------
(* The starting lock.                                                      *)

\* Whatever is not a starter's step leaves the starting locks to the starters
\* and each starter where it is.
LEMMA ServerApart ==
  ASSUME TypeOK, NEW v \in Servers, Server(v) \/ RunByHand(v) \/ Stop(v) \/ Crash(v)
  PROVE  /\ UNCHANGED <<lock, takeover>>
         /\ \A s \in Starters : pc'[s] = pc[s]
<1> USE DEF Procs, Goto, files, moves, locks, host, TypeOK
<1>1. CASE Load(v)
  BY <1>1 DEF Load, LoadToken, ClearToken, CreateToken, Loaded
<1>2. CASE OwnRuntime(v) \/ BindRemembered(v) \/ BindChosen(v)
  BY <1>2 DEF OwnRuntime, BindRemembered, BindChosen
<1>3. CASE BindRefused(v) \/ BindFails(v) \/ RotateFails(v) \/ Drained(v) \/ Crash(v)
  BY <1>3 DEF BindRefused, BindFails, RotateFails, Drained, Crash, Exit
<1>4. CASE RotateToken(v) \/ MoveSettings(v) \/ Serve(v) \/ RunByHand(v) \/ Stop(v)
  BY <1>4 DEF RotateToken, MoveSettings, Serve, RunByHand, Stop
<1> QED BY <1>1, <1>2, <1>3, <1>4 DEF Server

\* Nobody comes back from the dead.
LEMMA CalmBefore ==
  ASSUME TypeOK, [Next]_vars, Calm' PROVE Calm
<1>1. ASSUME NEW s \in Starters, Starter(s) PROVE Calm
  <2> USE DEF Calm, Procs, Goto, files, moves, locks, host, TypeOK
  <2>1. CASE Load(s)
    BY <1>1, <2>1 DEF Load, LoadToken, ClearToken, CreateToken, Loaded
  <2>2. CASE StartDetached(s)
    BY <1>1, <2>2 DEF StartDetached
  <2>3. CASE \/ Ask(s) \/ Probe(s) \/ CreateLock(s) \/ JudgeLock(s) \/ JudgeTakeover(s)
             \/ SweepTakeover(s) \/ ClaimTakeover(s) \/ Recheck(s) \/ Overwrite(s)
    BY <1>1, <2>3 DEF Ask, Probe, CreateLock, JudgeLock, JudgeTakeover, SweepTakeover,
       ClaimTakeover, Recheck, Overwrite
  <2>4. CASE \/ FreeTakeover(s) \/ SpawnFails(s) \/ Answered(s) \/ Deadline(s)
             \/ ReadMark(s) \/ Unlink(s)
    BY <1>1, <2>4 DEF FreeTakeover, SpawnFails, Answered, Deadline, ReadMark, Unlink
  <2> QED BY <1>1, <2>1, <2>2, <2>3, <2>4 DEF Starter
<1>2. ASSUME NEW v \in Servers, Server(v) \/ RunByHand(v) \/ Stop(v) PROVE Calm
  <2> USE DEF Calm, Procs, Goto, files, moves, locks, host, TypeOK
  <2>1. CASE Load(v)
    BY <1>2, <2>1 DEF Load, LoadToken, ClearToken, CreateToken, Loaded
  <2>2. CASE OwnRuntime(v) \/ BindRemembered(v) \/ BindChosen(v)
    BY <1>2, <2>2 DEF OwnRuntime, BindRemembered, BindChosen, MayChoose
  <2>3. CASE BindRefused(v) \/ BindFails(v) \/ RotateFails(v) \/ Drained(v)
    BY <1>2, <2>3 DEF BindRefused, BindFails, MayChoose, RotateFails, Drained, Exit
  <2>4. CASE RotateToken(v) \/ MoveSettings(v) \/ Serve(v) \/ RunByHand(v) \/ Stop(v)
    BY <1>2, <2>4 DEF RotateToken, MoveSettings, Serve, RunByHand, Stop
  <2> QED BY <1>2, <2>1, <2>2, <2>3, <2>4 DEF Server
<1>3. ASSUME NEW q \in Procs, Crash(q) PROVE Calm
  <2>1. pc'[q] = "killed"
    BY <1>3 DEF Crash, Exit, Goto, TypeOK
  <2> QED BY <2>1 DEF Calm
<1>4. CASE (\E p \in Ports : OtherListens(p)) \/ AgeLock \/ AgeTakeover \/ UNCHANGED vars
  BY <1>4 DEF Calm, OtherListens, AgeLock, AgeTakeover, vars
<1> QED BY <1>1, <1>2, <1>3, <1>4 DEF Next, Procs

\* A starter's own step keeps the lock to whoever is starting, and the
\* takeover lock to whoever is taking over.
LEMMA StarterStep ==
  ASSUME TypeOK, LockInv, TakeoverInv, NEW s \in Starters, Starter(s)
  PROVE  LockInv' /\ TakeoverInv'
<1> USE DEF Starting, Holding, Taking, TypeOK, Procs, Goto, Gone, Ended, Lock, Stale,
            files, moves, locks, host
<1>1. CASE Ask(s) \/ Probe(s)
  BY <1>1 DEF LockInv, TakeoverInv, Ask, Probe
<1>2. CASE Load(s)
  BY <1>2 DEF LockInv, TakeoverInv, Load, LoadToken, ClearToken, CreateToken, Loaded
<1>0. [mark |-> s, stale |-> FALSE] # None
  <2>1. [mark |-> s, stale |-> FALSE] \in [mark : Starters, stale : BOOLEAN]
    OBVIOUS
  <2>2. None \notin [mark : Starters, stale : BOOLEAN]
    BY ONLY NamesAssumption
  <2> QED BY <2>1, <2>2
<1>3. CASE CreateLock(s)
  <2>1. CASE lock = None
    <3>1. /\ lock' # None /\ lock'.mark = s /\ ~lock'.stale
          /\ pc' = [pc EXCEPT ![s] = "spawn"]
      BY <1>0, <1>3, <2>1 DEF CreateLock
    <3>2. LockInv'
      BY <2>1, <3>1 DEF LockInv
    <3>3. TakeoverInv'
      BY <1>3, <2>1, <3>1 DEF TakeoverInv, CreateLock
    <3> QED BY <3>2, <3>3
  <2>2. CASE lock # None
    BY <1>3, <2>2 DEF LockInv, TakeoverInv, CreateLock
  <2> QED BY <2>1, <2>2
<1>4. CASE JudgeLock(s) \/ JudgeTakeover(s)
  BY <1>4 DEF LockInv, TakeoverInv, JudgeLock, JudgeTakeover
<1>5. CASE SweepTakeover(s)
  BY <1>5 DEF TakeoverInv, SweepTakeover
<1>6. CASE ClaimTakeover(s)
  <2>1. CASE takeover = None
    <3>1. /\ takeover' # None /\ takeover'.mark = s /\ ~takeover'.stale
          /\ pc' = [pc EXCEPT ![s] = "recheck"]
          /\ UNCHANGED lock /\ pc[s] = "claim"
      BY <1>0, <1>6, <2>1 DEF ClaimTakeover
    <3>2. LockInv'
      BY <3>1 DEF LockInv
    <3>3. TakeoverInv'
      BY <2>1, <3>1 DEF TakeoverInv
    <3> QED BY <3>2, <3>3
  <2>2. CASE takeover # None
    BY <1>6, <2>2 DEF LockInv, TakeoverInv, ClaimTakeover
  <2> QED BY <2>1, <2>2
<1>7. CASE Recheck(s)
  BY <1>7 DEF LockInv, TakeoverInv, Recheck
<1>8. CASE Overwrite(s)
  BY <1>8 DEF LockInv, TakeoverInv, Overwrite
<1>9. CASE FreeTakeover(s)
  BY <1>9 DEF LockInv, TakeoverInv, FreeTakeover
<1>10. CASE StartDetached(s)
  BY <1>10 DEF LockInv, TakeoverInv, StartDetached
<1>11. CASE SpawnFails(s)
  BY <1>11 DEF LockInv, TakeoverInv, SpawnFails
<1>12. CASE Answered(s) \/ Deadline(s)
  BY <1>12 DEF LockInv, TakeoverInv, Answered, Deadline
<1>13. CASE ReadMark(s) \/ Unlink(s)
  BY <1>13 DEF LockInv, TakeoverInv, ReadMark, Unlink
<1> QED BY <1>1, <1>2, <1>3, <1>4, <1>5, <1>6, <1>7, <1>8, <1>9, <1>10, <1>11, <1>12, <1>13
        DEF Starter

\* So does every other step that leaves no process killed.
LEMMA StartStep == HostInv /\ StartInv /\ [Next]_vars => StartInv'
<1> SUFFICES ASSUME HostInv, StartInv, [Next]_vars, Calm' PROVE LockInv' /\ TakeoverInv'
  BY DEF StartInv
<1>0. TypeOK /\ LockInv /\ TakeoverInv
  BY CalmBefore DEF HostInv, StartInv
<1>1. ASSUME NEW s \in Starters, Starter(s) PROVE LockInv' /\ TakeoverInv'
  BY <1>0, <1>1, StarterStep
<1>2. ASSUME NEW v \in Servers, Server(v) \/ RunByHand(v) \/ Stop(v) \/ Crash(v)
      PROVE  LockInv' /\ TakeoverInv'
  <2>1. /\ UNCHANGED <<lock, takeover>>
        /\ \A s \in Starters : pc'[s] = pc[s]
    BY <1>0, <1>2, ServerApart
  <2>2. LockInv'
    BY <1>0, <2>1 DEF LockInv, TypeOK, Lock, Gone
  <2>3. TakeoverInv'
    BY <1>0, <2>1 DEF TakeoverInv, TypeOK, Lock, Stale
  <2> QED BY <2>2, <2>3
<1>3. ASSUME NEW s \in Starters, Crash(s) PROVE FALSE
  <2>1. pc'[s] = "killed"
    BY <1>0, <1>3 DEF Crash, Goto, TypeOK, Procs
  <2> QED BY <2>1 DEF Calm, Procs
<1>4. CASE AgeLock
  BY <1>0, <1>4 DEF AgeLock, LockInv, TakeoverInv, TypeOK, Lock, Stale, Gone, files, moves, host
<1>5. CASE AgeTakeover
  BY <1>0, <1>5 DEF AgeTakeover, TakeoverInv, TypeOK, Lock, Gone, Taking, Ended
<1>6. CASE (\E p \in Ports : OtherListens(p)) \/ UNCHANGED vars
  BY <1>0, <1>6 DEF LockInv, TakeoverInv, OtherListens, Gone, Stale, vars, files, moves, locks
<1> QED BY <1>1, <1>2, <1>3, <1>4, <1>5, <1>6 DEF Next, Procs

-----------------------------------------------------------------------------
(* The settings files.                                                     *)

\* A file that names another port than the port file is one that a move has
\* still to come to, or that a move left behind.
SettingsInv ==
  \A d \in Documents \ unmoved :
    \/ settings[d] \in {None, port}
    \/ \E v \in Servers : d \in Unsettled(v) /\ prev[v] = settings[d]

\* Nobody but a server on the move comes near the settings or the port.
LEMMA MovesApart ==
  ASSUME HostInv, SettingsInv, UNCHANGED <<port, moves, prev>>,
         \A u \in Servers : pc[u] \in Moving => pc'[u] = pc[u]
  PROVE  SettingsInv'
<1>1. \A u \in Servers : Unsettled(u) \subseteq Unsettled(u)'
  BY DEF Unsettled, Moving, moves
<1> QED BY <1>1 DEF SettingsInv, moves

\* A server that ends takes its list with it, and what it had not come to is
\* left behind.
LEMMA BreakOffKeeps ==
  ASSUME HostInv, SettingsInv, NEW v \in Servers, NEW e \in Ended, Exit(v, e), BreakOff(v),
         UNCHANGED <<port, settings, prev>>
  PROVE  SettingsInv'
<1> SUFFICES ASSUME NEW d \in Documents, d \notin unmoved', settings[d] \notin {None, port}
             PROVE  \E u \in Servers : d \in Unsettled(u)' /\ prev[u] = settings[d]
  BY DEF SettingsInv
<1>1. d \notin unmoved /\ ~(d \in Unsettled(v) /\ settings[d] = prev[v])
  BY DEF BreakOff
<1>2. PICK u \in Servers : d \in Unsettled(u) /\ prev[u] = settings[d]
  BY <1>1 DEF SettingsInv
<1>3. u # v /\ pc'[u] = pc[u]
  BY <1>1, <1>2 DEF Exit, Goto, HostInv, TypeOK, Procs
<1>4. pc[u] \in Moving /\ pc[v] \notin Moving
  <2>1. pc[u] \in Moving
    BY <1>2 DEF Unsettled, Moving
  <2> QED BY <1>3, <2>1 DEF HostInv, OwnerInv, Owning
<1>5. Unsettled(v) = {}
  BY <1>4 DEF Unsettled, Moving
<1>6. d \in Unsettled(u)'
  BY <1>2, <1>3, <1>5 DEF BreakOff, Unsettled
<1> QED BY <1>2, <1>6

\* Only the server on the move touches the port or the settings, and it is
\* the owner: nobody else moves before its settings have followed.
LEMMA SettingsStep == HostInv /\ SettingsInv /\ [Next]_vars => SettingsInv'
<1> SUFFICES ASSUME HostInv, SettingsInv, [Next]_vars PROVE SettingsInv'
  OBVIOUS
<1>0. TypeOK
  BY DEF HostInv
<1>1. ASSUME NEW s \in Starters, Starter(s) \/ Crash(s) PROVE SettingsInv'
  <2> USE DEF Moving, Procs, Goto, files, locks, host, TypeOK
  <2> SUFFICES /\ UNCHANGED <<port, moves, prev>>
               /\ \A u \in Servers : pc[u] \in Moving => pc'[u] = pc[u]
    BY MovesApart
  <2>1. CASE Crash(s)
    BY <1>0, <1>1, <2>1 DEF Crash, moves
  <2>2. CASE Load(s)
    BY <1>0, <1>1, <2>2 DEF Load, LoadToken, ClearToken, CreateToken, Loaded
  <2>3. CASE StartDetached(s)
    BY <1>0, <1>1, <2>3 DEF StartDetached
  <2>4. CASE \/ Ask(s) \/ Probe(s) \/ CreateLock(s) \/ JudgeLock(s) \/ JudgeTakeover(s)
             \/ SweepTakeover(s) \/ ClaimTakeover(s) \/ Recheck(s) \/ Overwrite(s)
    BY <1>0, <1>1, <2>4 DEF Ask, Probe, CreateLock, JudgeLock, JudgeTakeover, SweepTakeover,
       ClaimTakeover, Recheck, Overwrite
  <2>5. CASE \/ FreeTakeover(s) \/ SpawnFails(s) \/ Answered(s) \/ Deadline(s)
             \/ ReadMark(s) \/ Unlink(s)
    BY <1>0, <1>1, <2>5 DEF FreeTakeover, SpawnFails, Answered, Deadline, ReadMark, Unlink
  <2> QED BY <1>1, <2>1, <2>2, <2>3, <2>4, <2>5 DEF Starter
<1>2. ASSUME NEW v \in Servers, Server(v) \/ RunByHand(v) \/ Stop(v) PROVE SettingsInv'
  <2> USE DEF Moving, Procs, Goto, files, locks, host
  <2>1. CASE Load(v)
    BY <1>0, <1>2, <2>1, MovesApart
       DEF Load, LoadToken, ClearToken, CreateToken, Loaded, Loading, moves, TypeOK
  <2>2. CASE OwnRuntime(v) \/ BindRemembered(v)
    BY <1>0, <1>2, <2>2, MovesApart DEF OwnRuntime, BindRemembered, TypeOK
  <2>3. CASE BindRefused(v) \/ BindFails(v) \/ Drained(v)
    BY <1>0, <1>2, <2>3, MovesApart DEF BindRefused, BindFails, MayChoose, Drained, Exit, TypeOK
  <2>4. CASE BindChosen(v)
    <3>1. pc[v] = "bind" /\ pc' = [pc EXCEPT ![v] = IF port = None THEN "bound" ELSE "rotate"]
      BY <2>4 DEF BindChosen, MayChoose
    <3>2. \A u \in Servers : pc[u] \notin Moving
      BY <3>1 DEF HostInv, OwnerInv, Owning
    <3>3. \A d \in Documents \ unmoved : settings[d] \in {None, port}
      BY <3>2 DEF SettingsInv, Unsettled
    <3>4. /\ settings' = settings /\ unmoved' = unmoved
          /\ prev' = [prev EXCEPT ![v] = port]
      BY <2>4 DEF BindChosen, moves
    <3>5. CASE port = None
      BY <3>3, <3>4, <3>5 DEF SettingsInv
    <3>6. CASE port # None
      <4>1. Unsettled(v)' = Documents /\ prev'[v] = port
        BY <1>0, <3>1, <3>4, <3>6 DEF Unsettled, TypeOK
      <4> QED BY <3>3, <3>4, <4>1 DEF SettingsInv
    <3> QED BY <3>5, <3>6
  <2>5. CASE RotateToken(v)
    <3>1. /\ UNCHANGED <<port, settings, unmoved, prev>> /\ todo' = Documents
          /\ pc' = [pc EXCEPT ![v] = "resettle"] /\ pc[v] = "rotate"
      BY <2>5 DEF RotateToken
    <3>2. \A u \in Servers : u # v => pc[u] \notin Moving
      BY <3>1 DEF HostInv, OwnerInv, Owning
    <3>3. Unsettled(v) = Documents /\ Unsettled(v)' = Documents
      BY <1>0, <3>1 DEF Unsettled, TypeOK
    <3>4. \A u \in Servers : u # v => Unsettled(u) = {}
      BY <3>2 DEF Unsettled
    <3> QED BY <3>1, <3>3, <3>4 DEF SettingsInv
  <2>6. CASE RotateFails(v)
    BY <1>2, <2>6, BreakOffKeeps DEF RotateFails, Ended
  <2>7. CASE MoveSettings(v)
    <3>1. pc[v] = "resettle" /\ UNCHANGED <<port, prev>>
      BY <2>7 DEF MoveSettings
    <3>2. \A u \in Servers : u # v => pc[u] \notin Moving
      BY <3>1 DEF HostInv, OwnerInv, Owning
    <3>3. \A d \in Documents \ unmoved :
            settings[d] \in {None, port} \/ (d \in todo /\ prev[v] = settings[d])
      BY <3>1, <3>2 DEF SettingsInv, Unsettled
    <3>4. CASE todo = {} /\ UNCHANGED moves
      BY <3>1, <3>3, <3>4 DEF SettingsInv, moves
    <3>5. CASE \E d \in todo :
                 /\ todo' = todo \ {d} /\ UNCHANGED pc
                 /\ Rewrite(v, d) \/ (unmoved' = unmoved \cup {d} /\ UNCHANGED settings)
      <4>1. PICK d \in todo :
                 /\ todo' = todo \ {d} /\ UNCHANGED pc
                 /\ Rewrite(v, d) \/ (unmoved' = unmoved \cup {d} /\ UNCHANGED settings)
        BY <3>5
      <4>2. Unsettled(v)' = todo \ {d}
        BY <3>1, <4>1 DEF Unsettled
      <4> SUFFICES ASSUME NEW c \in Documents, c \notin unmoved'
                   PROVE  settings'[c] \in {None, port} \/ (c \in todo \ {d} /\ prev[v] = settings'[c])
        BY <3>1, <4>2 DEF SettingsInv
      <4>3. CASE c # d
        <5>1. settings'[c] = settings[c] /\ c \notin unmoved
          BY <1>0, <4>1, <4>3 DEF Rewrite, TypeOK
        <5> QED BY <3>3, <4>3, <5>1
      <4>4. CASE c = d /\ Rewrite(v, d)
        <5>1. CASE settings[d] = prev[v]
          BY <1>0, <4>4, <5>1 DEF Rewrite, TypeOK
        <5>2. CASE settings[d] # prev[v]
          BY <3>3, <4>4, <5>2 DEF Rewrite
        <5> QED BY <5>1, <5>2
      <4>5. CASE c = d /\ unmoved' = unmoved \cup {d}
        BY <4>5
      <4> QED BY <4>1, <4>3, <4>4, <4>5
    <3> QED BY <2>7, <3>4, <3>5 DEF MoveSettings
  <2>8. CASE Serve(v) \/ RunByHand(v) \/ Stop(v)
    BY <1>0, <1>2, <2>8, MovesApart DEF Serve, RunByHand, Stop, TypeOK
  <2> QED BY <1>2, <2>1, <2>2, <2>3, <2>4, <2>5, <2>6, <2>7, <2>8 DEF Server
<1>3. ASSUME NEW v \in Servers, Crash(v) PROVE SettingsInv'
  BY <1>3, BreakOffKeeps DEF Crash, Ended
<1>4. CASE (\E p \in Ports : OtherListens(p)) \/ AgeLock \/ AgeTakeover \/ UNCHANGED vars
  BY <1>4, MovesApart DEF OtherListens, AgeLock, AgeTakeover, vars, files, moves, host
<1> QED BY <1>1, <1>2, <1>3, <1>4 DEF Next, Procs

-----------------------------------------------------------------------------
(* The token.                                                              *)

\* A port is held by another program only where those listen, and otherwise by
\* a server between its bind and its end.
BoundInv ==
  \A p \in Ports :
    /\ bound[p] \in Servers => pc[bound[p]] \in Listening
    /\ bound[p] = Other => "other" \in Faults

\* Without an empty token file nothing clears the token.  Whoever has loaded
\* it holds the one on disk, or has lost the runtime to an owner that moved and
\* rotated it; that owner stays.
Moves == Legacy /\ "other" \in Faults
Rotated == {"resettle", "bound", "serve"}
TokenInv ==
  /\ token # Blank
  /\ \A q \in Procs : pc[q] # "clear"
  /\ \A v \in Servers :
       /\ pc[v] = "drain" => "stop" \in Faults
       /\ pc[v] \in Moving => Moves
       /\ pc[v] \in Owning \cup {"own"} =>
            /\ token \in Tokens
            /\ held[v] = token \/ (Moves /\ owner \in Servers \ {v} /\ pc[owner] \in Rotated)

\* The three names are different.
LEMMA Names == None # Blank /\ None # Other
<1>1. ASSUME NEW a, NEW b PROVE Cardinality({a, b}) # 3
  <2>1. IsFiniteSet({a}) /\ Cardinality({a}) = 1
    BY FS_Singleton
  <2>2. {a, b} = {a} \cup {b}
    OBVIOUS
  <2>3. Cardinality({a} \cup {b}) \in {1, 2}
    BY <2>1, FS_AddElement
  <2> QED BY <2>2, <2>3
<1>2. None # Blank
  <2> SUFFICES ASSUME None = Blank PROVE FALSE
    OBVIOUS
  <2>1. {None, Blank, Other} = {None, Other}
    OBVIOUS
  <2> QED BY <1>1, <2>1
<1>3. None # Other
  <2> SUFFICES ASSUME None = Other PROVE FALSE
    OBVIOUS
  <2>1. {None, Blank, Other} = {None, Blank}
    OBVIOUS
  <2> QED BY <1>1, <2>1
<1> QED BY <1>2, <1>3

\* A bridge that can move is not one that can hand the runtime over.
Settled == "blank" \notin Faults /\ (Moves => {"stop", "crash"} \cap Faults = {})

\* Only whoever holds a port gives it up, and only to nobody.
LEMMA BoundStep == HostInv /\ BoundInv /\ [Next]_vars => BoundInv'
<1> SUFFICES ASSUME HostInv, BoundInv, [Next]_vars PROVE BoundInv'
  OBVIOUS
<1> USE DEF HostInv, BoundInv
<1>1. ASSUME NEW s \in Starters, Starter(s) \/ Crash(s) PROVE BoundInv'
  BY <1>1, StarterApart, Zenon DEF TypeOK
<1>2. ASSUME NEW v \in Servers, Server(v) \/ RunByHand(v) \/ Stop(v) \/ Crash(v)
      PROVE  BoundInv'
  <2> USE DEF Listening, Up, Moving, Procs, Goto, files, moves, locks, host, TypeOK
  <2>1. CASE Load(v) \/ RunByHand(v)
    BY <1>2, <2>1 DEF RunByHand, Load, LoadToken, ClearToken, CreateToken, Loaded, Loading
  <2>2. CASE OwnRuntime(v)
    BY <1>2, <2>2 DEF OwnRuntime
  <2>3. CASE BindRemembered(v) \/ BindChosen(v)
    BY <1>2, <2>3 DEF BindRemembered, BindChosen, MayChoose
  <2>4. CASE BindRefused(v) \/ BindFails(v) \/ RotateFails(v) \/ Drained(v) \/ Crash(v)
    <3>1. PICK e \in Ended : Exit(v, e)
      BY <2>4 DEF BindRefused, BindFails, RotateFails, Drained, Crash, Ended
    <3>2. \A p \in Ports : bound'[p] # v
      BY <3>1, Names DEF Exit
    <3> QED BY <1>2, <3>1, <3>2, Names DEF Exit
  <2>5. CASE RotateToken(v) \/ MoveSettings(v) \/ Serve(v)
    BY <1>2, <2>5 DEF RotateToken, MoveSettings, Serve
  <2>6. CASE Stop(v)
    <3>1. \A p \in Ports : bound'[p] # v /\ bound'[p] \in {None, bound[p]}
      BY <2>6 DEF Stop
    <3> QED BY <1>2, <2>6, <3>1, Names DEF Stop
  <2> QED BY <1>2, <2>1, <2>2, <2>3, <2>4, <2>5, <2>6 DEF Server
<1>3. ASSUME NEW p \in Ports, OtherListens(p) PROVE BoundInv'
  BY <1>3 DEF OtherListens, TypeOK
<1>4. CASE AgeLock \/ AgeTakeover \/ UNCHANGED vars
  BY <1>4 DEF AgeLock, AgeTakeover, vars, host
<1> QED BY <1>1, <1>2, <1>3, <1>4 DEF Next, Procs

\* A loader takes the token on disk, or puts there the one it takes.
LEMMA LoadKeepsToken ==
  ASSUME TypeOK, TokenInv, NEW q \in Procs, Load(q) PROVE TokenInv'
<1> USE DEF TypeOK, TokenInv, Procs, Owning, Up, Moving, Rotated, Loading, Tokens
<1>1. pc[q] # "clear" /\ ~ClearToken(q)
  BY DEF ClearToken
<1>2. CASE LoadToken(q)
  BY <1>2 DEF LoadToken, Loaded, Goto, files, moves, locks, host
<1>3. CASE CreateToken(q)
  BY <1>3 DEF CreateToken, Loaded, Goto, locks, host
<1> QED BY <1>1, <1>2, <1>3 DEF Load

\* Starters touch the token only when they load it.
LEMMA StarterKeepsToken ==
  ASSUME TypeOK, TokenInv, NEW s \in Starters, Starter(s) \/ Crash(s) PROVE TokenInv'
<1> USE DEF TypeOK, TokenInv, Procs, Owning, Up, Moving, Rotated, Goto, files, moves, locks, host
<1>1. CASE Crash(s)
  BY <1>1 DEF Crash
<1>2. CASE Load(s)
  BY <1>2, LoadKeepsToken
<1>3. CASE StartDetached(s)
  BY <1>3 DEF StartDetached
<1>4. CASE \/ Ask(s) \/ Probe(s) \/ CreateLock(s) \/ JudgeLock(s) \/ JudgeTakeover(s)
           \/ SweepTakeover(s) \/ ClaimTakeover(s) \/ Recheck(s) \/ Overwrite(s)
  BY <1>4 DEF Ask, Probe, CreateLock, JudgeLock, JudgeTakeover, SweepTakeover,
     ClaimTakeover, Recheck, Overwrite
<1>5. CASE \/ FreeTakeover(s) \/ SpawnFails(s) \/ Answered(s) \/ Deadline(s)
           \/ ReadMark(s) \/ Unlink(s)
  BY <1>5 DEF FreeTakeover, SpawnFails, Answered, Deadline, ReadMark, Unlink
<1> QED BY <1>1, <1>2, <1>3, <1>4, <1>5 DEF Starter

\* Only the owner rotates the token, and where it may, it stays the owner.
LEMMA TokenStep ==
  ASSUME Settled, HostInv, BoundInv, TokenInv, [Next]_vars PROVE TokenInv'
<1> USE DEF HostInv
<1>1. ASSUME NEW s \in Starters, Starter(s) \/ Crash(s) PROVE TokenInv'
  BY <1>1, StarterKeepsToken
<1>2. ASSUME NEW v \in Servers, Server(v) \/ RunByHand(v) \/ Stop(v) \/ Crash(v)
      PROVE  TokenInv'
  <2> USE DEF Owning, Up, Moving, Rotated, Procs, Goto, files, moves, locks, host, TypeOK, TokenInv
  <2>1. CASE Load(v)
    BY <1>2, <2>1, LoadKeepsToken
  <2>2. CASE OwnRuntime(v)
    BY <1>2, <2>2 DEF OwnRuntime, OwnerInv
  <2>3. CASE BindRemembered(v) \/ Serve(v) \/ RunByHand(v)
    BY <1>2, <2>3 DEF BindRemembered, Serve, RunByHand
  <2>4. CASE MoveSettings(v)
    <3>1. /\ pc[v] = "resettle" /\ pc' \in {pc, [pc EXCEPT ![v] = "bound"]}
          /\ UNCHANGED <<token, owner, held>>
      BY <2>4 DEF MoveSettings
    <3> QED BY <1>2, <3>1
  <2>5. CASE BindChosen(v)
    <3>1. port = None \/ Moves
      BY <2>5 DEF BindChosen, MayChoose, BoundInv, Moves
    <3> QED BY <1>2, <2>5, <3>1 DEF BindChosen, MayChoose
  <2>6. CASE BindRefused(v) \/ BindFails(v) \/ RotateFails(v) \/ Drained(v) \/ Crash(v)
    <3>1. PICK e \in Ended : Exit(v, e)
      BY <2>6 DEF BindRefused, BindFails, RotateFails, Drained, Crash, Ended
    <3>2. UNCHANGED <<token, held>>
      BY <2>6 DEF BindRefused, BindFails, RotateFails, Drained, Crash
    <3>3. Moves => owner # v \/ pc[v] \notin Rotated
      <4>1. CASE BindRefused(v) \/ BindFails(v) \/ RotateFails(v)
        BY <4>1 DEF BindRefused, BindFails, MayChoose, RotateFails
      <4>2. CASE Drained(v) \/ Crash(v)
        BY <1>2, <4>2 DEF Drained, Crash, Settled
      <4> QED BY <2>6, <4>1, <4>2
    <3> QED BY <1>2, <3>1, <3>2, <3>3 DEF Exit, Ended
  <2>7. CASE RotateToken(v)
    <3>1. owner = v /\ Moves /\ v # None
      BY <2>7 DEF RotateToken, OwnerInv
    <3>2. token' \in Tokens /\ held' = [held EXCEPT ![v] = token']
      BY <2>7 DEF RotateToken, Tokens
    <3>3. pc' = [pc EXCEPT ![v] = "resettle"] /\ owner' = owner
      BY <2>7 DEF RotateToken
    <3> QED BY <1>2, <3>1, <3>2, <3>3 DEF Tokens
  <2>8. CASE Stop(v)
    BY <1>2, <2>8 DEF Stop, Settled
  <2> QED BY <1>2, <2>1, <2>2, <2>3, <2>4, <2>5, <2>6, <2>7, <2>8 DEF Server
<1>3. CASE (\E p \in Ports : OtherListens(p)) \/ AgeLock \/ AgeTakeover \/ UNCHANGED vars
  BY <1>3 DEF TokenInv, OtherListens, AgeLock, AgeTakeover, vars, files, moves, host
<1> QED BY <1>1, <1>2, <1>3 DEF Next, Procs

-----------------------------------------------------------------------------
(* The theorems.                                                           *)

LEMMA Inductive == Spec => []IInv
<1>1. Init => IInv
  BY InitIInv
<1>2. IInv /\ [Next]_vars => IInv'
  BY TypeStep, HostStep, StartStep DEF IInv, HostInv
<1> QED BY <1>1, <1>2, PTL DEF Spec

\* Every variable keeps its type, with any number of starters, servers and
\* ports and every fault.
THEOREM TypeCorrect == Spec => []TypeOK
<1>1. IInv => TypeOK
  BY DEF IInv, HostInv
<1> QED BY <1>1, Inductive, PTL

\* run in bridge_host/serve.rs: a bridge that serves holds the owner lock and
\* listens on the port that the port file names, however many are started and
\* whatever crashes or takes ports, so whoever reads the file finds it.
THEOREM Found == Spec => []ServedWhereRemembered
<1>1. IInv => ServedWhereRemembered
  BY DEF IInv, HostInv, OwnerInv, ListenInv, ServedWhereRemembered, Owning, Listening, Up
<1> QED BY <1>1, Inductive, PTL

\* take_lock and take_over: short of a kill, whoever goes on to spawn a bridge,
\* or is about to release the starting lock, has that lock in its own name.
THEOREM StarterHolds == Spec => []StarterHoldsLock
<1>1. IInv => StarterHoldsLock
  BY DEF IInv, HostInv, StartInv, Calm, LockInv, StarterHoldsLock, Starting, Holding
<1> QED BY <1>1, Inductive, PTL

\* "Two sessions asking at once must not both start a bridge" (ensure): they do
\* not, through however many stale locks and takeovers, short of a kill.
THEOREM OneAtATime == Spec => []((\A q \in Procs : pc[q] # "killed") => OneStarter)
<1>1. IInv => ((\A q \in Procs : pc[q] # "killed") => OneStarter)
  BY DEF IInv, HostInv, StartInv, Calm, LockInv, OneStarter, Starting, Holding
<1> QED BY <1>1, Inductive, PTL

\* move_settings_origin, called by bind: whatever crashes, stops, takes ports or
\* cannot be written, each of alc's settings files names the port of the bridge
\* that serves, unless a move reported it or broke off before it came to it.
THEOREM SettingsAreMoved == Spec => []SettingsFollow
<1>1. Init => SettingsInv
  BY DEF Init, SettingsInv
<1>2. SettingsInv /\ HostInv => SettingsFollow
  <2> SUFFICES ASSUME SettingsInv, HostInv, NEW v \in Servers, pc[v] = "serve",
                      NEW d \in Documents \ unmoved
               PROVE  settings[d] \in {None, port}
    BY DEF SettingsFollow
  <2>1. \A u \in Servers : pc[u] \notin Moving
    BY DEF HostInv, OwnerInv, Owning, Up, Moving
  <2>2. \A u \in Servers : Unsettled(u) = {}
    BY <2>1 DEF Unsettled, Moving
  <2> QED BY <2>2 DEF SettingsInv
<1>3. IInv => HostInv
  BY DEF IInv
<1> QED BY <1>1, <1>2, <1>3, Inductive, SettingsStep, PTL DEF Spec

\* rotate_token and load_or_create_token: the token on disk is the one the
\* serving bridge accepts, so that a session it refuses heals by asking for the
\* token again.  An empty token file that two processes find, or a bridge that
\* moved and then handed the runtime to a server that had loaded the earlier
\* token, can break this: the theorem is for every setting without the two.
THEOREM TokenIsHeld ==
  ASSUME "blank" \notin Faults,
         Legacy /\ "other" \in Faults => {"stop", "crash"} \cap Faults = {}
  PROVE  Spec => []TokenHeals
<1>1. Settled
  BY DEF Settled, Moves
<1>2. Init => BoundInv /\ TokenInv
  BY <1>1, Names DEF Init, BoundInv, TokenInv, Settled, Procs, Owning, Up, Moving, Tokens
<1>3. HostInv /\ TokenInv => TokenHeals
  BY DEF HostInv, OwnerInv, TokenInv, TokenHeals, Owning, Up
<1>4. IInv => HostInv
  BY DEF IInv
<1>5. HostInv /\ BoundInv /\ TokenInv /\ [Next]_vars => (BoundInv /\ TokenInv)'
  BY <1>1, BoundStep, TokenStep
<1> QED BY <1>2, <1>3, <1>4, <1>5, Inductive, PTL DEF Spec
=============================================================================
