--------------------------- MODULE RuntimeUpdate ---------------------------
(***************************************************************************)
(* Installing, updating and rolling back alc (src/src/update.rs), over the *)
(* files of an install directory (src/src/runtime.rs): the front, the      *)
(* retained generations, active.json, activation.json (the marker) and     *)
(* front.json, each replaced by a rename.  All of it happens under         *)
(* publish.lock, so one transaction runs at a time; it may be killed       *)
(* between any two of its writes, and the next one finds what it left.     *)
(*                                                                         *)
(* A build is named by its digest.  A build outside Dispatching is an old  *)
(* release whose front does not read active.json.                          *)
(*                                                                         *)
(* ExistingMarked, ExistingFront, RetainNot, CanRollBackBlind and          *)
(* RollBackPending are mistakes the code does not make, each before what   *)
(* it would replace.                                                       *)
(***************************************************************************)
EXTENDS Naturals, FiniteSets

CONSTANTS
  Builds, Dispatching,
  Payloads,      \* the builds that are installed
  Rollbacks,     \* whether anybody rolls back
  Stuck,         \* whether the front may refuse to be replaced (Windows)
  MaxCrashes,
  Version, ShortId,
  None

Maybe(S) == S \cup {None}
Manifests == [current : Builds, previous : Maybe(Builds)]

ASSUME BuildsAssumption == Payloads \subseteq Dispatching /\ Dispatching \subseteq Builds
ASSUME NoneAssumption == None \notin Builds \cup Manifests
ASSUME VersionAssumption == Version \in [Builds -> Nat]
ASSUME SwitchAssumption == {Rollbacks, Stuck} \subseteq BOOLEAN
ASSUME BoundAssumption == MaxCrashes \in Nat

VARIABLES
  front,    \* the executable at the install path
  gens,     \* .alc/generations
  active,   \* active.json
  marker,   \* activation.json
  stable,   \* front.json: the digest the front must have
  tx,       \* the transaction that holds publish.lock
  fronts,   \* fronts a process may still be running
  crashes

vars == <<front, gens, active, marker, stable, tx, fronts, crashes>>
disk == <<front, gens, active, marker, stable>>

Job == [kind : {"install"}, build : Payloads, force : BOOLEAN, running : Maybe(Dispatching)]
         \cup [kind : {"rollback"}, build : Maybe(Builds)]
         \cup [kind : {"recover"}]
Steps == {"read", "finish", "finished", "retain", "publish", "mark",
          "front", "record", "activate", "cancel", "switch"}
Transactions == [job : Job, step : Steps,
                 existing : Maybe(Builds), plan : Maybe(Manifests)]

TypeOK ==
  /\ front \in Maybe(Builds) /\ gens \subseteq Builds
  /\ active \in Maybe(Manifests) /\ marker \in Maybe(Manifests)
  /\ stable \in Maybe(Builds)
  /\ tx \in Maybe(Transactions)
  /\ fronts \subseteq Dispatching
  /\ crashes \in 0..MaxCrashes

\* What a new invocation runs: the front, or what it dispatches to.
Effective ==
  IF front \in Dispatching /\ active # None THEN active.current ELSE front

\* A bare directory, or an executable that an installer put there.
Init ==
  /\ front \in Maybe(Builds) /\ gens = {}
  /\ active = None /\ marker = None /\ stable = None
  /\ tx = None /\ fronts = {front} \cap Dispatching
  /\ crashes = 0

-----------------------------------------------------------------------------
(* Beginning and ending.                                                   *)

At(s) == tx # None /\ tx.step = s
Goto(s) == tx' = [tx EXCEPT !.step = s]
Stay == UNCHANGED <<fronts, crashes>>
Done == tx' = None

Start(job) ==
  /\ tx = None
  /\ tx' = [job |-> job, step |-> "read", existing |-> None, plan |-> None]
  /\ UNCHANGED <<disk, fronts, crashes>>

\* An update by the front itself, by a generation, or by an installer.
StartInstall ==
  \E b \in Payloads, f \in BOOLEAN, r \in Maybe(fronts) :
    Start([kind |-> "install", build |-> b, force |-> f, running |-> r])

\* `--rollback previous` is None, another selector names a build.
StartRollback ==
  Rollbacks /\ \E b \in Maybe(Builds) : Start([kind |-> "rollback", build |-> b])

\* An online update first finishes what an earlier one left.
StartRecover == Start([kind |-> "recover"])

\* The process is killed, and its lock is freed.
Crash ==
  /\ tx # None /\ crashes < MaxCrashes
  /\ Done /\ crashes' = crashes + 1
  /\ UNCHANGED <<disk, fronts>>

-----------------------------------------------------------------------------
(* Reading what is there, and finishing a pending activation.              *)

Extends(m) == active = None \/ m.current = active.current \/ m.previous = active.current
FrontSound == stable = None \/ stable = front

\* What read_active, read_activation_marker, read_front and the check of
\* finish_pending_activation ask for.
ActiveSound == active # None => active.current \in gens
MarkerSound == marker # None => marker.current \in gens /\ Extends(marker)

\* Anything unsound is refused, now and ever after.
Read ==
  /\ At("read") /\ tx.job.kind # "rollback"
  /\ IF ActiveSound /\ MarkerSound /\ FrontSound
       THEN Goto(IF marker # None /\ stable # None THEN "finish" ELSE "finished")
       ELSE Done
  /\ UNCHANGED <<disk, fronts, crashes>>

Finish ==
  /\ At("finish")
  /\ active' = marker
  /\ Goto("cancel")
  /\ UNCHANGED <<front, gens, marker, stable, fronts, crashes>>

\* cancel_pending_activation, at the end of every transaction that gets there
\* and after a pending one has been finished.
Cancel ==
  /\ At("cancel")
  /\ marker' = None
  /\ IF tx.job.kind = "install" /\ tx.plan = None THEN Goto("finished") ELSE Done
  /\ UNCHANGED <<front, gens, active, stable, fronts, crashes>>

Recovered ==
  /\ At("finished") /\ tx.job.kind = "recover"
  /\ Done
  /\ UNCHANGED <<disk, fronts, crashes>>

ExistingMarked ==
  IF active # None THEN active.current
  ELSE IF marker # None THEN marker.current ELSE front

ExistingFront == front

\* The build that counts as installed.
Existing ==
  IF active # None THEN active.current
  ELSE IF marker # None THEN marker.previous ELSE front

Compare ==
  /\ At("finished") /\ tx.job.kind = "install"
  /\ LET old == Existing
         new == tx.job.build
         stale == old # None /\ \/ Version[new] < Version[old]
                                \/ Version[new] = Version[old] /\ ~tx.job.force
     IN IF stale
          THEN /\ Done
               /\ marker' = IF active # None THEN None ELSE marker
          ELSE /\ tx' = [tx EXCEPT !.existing = old, !.step =
                           IF active = None /\ marker = None /\ old # None
                             THEN "retain" ELSE "publish"]
               /\ UNCHANGED marker
  /\ UNCHANGED <<front, gens, active, stable, fronts, crashes>>

-----------------------------------------------------------------------------
(* Publishing and activating.                                              *)

\* publish_generation: a new directory renamed into place, refused when
\* another digest has the same short id.
Published(b, next) ==
  IF \E g \in gens : g # b /\ ShortId[g] = ShortId[b]
    THEN Done /\ UNCHANGED gens
    ELSE gens' = gens \cup {b} /\ Goto(next)

RetainNot ==
  /\ At("retain")
  /\ Goto("publish")
  /\ UNCHANGED <<disk, fronts, crashes>>

\* The executable at the front is kept before anything replaces it.
Retain ==
  /\ At("retain")
  /\ Published(front, "publish")
  /\ UNCHANGED <<front, active, marker, stable, fronts, crashes>>

Publish ==
  /\ At("publish")
  /\ Published(tx.job.build, "mark")
  /\ UNCHANGED <<front, active, marker, stable, fronts, crashes>>

Plan ==
  LET new == tx.job.build
      old == IF active = None THEN tx.existing ELSE active.current
  IN [current |-> new,
      previous |-> IF old # new THEN old
                   ELSE IF active # None THEN active.previous ELSE None]

\* write_activation_marker: from here on the next transaction carries on.
Mark ==
  /\ At("mark")
  /\ marker' = Plan
  /\ tx' = [tx EXCEPT !.plan = Plan, !.step = IF stable = None THEN "front" ELSE "activate"]
  /\ UNCHANGED <<front, gens, active, stable, fronts, crashes>>

\* A front that is running this very code stays; another one is replaced by
\* the payload.
KeepFront ==
  /\ At("front") /\ front # None /\ tx.job.running = front
  /\ Goto("record")
  /\ UNCHANGED <<disk, fronts, crashes>>

ReplaceFront ==
  /\ At("front") /\ (front = None \/ tx.job.running # front)
  /\ front' = tx.job.build
  /\ fronts' = fronts \cup {front'}
  /\ Goto("record")
  /\ UNCHANGED <<gens, active, marker, stable, crashes>>

\* Windows does not let a loaded front go: the activation stays pending.
FrontBusy ==
  /\ At("front") /\ Stuck /\ front # None /\ tx.job.running # front
  /\ Done
  /\ UNCHANGED <<disk, fronts, crashes>>

RecordFront ==
  /\ At("record")
  /\ stable' = front
  /\ Goto("activate")
  /\ UNCHANGED <<front, gens, active, marker, fronts, crashes>>

Activate ==
  /\ At("activate")
  /\ active' = tx.plan
  /\ Goto("cancel")
  /\ UNCHANGED <<front, gens, marker, stable, fronts, crashes>>

-----------------------------------------------------------------------------
(* rollback_to.                                                            *)

Target == IF tx.job.build = None THEN active.previous ELSE tx.job.build
CanRollBackBlind == active # None /\ stable # None /\ ActiveSound /\ FrontSound

CanRollBack ==
  active # None /\ stable # None /\ ActiveSound /\ FrontSound /\ Target \in gens

BackRefused ==
  /\ At("read") /\ tx.job.kind = "rollback" /\ ~CanRollBack
  /\ Done
  /\ UNCHANGED <<disk, fronts, crashes>>

RollBackPending ==
  /\ At("read") /\ tx.job.kind = "rollback" /\ CanRollBack
  /\ IF Target = active.current THEN Done ELSE Goto("switch")
  /\ UNCHANGED <<disk, fronts, crashes>>

\* The pending activation is given up before active.json changes.
RollBack ==
  /\ At("read") /\ tx.job.kind = "rollback" /\ CanRollBack
  /\ marker' = None
  /\ IF Target = active.current THEN Done ELSE Goto("switch")
  /\ UNCHANGED <<front, gens, active, stable, fronts, crashes>>

Switch ==
  /\ At("switch")
  /\ active' = [current |-> Target, previous |-> active.current]
  /\ Done
  /\ UNCHANGED <<front, gens, marker, stable, fronts, crashes>>

Step ==
  \/ Read \/ Finish \/ Cancel \/ Recovered \/ Compare \/ Retain
  \/ Publish \/ Mark \/ KeepFront \/ ReplaceFront \/ RecordFront
  \/ Activate \/ BackRefused \/ RollBack \/ Switch

Next == Step \/ FrontBusy \/ StartInstall \/ StartRollback \/ StartRecover \/ Crash

Spec == Init /\ [][Next]_vars

\* A process that is not killed gets on, and somebody who keeps installing
\* gets the lock again and again.
FairSpec ==
  /\ Spec /\ WF_vars(Step)
  /\ \A b \in Payloads :
       SF_vars(Start([kind |-> "install", build |-> b, force |-> FALSE, running |-> None]))

-----------------------------------------------------------------------------
(* Properties.                                                             *)

\* Wherever a transaction is killed, the files it leaves are ones that the
\* next transaction accepts: update.rs refuses a marker that does not extend
\* active.json and a front that is not the recorded one, so a state outside
\* this would be beyond repair by update, rollback or installer alike.
NeverWedged == ActiveSound /\ MarkerSound /\ FrontSound

\* What `--rollback previous` would bring back is on disk, and what a pending
\* activation would put there as previous too.
WayBack ==
  \A m \in {active, marker} \ {None} : m.previous \in gens \cup {None}

\* A new invocation never finds another build without the one it replaces
\* being kept, whether the front or active.json was exchanged.
ReplacedKept == [][Effective' # Effective => Effective \in gens \cup {None}]_vars

\* A build older than the one that runs is no update: it takes a rollback
\* (update.rs, print_no_update; src/README.md, on updates).
\* Not kept before the first activation is finished (README).
NoDowngrade ==
  [][Effective' # Effective /\ Effective # None /\ ~At("switch")
       => Version[Effective'] >= Version[Effective]]_vars

\* A bare directory, an old release's executable and an installation that exists
\* all implement Installation: one exchange per step, forward unless a rollback
\* was asked for, and what is replaced kept, killed anywhere.
Inst == INSTANCE Installation WITH
  current <- Effective, retained <- gens, established <- active # None,
  asked <- tx # None /\ tx.job.kind = "rollback"
Implements == Inst!Spec

\* A front that is loaded (Windows) is so only for a time.
FrontComesFree == <>[][~FrontBusy]_vars

\* No update is lost for good, left pending by a killed process or by one that
\* found the front loaded: once nobody rolls back any more and somebody retries,
\* every build that is offered ends up running or superseded.
EveryUpdateLands ==
  FrontComesFree /\ <>[](tx = None \/ tx.job.kind # "rollback") =>
    \A b \in Payloads : <>[](Effective # None /\ Version[Effective] >= Version[b])
=============================================================================
