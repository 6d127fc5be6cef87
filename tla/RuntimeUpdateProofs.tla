------------------------- MODULE RuntimeUpdateProofs -------------------------
(***************************************************************************)
(* The install directory, for every set of builds and however often a      *)
(* transaction is killed: what is left on disk is accepted by the next     *)
(* transaction, and whatever was replaced is kept.                         *)
(***************************************************************************)
EXTENDS RuntimeUpdate, TLAPS

\* A recorded activation comes with a recorded front that dispatches.
Settled ==
  /\ active # None => stable # None
  /\ stable # None => stable \in Dispatching

\* From the first marker on, the front is one of the generations.
Kept == active # None \/ marker # None => front \in gens \cup {None}

\* What a transaction has established by the time it is at a step.
Progress ==
  tx # None =>
    /\ tx.step \in {"retain", "publish", "mark", "front", "record", "activate"}
         => tx.job.kind = "install"
    /\ tx.step = "finish" =>
         tx.job.kind # "rollback" /\ marker # None /\ stable # None
    /\ tx.step = "retain" => front # None /\ tx.existing = front
    /\ tx.step \in {"publish", "mark"} =>
         front \in gens \cup {None} /\ tx.existing \in gens \cup {None}
    /\ tx.step = "mark" => tx.job.build \in gens
    /\ tx.step \in {"front", "record", "activate"} =>
         tx.plan \in Manifests /\ marker = tx.plan /\ tx.job.build \in gens
    /\ tx.step = "front" => stable = None
    /\ tx.step = "record" => stable = None /\ front \in Dispatching
    /\ tx.step = "activate" => stable # None
    /\ tx.step = "switch" =>
         tx.job.kind = "rollback" /\ marker = None /\ active # None /\ Target \in gens

IInv == TypeOK /\ Settled /\ Kept /\ Progress /\ NeverWedged /\ WayBack

USE BuildsAssumption, NoneAssumption, BoundAssumption

LEMMA InitIInv == Init => IInv
<1> SUFFICES ASSUME Init PROVE IInv
  OBVIOUS
<1> QED
  BY DEF Init, IInv, TypeOK, Settled, Kept, Progress, NeverWedged, WayBack,
         ActiveSound, MarkerSound, FrontSound, Extends, Maybe, Manifests

\* Which job has a build.
LEMMA JobFacts ==
  ASSUME NEW job \in Job
  PROVE  /\ job.kind = "install" => job.build \in Payloads /\ job.running \in Maybe(Dispatching)
         /\ job.kind = "rollback" => job.build \in Maybe(Builds)
  BY DEF Job

\* Type correctness is preserved by every step.
LEMMA TypeStep == IInv /\ [Next]_vars => TypeOK'
<1> SUFFICES ASSUME IInv, [Next]_vars PROVE TypeOK'
  OBVIOUS
<1> USE DEF IInv
<1>j. tx # None => tx \in Transactions /\ tx.job \in Job /\ tx.step \in Steps
  BY DEF TypeOK, Maybe, Transactions
<1> USE <1>j, JobFacts
<1>1. CASE Read
  BY <1>1 DEF Read, At, Goto, Done, TypeOK, Steps, Transactions, Maybe, disk
<1>2. CASE Finish
  BY <1>2 DEF Finish, At, Goto, TypeOK, Steps, Transactions, Maybe
<1>3. CASE Cancel
  BY <1>3 DEF Cancel, At, Goto, Done, TypeOK, Steps, Transactions, Maybe
<1>4. CASE Recovered \/ BackRefused \/ FrontBusy
  BY <1>4 DEF Recovered, BackRefused, FrontBusy, Done, TypeOK, Maybe, disk
<1>5. CASE Compare
  <2>1. Existing \in Maybe(Builds)
    BY DEF Existing, TypeOK, Maybe, Manifests
  <2> QED BY <1>5, <2>1 DEF Compare, At, Done, TypeOK, Steps, Transactions, Maybe
<1>6. CASE Retain
  BY <1>6 DEF Retain, Published, At, Goto, Done, TypeOK, Steps, Transactions, Maybe, Progress
<1>7. CASE Publish
  BY <1>7 DEF Publish, Published, At, Goto, Done, TypeOK, Steps, Transactions, Maybe, Progress
<1>8. CASE Mark
  <2>1. Plan \in Manifests
    BY <1>8 DEF Mark, At, Plan, Progress, TypeOK, Manifests, Maybe, Transactions
  <2> QED BY <1>8, <2>1 DEF Mark, At, TypeOK, Steps, Transactions, Maybe
<1>9. CASE KeepFront
  BY <1>9 DEF KeepFront, At, Goto, TypeOK, Steps, Transactions, Maybe, disk
<1>10. CASE ReplaceFront
  BY <1>10 DEF ReplaceFront, At, Goto, TypeOK, Steps, Transactions, Maybe, Progress
<1>11. CASE RecordFront
  BY <1>11 DEF RecordFront, At, Goto, TypeOK, Steps, Transactions, Maybe, Progress
<1>12. CASE Activate
  BY <1>12 DEF Activate, At, Goto, TypeOK, Steps, Transactions, Maybe
<1>13. CASE RollBack
  BY <1>13 DEF RollBack, At, Goto, Done, TypeOK, Steps, Transactions, Maybe
<1>14. CASE Switch
  BY <1>14 DEF Switch, At, Done, TypeOK, Progress, Maybe, Manifests
<1>15. CASE StartInstall \/ StartRollback \/ StartRecover
  <2>1. ASSUME NEW job \in Job, Start(job) PROVE TypeOK'
    BY <2>1 DEF Start, TypeOK, Steps, Transactions, Maybe, disk
  <2>2. ASSUME StartInstall PROVE TypeOK'
    <3>1. PICK b \in Payloads, f \in BOOLEAN, r \in Maybe(fronts) :
            Start([kind |-> "install", build |-> b, force |-> f, running |-> r])
      BY <2>2 DEF StartInstall
    <3>2. r \in Maybe(Dispatching)
      BY DEF TypeOK, Maybe
    <3> QED BY <2>1, <3>1, <3>2 DEF Job
  <2>3. ASSUME StartRollback PROVE TypeOK'
    BY <2>1, <2>3 DEF StartRollback, Job
  <2>4. ASSUME StartRecover PROVE TypeOK'
    BY <2>1, <2>4 DEF StartRecover, Job
  <2> QED BY <1>15, <2>2, <2>3, <2>4
<1>16. CASE Crash
  BY <1>16 DEF Crash, Done, TypeOK, Maybe, disk
<1>17. CASE UNCHANGED vars
  BY <1>17 DEF vars, TypeOK
<1> QED
  BY <1>1, <1>2, <1>3, <1>4, <1>5, <1>6, <1>7, <1>8, <1>9, <1>10, <1>11, <1>12,
     <1>13, <1>14, <1>15, <1>16, <1>17 DEF Next, Step

\* What the transaction carries, and the files it leaves at every step.
LEMMA FileStep ==
  IInv /\ [Next]_vars => Settled' /\ Kept' /\ Progress' /\ NeverWedged' /\ WayBack'
<1> SUFFICES ASSUME IInv, [Next]_vars
             PROVE Settled' /\ Kept' /\ Progress' /\ NeverWedged' /\ WayBack'
  OBVIOUS
<1> DEFINE Goal == Settled' /\ Kept' /\ Progress' /\ NeverWedged' /\ WayBack'
<1> USE DEF IInv
<1>j. tx # None => tx \in Transactions /\ tx.job \in Job /\ tx.step \in Steps
  BY DEF TypeOK, Maybe, Transactions
<1>n. None \notin Builds
  BY NoneAssumption
<1> USE <1>j, <1>n, JobFacts
        DEF Settled, Kept, NeverWedged, WayBack, ActiveSound, MarkerSound, FrontSound, Extends
<1>1. CASE Read
  BY <1>1 DEF Read, At, Goto, Done, Transactions, disk, Progress
<1>2. CASE Finish
  BY <1>2 DEF Finish, At, Goto, Transactions, Progress
<1>3. CASE Cancel
  BY <1>3 DEF Cancel, At, Goto, Done, Transactions, Progress
<1>4. CASE Recovered \/ BackRefused \/ FrontBusy \/ Crash
  BY <1>4 DEF Recovered, BackRefused, FrontBusy, Crash, Done, disk, Progress
<1>5. CASE Compare
  <2>1. Existing \in gens \cup {None, front}
    BY DEF Existing, TypeOK, Maybe
  <2>2. front \in gens \cup {None} \/ (active = None /\ marker = None /\ Existing = front)
    <3>1. CASE active # None \/ marker # None
      BY <3>1 DEF Kept
    <3>2. CASE active = None /\ marker = None
      BY <3>2 DEF Existing
    <3> QED BY <3>1, <3>2
  <2>3. ASSUME active # None \/ marker # None PROVE Existing \in gens \cup {None}
    BY <2>3 DEF Existing, TypeOK, Maybe
  <2>4. UNCHANGED <<front, gens, active, stable>> /\ marker' \in {marker, None}
    BY <1>5 DEF Compare
  <2>5. Settled' /\ Kept' /\ NeverWedged' /\ WayBack'
    BY <2>4
  <2>6. \/ tx' = None
        \/ /\ tx # None /\ tx.job.kind = "install" /\ UNCHANGED marker
           /\ tx' = [tx EXCEPT !.existing = Existing, !.step =
                        IF active = None /\ marker = None /\ Existing # None
                          THEN "retain" ELSE "publish"]
    BY <1>5 DEF Compare, At, Done
  <2>7. Progress'
    <3>1. CASE tx' = None
      BY <3>1 DEF Progress
    <3>2. CASE tx' # None
      <4>1. /\ tx'.job = tx.job /\ tx'.existing = Existing /\ tx.job.kind = "install"
            /\ tx'.step \in {"retain", "publish"}
            /\ tx'.step = "retain" => active = None /\ marker = None /\ Existing # None
            /\ tx'.step = "publish" => active # None \/ marker # None \/ Existing = None
        BY <2>6, <3>2 DEF Transactions
      <4>2. tx'.step = "retain" => front # None /\ tx'.existing = front
        BY <4>1 DEF Existing
      <4>3. tx'.step = "publish" =>
              front \in gens \cup {None} /\ Existing \in gens \cup {None}
        BY <4>1, <2>2, <2>3
      <4> QED BY <4>1, <4>2, <4>3, <2>4 DEF Progress
    <3> QED BY <3>1, <3>2
  <2> QED BY <2>5, <2>7
<1>6. CASE Retain
  BY <1>6 DEF Retain, Published, At, Goto, Done, Transactions, Progress
<1>7. CASE Publish
  BY <1>7 DEF Publish, Published, At, Goto, Done, Transactions, Progress
<1>8. CASE Mark
  <2>1. /\ Plan \in Manifests /\ Plan.current = tx.job.build /\ Plan.current \in gens
        /\ Plan.previous \in gens \cup {None}
        /\ active # None => Plan.current = active.current \/ Plan.previous = active.current
    BY <1>8 DEF Mark, At, Plan, Progress, TypeOK, Manifests, Maybe, Transactions
  <2> QED BY <1>8, <2>1 DEF Mark, At, Transactions, Progress
<1>9. CASE KeepFront
  BY <1>9 DEF KeepFront, At, Goto, Transactions, disk, Progress, Maybe
<1>10. CASE ReplaceFront
  BY <1>10 DEF ReplaceFront, At, Goto, Transactions, Progress
<1>11. CASE RecordFront
  BY <1>11 DEF RecordFront, At, Goto, Transactions, Progress
<1>12. CASE Activate
  BY <1>12 DEF Activate, At, Goto, Transactions, Progress
<1>13. CASE RollBack
  BY <1>13 DEF RollBack, CanRollBack, At, Goto, Done, Transactions, Progress, Target
<1>14. CASE Switch
  BY <1>14 DEF Switch, At, Done, Progress, TypeOK, Maybe, Manifests
<1>15. CASE StartInstall \/ StartRollback \/ StartRecover
  <2>1. ASSUME NEW job, Start(job) PROVE Goal
    BY <2>1 DEF Start, disk, Progress
  <2> QED BY <1>15, <2>1 DEF StartInstall, StartRollback, StartRecover
<1>17. CASE UNCHANGED vars
  BY <1>17 DEF vars, Progress, Target
<1> QED
  BY <1>1, <1>2, <1>3, <1>4, <1>5, <1>6, <1>7, <1>8, <1>9, <1>10, <1>11, <1>12,
     <1>13, <1>14, <1>15, <1>17 DEF Next, Step

THEOREM Invariant == Spec => []IInv
<1>1. IInv /\ [Next]_vars => IInv'
  BY TypeStep, FileStep DEF IInv
<1> QED BY InitIInv, <1>1, PTL DEF Spec

\* Every state of every transaction has the declared shape.
THEOREM TypeCorrect == Spec => []TypeOK
<1>1. IInv => TypeOK
  BY DEF IInv
<1> QED BY Invariant, <1>1, PTL

\* Killed anywhere, a transaction leaves files the next one accepts.
THEOREM Repairable == Spec => []NeverWedged
<1>1. IInv => NeverWedged
  BY DEF IInv
<1> QED BY Invariant, <1>1, PTL

\* What `--rollback previous` names is on disk.
THEOREM PreviousThere == Spec => []WayBack
<1>1. IInv => WayBack
  BY DEF IInv
<1> QED BY Invariant, <1>1, PTL

\* What a new invocation ran before an exchange is retained.
LEMMA KeptStep ==
  IInv /\ [Next]_vars => (Effective' # Effective => Effective \in gens \cup {None})
<1> SUFFICES ASSUME IInv, [Next]_vars, Effective' # Effective
             PROVE Effective \in gens \cup {None}
  OBVIOUS
<1>1. CASE active # None \/ marker # None
  BY <1>1 DEF IInv, Kept, NeverWedged, ActiveSound, Effective
<1>2. CASE active = None /\ marker = None
  <2>1. tx # None => tx.step \notin {"finish", "front", "activate", "switch"}
    BY <1>2, NoneAssumption DEF IInv, Progress, TypeOK, Transactions, Maybe, Manifests
  <2>2. UNCHANGED <<front, active>>
    BY <2>1 DEF Next, Step, Read, Finish, Cancel, Recovered, Compare, Retain, Publish, Mark,
         KeepFront, ReplaceFront, RecordFront, Activate, BackRefused, RollBack, Switch,
         FrontBusy, StartInstall, StartRollback, StartRecover, Start, Crash, At, disk, vars
  <2> QED BY <2>2 DEF Effective
<1> QED BY <1>1, <1>2

THEOREM ReplacedStays == Spec => ReplacedKept
<1>1. IInv /\ [Next]_vars =>
        [Effective' # Effective => Effective \in gens \cup {None}]_vars
  BY KeptStep
<1> QED BY Invariant, <1>1, PTL DEF Spec, ReplacedKept

-----------------------------------------------------------------------------
(* The refinement.                                                         *)

\* Once an activation is finished, whatever is pending or under way is no older
\* than what runs.
Newer ==
  active # None =>
  /\ stable # None /\ front # None
  /\ marker # None => Version[marker.current] >= Version[active.current]
  /\ tx # None => /\ tx.step \notin {"retain", "front", "record"}
                  /\ tx.step \in {"publish", "mark"}
                       => Version[tx.job.build] >= Version[active.current]

LEMMA NewerInit == Init => Newer
  BY DEF Init, Newer

\* The step that finishes the first activation.
LEMMA FirstActivation ==
  ASSUME IInv, active = None, [Next]_vars, active' # None
  PROVE  /\ Finish \/ Activate
         /\ marker \in Manifests /\ active' = marker /\ UNCHANGED <<front, gens, marker, stable>>
         /\ tx # None /\ tx.job.kind # "rollback" /\ tx' = [tx EXCEPT !.step = "cancel"]
         /\ tx \in Transactions
<1>j. tx # None => tx \in Transactions
  BY DEF IInv, TypeOK, Maybe
<1>n. None \notin Manifests
  BY NoneAssumption
<1>1. Finish \/ Activate
  BY <1>j DEF Next, Step, Read, Cancel, Recovered, Compare, Retain, Publish, Mark,
     KeepFront, ReplaceFront, RecordFront, BackRefused, RollBack, Switch, FrontBusy,
     StartInstall, StartRollback, StartRecover, Start, Crash, At, disk, vars, IInv, Progress
<1>2. CASE Finish
  BY <1>1, <1>2, <1>j DEF Finish, At, Goto, IInv, Progress, TypeOK, Maybe
<1>3. CASE Activate
  BY <1>1, <1>3, <1>j, <1>n DEF Activate, At, Goto, IInv, Progress
<1> QED BY <1>1, <1>2, <1>3

LEMMA NewerFirst ==
  ASSUME IInv, active = None, [Next]_vars PROVE Newer'
<1>1. CASE active' = None
  BY <1>1 DEF Newer
<1>2. CASE active' # None
  <2>1. /\ marker \in Manifests /\ active' = marker /\ marker' = marker
        /\ tx' # None => tx'.step = "cancel"
    BY <1>2, FirstActivation DEF Transactions
  <2>2. marker.current \in Builds /\ Version[marker.current] \in Nat
    <3>1. marker.current \in Builds
      BY <2>1 DEF Manifests
    <3> QED BY <3>1, VersionAssumption
  <2>3. stable' # None /\ front' # None
    BY <1>2, <2>1, TypeStep, FileStep, NoneAssumption
    DEF Settled, NeverWedged, FrontSound, IInv, TypeOK, Maybe
  <2>4. Version[marker'.current] >= Version[active'.current]
    BY <2>1, <2>2
  <2> QED BY <2>1, <2>3, <2>4 DEF Newer
<1> QED BY <1>1, <1>2

LEMMA NewerStep == IInv /\ Newer /\ [Next]_vars => Newer'
<1> SUFFICES ASSUME IInv, Newer, [Next]_vars, active # None PROVE Newer'
  BY NewerFirst
<1>j. tx # None => tx \in Transactions /\ tx.job \in Job /\ tx.step \in Steps
  BY DEF IInv, TypeOK, Maybe, Transactions
<1>n. None \notin Builds /\ None \notin Manifests
  BY NoneAssumption
<1>a. active \in Manifests /\ active.current \in Builds /\ Version[active.current] \in Nat
  BY VersionAssumption DEF IInv, Newer, TypeOK, Maybe, Manifests
<1>b. FrontSound /\ front = stable
  BY DEF IInv, Newer, NeverWedged, FrontSound
<1> USE <1>j, <1>n, <1>a, JobFacts
<1>1. CASE Read \/ Recovered \/ BackRefused \/ FrontBusy \/ Crash \/ Retain
  BY <1>1 DEF Read, Recovered, BackRefused, FrontBusy, Crash, Retain, At, Goto, Done,
              Transactions, disk, Newer
<1>2. CASE Finish
  BY <1>2, VersionAssumption DEF Finish, At, Goto, Transactions, Newer, IInv, TypeOK, Maybe,
     Manifests, Progress
<1>3. CASE Cancel
  BY <1>3 DEF Cancel, At, Goto, Done, Transactions, Newer
<1>4. CASE Compare
  <2>1. Existing = active.current
    BY DEF Newer, Existing
  <2>2. \/ tx' = None /\ marker' = None
        \/ /\ UNCHANGED marker /\ Version[tx.job.build] >= Version[active.current]
           /\ tx.job = tx'.job /\ tx'.step = "publish"
    <3>1. tx.job.build \in Builds /\ Version[tx.job.build] \in Nat
      BY <1>4, VersionAssumption, BuildsAssumption DEF Compare, At
    <3>2. tx # None /\ tx.job.kind = "install" /\ active # None
      BY <1>4 DEF Compare, At, Newer
    <3>3. CASE Version[tx.job.build] < Version[active.current]
      BY <1>4, <2>1, <3>2, <3>3 DEF Compare, Done
    <3>4. CASE Version[tx.job.build] >= Version[active.current]
      <4>1. \/ tx' = None /\ marker' = None
            \/ /\ UNCHANGED marker
               /\ tx' = [tx EXCEPT !.existing = Existing, !.step = "publish"]
        BY <1>4, <2>1, <3>2 DEF Compare, Done
      <4> QED BY <3>2, <3>4, <4>1 DEF Transactions
    <3> QED BY <3>1, <3>3, <3>4
  <2>3. UNCHANGED <<active, stable, front>>
    BY <1>4 DEF Compare
  <2> QED BY <2>2, <2>3 DEF Newer
<1>5. CASE Publish
  BY <1>5 DEF Publish, Published, At, Goto, Done, Transactions, Newer
<1>6. CASE Mark
  <2>1. Plan.current = tx.job.build /\ stable # None
    BY DEF Plan, Newer
  <2> QED BY <1>6, <2>1 DEF Mark, At, Transactions, Newer
<1>7. CASE KeepFront \/ ReplaceFront \/ RecordFront
  BY <1>7 DEF KeepFront, ReplaceFront, RecordFront, At, Newer
<1>8. CASE Activate
  BY <1>8, VersionAssumption DEF Activate, At, Goto, Transactions, Newer, IInv, Progress, Manifests
<1>9. CASE RollBack
  BY <1>9 DEF RollBack, At, Goto, Done, Transactions, Newer
<1>10. CASE Switch
  <2>1. marker = None /\ Target \in Builds
    BY <1>10 DEF Switch, At, IInv, Progress, TypeOK
  <2>2. active' \in Manifests
    BY <1>10, <2>1 DEF Switch, Manifests, Maybe
  <2> QED BY <1>10, <2>1, <2>2 DEF Switch, At, Done, Newer
<1>11. CASE StartInstall \/ StartRollback \/ StartRecover
  <2>1. ASSUME NEW job, Start(job) PROVE Newer'
    BY <2>1 DEF Start, disk, Newer
  <2> QED BY <1>11, <2>1 DEF StartInstall, StartRollback, StartRecover
<1>12. CASE UNCHANGED vars
  BY <1>12 DEF vars, Newer
<1> QED
  BY <1>1, <1>2, <1>3, <1>4, <1>5, <1>6, <1>7, <1>8, <1>9, <1>10, <1>11, <1>12
  DEF Next, Step

\* Whether a rollback is under way.
Asked == tx # None /\ tx.job.kind = "rollback"

LEMMA AbstractInit == Init => Inst!Init
  BY NoneAssumption, BuildsAssumption
  DEF Init, Inst!Init, Effective, Maybe, Manifests

\* Before the first activation is finished: what runs may be exchanged for any
\* build that is retained.
LEMMA AbstractFirst ==
  ASSUME IInv, active = None, [Next]_vars PROVE [Inst!Next]_(Inst!vars)
<1>j. tx # None => tx \in Transactions /\ tx.job \in Job /\ tx.step \in Steps
  BY DEF IInv, TypeOK, Maybe, Transactions
<1>n. None \notin Builds /\ None \notin Manifests
  BY NoneAssumption
<1>e. Effective = front /\ front \in Maybe(Builds) /\ gens \subseteq Builds
  BY DEF Effective, IInv, TypeOK
<1>1. CASE active' # None
  <2>1. /\ marker \in Manifests /\ active' = marker /\ UNCHANGED <<front, gens, stable>>
        /\ ~Asked /\ ~Asked'
    BY <1>1, FirstActivation DEF Asked, Transactions
  <2>2. marker.current \in gens /\ front \in gens \cup {None}
    BY <2>1, <1>n DEF IInv, NeverWedged, MarkerSound, Kept
  <2>3. Effective' \in gens
    <3>1. stable' # None /\ front' = stable'
      BY <1>1, TypeStep, FileStep DEF IInv, Settled, NeverWedged, FrontSound
    <3>2. front' \in Dispatching
      BY <3>1, FileStep DEF Settled
    <3> QED BY <1>1, <2>1, <2>2, <3>2 DEF Effective
  <2> QED BY <1>e, <1>1, <2>1, <2>2, <2>3 DEF Inst!Next, Inst!Install, Inst!Exchange, Asked
<1>2. CASE active' = None
  <2>e. Effective' = front'
    BY <1>2 DEF Effective
  <2>u. ASSUME UNCHANGED <<front, gens>>, Asked' = Asked \/ tx = None \/ tx' = None
        PROVE  [Inst!Next]_(Inst!vars)
    <3>1. Asked' = Asked \/ Asked' = ~Asked
      BY DEF Asked
    <3>2. UNCHANGED <<Effective, gens>> /\ (active' # None) = (active # None)
      BY <1>e, <2>e, <2>u, <1>2
    <3>3. CASE Asked' = Asked
      BY <3>2, <3>3 DEF Inst!vars, Asked
    <3>4. CASE Asked' = ~Asked
      BY <3>2, <3>4 DEF Inst!Next, Inst!Ask, Asked
    <3> QED BY <3>1, <3>3, <3>4
  <2>p. ASSUME ~Asked, ~Asked', UNCHANGED front, gens \subseteq gens', gens' \subseteq Builds
        PROVE  [Inst!Next]_(Inst!vars)
    BY <1>e, <2>e, <2>p, <1>2 DEF Inst!Next, Inst!Publish, Asked
  <2>1. CASE Read \/ Finish \/ Recovered \/ BackRefused \/ FrontBusy \/ Crash \/ Cancel
             \/ Compare \/ Mark \/ RollBack \/ KeepFront \/ RecordFront \/ Activate \/ Switch
    BY <2>1, <1>j, <2>u DEF Read, Finish, Recovered, BackRefused, FrontBusy, Crash, Cancel,
       Compare, Mark, RollBack, KeepFront, RecordFront, Activate, Switch, At, Goto, Done,
       Transactions, disk, Asked
  <2>2. CASE StartInstall \/ StartRollback \/ StartRecover
    <3>1. ASSUME NEW job, Start(job) PROVE [Inst!Next]_(Inst!vars)
      BY <3>1, <2>u DEF Start, disk
    <3> QED BY <2>2, <3>1 DEF StartInstall, StartRollback, StartRecover
  <2>3. CASE Retain \/ Publish
    <3>1. ~Asked /\ ~Asked'
      BY <2>3, <1>j DEF Retain, Publish, Published, At, Goto, Done, Transactions, Asked,
         IInv, Progress
    <3>2. UNCHANGED front /\ gens \subseteq gens' /\ gens' \subseteq Builds
      BY <2>3, <1>e, <1>j, JobFacts, BuildsAssumption
      DEF Retain, Publish, Published, At, IInv, Progress, Maybe
    <3> QED BY <3>1, <3>2, <2>p
  <2>4. CASE ReplaceFront
    <3>1. ~Asked /\ ~Asked' /\ UNCHANGED gens
      BY <2>4, <1>j DEF ReplaceFront, At, Goto, Transactions, Asked, IInv, Progress
    <3>2. front' \in gens /\ front \in gens \cup {None}
      BY <2>4, <1>n DEF ReplaceFront, At, IInv, Progress, Kept
    <3> QED BY <1>e, <1>2, <2>e, <3>1, <3>2 DEF Inst!Next, Inst!Install, Inst!Exchange, Asked
  <2>5. CASE UNCHANGED vars
    BY <2>5, <2>u DEF vars, Asked
  <2> QED BY <2>1, <2>2, <2>3, <2>4, <2>5 DEF Next, Step
<1> QED BY <1>1, <1>2

\* Every step exchanges, publishes, begins or ends a rollback, or is unseen.
LEMMA AbstractStep == IInv /\ Newer /\ [Next]_vars => [Inst!Next]_(Inst!vars)
<1> SUFFICES ASSUME IInv, Newer, [Next]_vars, active # None PROVE [Inst!Next]_(Inst!vars)
  BY AbstractFirst
<1>j. tx # None => tx \in Transactions /\ tx.job \in Job /\ tx.step \in Steps
  BY DEF IInv, TypeOK, Maybe, Transactions
<1>n. None \notin Builds /\ None \notin Manifests
  BY NoneAssumption
<1>a. /\ active \in Manifests /\ active.current \in Builds /\ active.current \in gens
      /\ front \in Dispatching /\ Effective = active.current /\ gens \subseteq Builds
  BY DEF IInv, Newer, TypeOK, Maybe, Manifests, NeverWedged, ActiveSound, FrontSound,
         Settled, Effective
\* A step that a new invocation does not notice.
<1>u. ASSUME UNCHANGED <<front, gens, active>>, Asked' = Asked \/ tx = None \/ tx' = None
      PROVE  [Inst!Next]_(Inst!vars)
  <2>1. UNCHANGED <<Effective, gens>> /\ (active' # None) = (active # None)
    BY <1>u DEF Effective
  <2>2. CASE Asked' = Asked
    BY <2>1, <2>2 DEF Inst!vars, Asked
  <2>3. CASE Asked' = ~Asked
    BY <2>1, <2>3 DEF Inst!Next, Inst!Ask, Asked
  <2> QED BY <2>2, <2>3 DEF Asked
\* The running build is exchanged for one that is retained and no older.
<1>i. ASSUME UNCHANGED <<front, gens>>, ~Asked, ~Asked', active' \in Manifests,
             active'.current \in gens,
             Version[active'.current] >= Version[active.current]
      PROVE  [Inst!Next]_(Inst!vars)
  <2>1. Effective' = active'.current
    BY <1>i, <1>a, <1>n DEF Effective
  <2> QED BY <1>i, <1>a, <2>1 DEF Inst!Next, Inst!Install, Inst!Exchange, Asked
<1>1. CASE Read \/ Recovered \/ BackRefused \/ FrontBusy \/ Crash \/ Cancel \/ Compare
           \/ Mark \/ RollBack
  BY <1>1, <1>j, <1>u DEF Read, Recovered, BackRefused, FrontBusy, Crash, Cancel, Compare,
     Mark, RollBack, At, Goto, Done, Transactions, disk, Asked
<1>2. CASE StartInstall \/ StartRollback \/ StartRecover
  <2>1. ASSUME NEW job, Start(job) PROVE [Inst!Next]_(Inst!vars)
    BY <2>1, <1>u DEF Start, disk
  <2> QED BY <1>2, <2>1 DEF StartInstall, StartRollback, StartRecover
<1>3. CASE Retain \/ KeepFront \/ ReplaceFront \/ RecordFront
  BY <1>3 DEF Retain, KeepFront, ReplaceFront, RecordFront, At, Newer
<1>4. CASE Finish
  <2>1. marker \in Manifests /\ marker.current \in gens
        /\ Version[marker.current] >= Version[active.current]
    BY <1>4 DEF Finish, At, IInv, Progress, TypeOK, Maybe, NeverWedged, MarkerSound, Newer
  <2>2. ~Asked /\ ~Asked'
    BY <1>4, <1>j DEF Finish, At, Goto, Transactions, Asked, IInv, Progress
  <2> QED BY <1>4, <1>i, <2>1, <2>2 DEF Finish
<1>5. CASE Activate
  <2>1. tx.plan = marker /\ marker \in Manifests /\ marker.current \in gens
        /\ Version[marker.current] >= Version[active.current]
    BY <1>5, <1>n DEF Activate, At, IInv, Progress, NeverWedged, MarkerSound, Newer
  <2>2. ~Asked /\ ~Asked'
    BY <1>5, <1>j DEF Activate, At, Goto, Transactions, Asked, IInv, Progress
  <2> QED BY <1>5, <1>i, <2>1, <2>2 DEF Activate
<1>6. CASE Publish
  <2>1. ~Asked /\ ~Asked'
    BY <1>6, <1>j DEF Publish, Published, At, Goto, Done, Transactions, Asked, IInv, Progress
  <2>2. UNCHANGED Effective
    BY <1>6 DEF Publish, Effective
  <2>3. gens \subseteq gens' /\ gens' \subseteq Builds
    BY <1>6, <1>a, <1>j, JobFacts, BuildsAssumption
    DEF Publish, Published, At, IInv, Progress
  <2>4. (active' # None) = (active # None)
    BY <1>6 DEF Publish
  <2> QED BY <2>1, <2>2, <2>3, <2>4 DEF Inst!Next, Inst!Publish, Asked
<1>7. CASE Switch
  <2>1. Asked /\ ~Asked' /\ UNCHANGED <<front, gens>> /\ active'.current \in gens
    BY <1>7 DEF Switch, At, Done, Asked, IInv, Progress
  <2>2. active' # None
    BY <1>7, <1>n, <1>a, <2>1 DEF Switch, Manifests, Maybe
  <2>3. Effective' = active'.current
    BY <1>a, <2>1, <2>2 DEF Effective
  <2> QED BY <1>a, <2>1, <2>2, <2>3 DEF Inst!Next, Inst!Rollback, Inst!Exchange, Asked
<1>8. CASE UNCHANGED vars
  BY <1>8, <1>u DEF vars, Asked
<1> QED
  BY <1>1, <1>2, <1>3, <1>4, <1>5, <1>6, <1>7, <1>8 DEF Next, Step

\* The install directory implements Installation, from a bare directory or an old
\* release on, however it is installed to, updated, rolled back and killed.
THEOREM InstallationImplemented == Spec => Implements
<1>1. Init => IInv /\ Newer /\ Inst!Init
  BY InitIInv, NewerInit, AbstractInit
<1>2. IInv /\ Newer /\ [Next]_vars => (IInv /\ Newer)' /\ [Inst!Next]_(Inst!vars)
  BY TypeStep, FileStep, NewerStep, AbstractStep DEF IInv
<1> QED BY <1>1, <1>2, PTL DEF Spec, Implements, Inst!Spec
=============================================================================
