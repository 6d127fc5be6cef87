-------------------------- MODULE CodexAuthProofs --------------------------
(***************************************************************************)
(* The rotation of the Codex login, for every number of processes and      *)
(* turns and every combination of faults: the file lock serialises         *)
(* rotations, and the login on disk stays alive.                           *)
(***************************************************************************)
EXTENDS CodexAuth, TLAPS

\* What a turn carries at each step, and that a granted pair is still good.
Carried ==
  \A t \in Turns :
    /\ pc[t] \in {"exchange", "granted", "refused"} => cur[t] \in Cred
    /\ pc[t] \in {"post", "repost"} => cred[t] \in Cred
    /\ pc[t] = "granted" => grant[t] \in Cred /\ (grant[t].rt \in live \/ lost)

CliGrantLive == cli # None => cli.rt \in live \/ lost

IInv == TypeOK /\ LockInv /\ Carried /\ CliGrantLive /\ LoginLive

USE HomeAssumption, NoneAssumption

\* None is nobody's name: no turn and no credential.
LEMMA NoneApart == None \notin Turns /\ None \notin Cred
  BY DEF Cred

LEMMA InitIInv == Init => IInv
<1> SUFFICES ASSUME Init PROVE IInv
  OBVIOUS
<1>1. TypeOK
  <2>1. file \in Cred
    BY DEF Init, Cred
  <2>2. live \subseteq Nat /\ next \in Nat
    BY DEF Init
  <2> QED BY <2>1, <2>2 DEF Init, TypeOK, Steps
<1>2. LockInv
  BY DEF Init, LockInv, Locked, InMutex
<1>3. Carried /\ CliGrantLive /\ LoginLive
  BY DEF Init, Carried, CliGrantLive, LoginLive
<1> QED BY <1>1, <1>2, <1>3 DEF IInv

\* A stored, held or granted credential is a credential.
LEMMA CredTypes ==
  ASSUME TypeOK
  PROVE  /\ file # None => Stored(file) \in CachedCred
         /\ \A m \in Managers : HeldFresh(m) => Held(m) \in Cred
  BY DEF TypeOK, Stored, Known, HeldFresh, Held, Cred, CachedCred

\* Type correctness is preserved by every step.
LEMMA TypeStep == IInv /\ [Next]_vars => TypeOK'
<1> SUFFICES ASSUME IInv, [Next]_vars PROVE TypeOK'
  OBVIOUS
<1> USE NoneApart DEF IInv
<1>1. ASSUME NEW t \in Turns, Begin(t) PROVE TypeOK'
  BY <1>1 DEF TypeOK, Begin, Goto, Steps, issuer
<1>2. ASSUME NEW t \in Turns, TakeMutex(t) PROVE TypeOK'
  BY <1>2 DEF TypeOK, TakeMutex, Goto, Steps, issuer
<1>3. ASSUME NEW t \in Turns, ReadFirst(t) PROVE TypeOK'
  BY <1>3, CredTypes DEF TypeOK, ReadFirst, Sign, Fail, Unlock, Remember, Goto, Steps, issuer
<1>4. ASSUME NEW t \in Turns, LockFile(t) PROVE TypeOK'
  BY <1>4 DEF TypeOK, LockFile, Goto, Steps, issuer
<1>5. ASSUME NEW t \in Turns, LockTimeout(t) PROVE TypeOK'
  BY <1>5 DEF TypeOK, LockTimeout, Fail, Unlock, Goto, Steps, issuer
<1>6. ASSUME NEW t \in Turns, ReadSecond(t) PROVE TypeOK'
  BY <1>6, CredTypes DEF TypeOK, ReadSecond, SiblingRotated, Sign, Fail, Unlock, Remember, Goto, Steps, issuer
<1>7. ASSUME NEW t \in Turns, IssuerGrants(t) PROVE TypeOK'
  <2>1. cur[t] \in Cred /\ next \in Nat
    BY <1>7 DEF TypeOK, Carried, IssuerGrants
  <2>2. PICK rt \in {next, cur[t].rt} :
          /\ grant' = [grant EXCEPT ![t] = [at |-> next, rt |-> rt]]
          /\ live' = (live \ {cur[t].rt}) \cup {rt}
    BY <1>7 DEF IssuerGrants
  <2>3. rt \in Nat /\ cur[t].at \in Nat /\ [at |-> next, rt |-> rt] \in Cred
    BY <2>1, <2>2 DEF Cred
  <2>4. grant' \in [Turns -> Cred \cup {None}]
    BY <2>2, <2>3 DEF TypeOK
  <2>5. live' \subseteq Nat
    BY <2>2, <2>3 DEF TypeOK
  <2>7. dead' \subseteq Nat
    BY <1>7, <2>3 DEF TypeOK, IssuerGrants
  <2>8. next' \in Nat
    BY <1>7, <2>1 DEF IssuerGrants
  <2>6. pc' \in [Turns -> Steps] /\ lost' \in BOOLEAN
    BY <1>7 DEF TypeOK, IssuerGrants, Goto, Steps
  <2> QED BY <1>7, <2>4, <2>5, <2>6, <2>7, <2>8 DEF TypeOK, IssuerGrants
<1>8. ASSUME NEW t \in Turns, IssuerRefuses(t) PROVE TypeOK'
  BY <1>8 DEF TypeOK, IssuerRefuses, Goto, Steps, issuer
<1>9. ASSUME NEW t \in Turns, OnRefusal(t) PROVE TypeOK'
  BY <1>9, CredTypes DEF TypeOK, OnRefusal, Sign, Fail, Unlock, Remember, Goto, Steps, issuer
<1>10. ASSUME NEW t \in Turns, WriteBack(t) PROVE TypeOK'
  <2>1. grant[t] \in Cred
    BY <1>10 DEF Carried, WriteBack
  <2>2. [at |-> grant[t].at, rt |-> grant[t].rt, known |-> TRUE] \in CachedCred
    BY <2>1 DEF Cred, CachedCred
  <2>3. CASE file = None
    BY <1>10, <2>3 DEF TypeOK, WriteBack, Fail, Unlock, Goto, Steps, issuer
  <2>4. CASE file # None
    <3>1. /\ file' = grant[t]
          /\ cached' = [cached EXCEPT ![Home[t]] =
                          [at |-> grant[t].at, rt |-> grant[t].rt, known |-> TRUE]]
          /\ Sign(t, grant[t])
          /\ UNCHANGED <<live, dead, next, stale, cli, lost>>
      BY <1>10, <2>4 DEF WriteBack, Remember, issuer
    <3>2. cached' \in [Managers -> CachedCred \cup {None}]
      BY <2>2, <3>1 DEF TypeOK
    <3>3. /\ mutex' \in [Managers -> Turns \cup {None}]
          /\ flock' \in Turns \cup {None}
          /\ pc' \in [Turns -> Steps]
      BY <3>1 DEF TypeOK, Sign, Unlock, Goto, Steps
    <3>4. /\ cred' \in [Turns -> Cred \cup {None}]
          /\ cur' \in [Turns -> Cred \cup {None}]
          /\ grant' \in [Turns -> Cred \cup {None}]
      BY <2>1, <3>1 DEF TypeOK, Sign, Unlock
    <3> QED BY <2>1, <3>1, <3>2, <3>3, <3>4 DEF TypeOK
  <2> QED BY <2>3, <2>4
<1>11. ASSUME NEW t \in Turns, Post(t) PROVE TypeOK'
  BY <1>11 DEF TypeOK, Post, Goto, Steps, issuer
<1>12. ASSUME NEW t \in Turns, NetworkFails(t) \/ DiskFails(t) \/ Cancel(t) PROVE TypeOK'
  BY <1>12 DEF TypeOK, NetworkFails, DiskFails, Cancel, Fail, Unlock, Goto, Steps, issuer
<1>13. ASSUME NEW m \in Managers, Crash(m) PROVE TypeOK'
  BY <1>13 DEF TypeOK, Crash, Steps, issuer
<1>14. ASSUME Age \/ Revoke PROVE TypeOK'
  <2>1. 0..(next - 1) \subseteq Nat
    OBVIOUS
  <2> QED BY <1>14, <2>1 DEF TypeOK, Age, Revoke, issuer
<1>15. ASSUME CliExchange \/ CliWrite \/ CliLogin \/ CliLogout PROVE TypeOK'
  <2>1. CASE CliExchange
    <3>1. file \in Cred /\ next \in Nat
      BY <2>1 DEF TypeOK, CliExchange
    <3>2. PICK rt \in {next, file.rt} :
            /\ cli' = [at |-> next, rt |-> rt]
            /\ live' = (live \ {file.rt}) \cup {rt}
      BY <2>1 DEF CliExchange
    <3>3. rt \in Nat /\ file.at \in Nat /\ [at |-> next, rt |-> rt] \in Cred
      BY <3>1, <3>2 DEF Cred
    <3>4. cli' \in Cred /\ live' \subseteq Nat
      BY <3>2, <3>3 DEF TypeOK
    <3>5. dead' \subseteq Nat
      BY <2>1, <3>3 DEF TypeOK, CliExchange
    <3>6. next' \in Nat
      BY <2>1, <3>1 DEF CliExchange
    <3>7. lost' \in BOOLEAN
      BY <2>1 DEF TypeOK, CliExchange
    <3> QED BY <2>1, <3>4, <3>5, <3>6, <3>7 DEF TypeOK, CliExchange
  <2>2. CASE CliLogin
    <3>1. next \in Nat
      BY DEF TypeOK
    <3>2. [at |-> next, rt |-> next] \in Cred
      BY <3>1 DEF Cred
    <3> QED BY <2>2, <3>1, <3>2 DEF TypeOK, CliLogin
  <2>3. CASE CliWrite \/ CliLogout
    BY <2>3 DEF TypeOK, CliWrite, CliLogout, issuer
  <2> QED BY <1>15, <2>1, <2>2, <2>3
<1>16. CASE UNCHANGED vars
  BY <1>16 DEF TypeOK, vars
<1> QED
  BY <1>1, <1>2, <1>3, <1>4, <1>5, <1>6, <1>7, <1>8, <1>9, <1>10, <1>11,
     <1>12, <1>13, <1>14, <1>15, <1>16 DEF Next, Turn

\* No step lets two turns into the locked section, or takes a manager's mutex
\* from the turn that holds it.
LEMMA LockStep == IInv /\ [Next]_vars => LockInv'
<1> SUFFICES ASSUME IInv, [Next]_vars PROVE LockInv'
  OBVIOUS
<1> USE NoneApart DEF IInv
<1>1. ASSUME NEW t \in Turns, Begin(t) PROVE LockInv'
  BY <1>1 DEF TypeOK, LockInv, Locked, InMutex, Begin, Goto
<1>2. ASSUME NEW t \in Turns, TakeMutex(t) PROVE LockInv'
  BY <1>2 DEF TypeOK, LockInv, Locked, InMutex, TakeMutex, Goto
<1>3. ASSUME NEW t \in Turns, pc[t] \notin {"idle", "done", "failed"},
             Unlock(t), NEW step \in Ended \cup {"post", "repost"}, Goto(t, step)
      PROVE  LockInv'
  BY <1>3 DEF TypeOK, LockInv, Locked, InMutex, Ended, Unlock, Goto
<1>4. ASSUME NEW t \in Turns, ReadFirst(t) PROVE LockInv'
  <2>1. CASE pc'[t] = "lock"
    BY <1>4, <2>1 DEF TypeOK, LockInv, Locked, InMutex, ReadFirst, Goto, Sign, Fail
  <2>2. CASE pc'[t] # "lock"
    BY <1>3, <1>4, <2>2 DEF TypeOK, ReadFirst, Goto, Sign, Fail, Ended
  <2> QED BY <2>1, <2>2
<1>5. ASSUME NEW t \in Turns, LockFile(t) PROVE LockInv'
  BY <1>5 DEF TypeOK, LockInv, Locked, InMutex, LockFile, Goto
<1>6. ASSUME NEW t \in Turns, LockTimeout(t) PROVE LockInv'
  BY <1>3, <1>6 DEF LockTimeout, Fail, Ended
<1>7. ASSUME NEW t \in Turns, ReadSecond(t) PROVE LockInv'
  <2>1. CASE pc'[t] = "exchange"
    BY <1>7, <2>1 DEF TypeOK, LockInv, Locked, InMutex, ReadSecond, Goto, Sign, Fail
  <2>2. CASE pc'[t] # "exchange"
    BY <1>3, <1>7, <2>2 DEF TypeOK, ReadSecond, Goto, Sign, Fail, Ended
  <2> QED BY <2>1, <2>2
<1>8. ASSUME NEW t \in Turns, IssuerGrants(t) \/ IssuerRefuses(t) PROVE LockInv'
  BY <1>8 DEF TypeOK, LockInv, Locked, InMutex, IssuerGrants, IssuerRefuses, Goto
<1>9. ASSUME NEW t \in Turns, OnRefusal(t) PROVE LockInv'
  BY <1>3, <1>9 DEF OnRefusal, Sign, Fail, Ended
<1>10. ASSUME NEW t \in Turns, WriteBack(t) PROVE LockInv'
  BY <1>3, <1>10 DEF WriteBack, Sign, Fail, Ended
<1>11. ASSUME NEW t \in Turns, Post(t) PROVE LockInv'
  BY <1>11 DEF TypeOK, LockInv, Locked, InMutex, Post, Goto
<1>12. ASSUME NEW t \in Turns, NetworkFails(t) \/ DiskFails(t) \/ Cancel(t) PROVE LockInv'
  BY <1>3, <1>12 DEF NetworkFails, DiskFails, Cancel, Fail, Ended
<1>13. ASSUME NEW m \in Managers, Crash(m) PROVE LockInv'
  BY <1>13 DEF TypeOK, LockInv, Locked, InMutex, Crash, Ended
<1>14. CASE UNCHANGED <<pc, mutex, flock>>
  BY <1>14 DEF LockInv
<1> QED
  BY <1>1, <1>2, <1>4, <1>5, <1>6, <1>7, <1>8, <1>9, <1>10, <1>11, <1>12, <1>13, <1>14
  DEF Next, Turn, vars, Age, Revoke, CliExchange, CliWrite, CliLogin, CliLogout

\* At most one turn's exchange has been granted and not written.
LEMMA OneGranted ==
  ASSUME LockInv, NEW t \in Turns, NEW u \in Turns, pc[t] \in Locked, pc[u] \in Locked
  PROVE  t = u
  BY DEF LockInv

\* A granted pair stays good until it is written, or its loss is on record.
LEMMA CarriedStep == IInv /\ [Next]_vars => Carried'
<1> SUFFICES ASSUME IInv, [Next]_vars PROVE Carried'
  OBVIOUS
<1> USE NoneApart DEF IInv
<1>1. ASSUME NEW t \in Turns, Begin(t) \/ TakeMutex(t) \/ LockFile(t) PROVE Carried'
  BY <1>1 DEF TypeOK, Carried, Begin, TakeMutex, LockFile, Goto, issuer
<1>2. ASSUME NEW t \in Turns, ReadFirst(t) PROVE Carried'
  BY <1>2, CredTypes DEF TypeOK, Carried, ReadFirst, Sign, Fail, Unlock, Goto, issuer
<1>3. ASSUME NEW t \in Turns, LockTimeout(t) PROVE Carried'
  BY <1>3 DEF TypeOK, Carried, LockTimeout, Fail, Unlock, Goto, issuer
<1>4. ASSUME NEW t \in Turns, ReadSecond(t) PROVE Carried'
  BY <1>4, CredTypes DEF TypeOK, Carried, ReadSecond, SiblingRotated, Sign, Fail, Unlock, Goto, issuer
<1>5. ASSUME NEW t \in Turns, IssuerGrants(t) PROVE Carried'
  <2>1. cur[t] \in Cred /\ next \in Nat
    BY <1>5 DEF TypeOK, Carried, IssuerGrants
  <2>2. PICK rt \in {next, cur[t].rt} :
          /\ grant' = [grant EXCEPT ![t] = [at |-> next, rt |-> rt]]
          /\ live' = (live \ {cur[t].rt}) \cup {rt}
    BY <1>5 DEF IssuerGrants
  <2>3. grant'[t] \in Cred /\ grant'[t].rt \in live'
    BY <2>1, <2>2 DEF TypeOK, Cred
  <2>4. \A u \in Turns \ {t} : pc[u] # "granted" /\ grant'[u] = grant[u] /\ pc'[u] = pc[u]
    BY <1>5, <2>2, OneGranted DEF TypeOK, IssuerGrants, Goto, Locked
  <2> QED BY <1>5, <2>1, <2>3, <2>4 DEF TypeOK, Carried, IssuerGrants, Goto
<1>6. ASSUME NEW t \in Turns, IssuerRefuses(t) PROVE Carried'
  BY <1>6 DEF TypeOK, Carried, IssuerRefuses, Goto, issuer
<1>7. ASSUME NEW t \in Turns, OnRefusal(t) PROVE Carried'
  BY <1>7 DEF TypeOK, Carried, OnRefusal, Sign, Fail, Unlock, Goto, issuer
<1>8. ASSUME NEW t \in Turns, WriteBack(t) PROVE Carried'
  BY <1>8 DEF TypeOK, Carried, WriteBack, Sign, Fail, Unlock, Goto, issuer
<1>9. ASSUME NEW t \in Turns, Post(t) PROVE Carried'
  BY <1>9 DEF TypeOK, Carried, Post, Goto, issuer
<1>10. ASSUME NEW t \in Turns, NetworkFails(t) \/ DiskFails(t) \/ Cancel(t) PROVE Carried'
  BY <1>10 DEF TypeOK, Carried, NetworkFails, DiskFails, Cancel, Fail, Unlock, Goto, issuer
<1>11. ASSUME NEW m \in Managers, Crash(m) PROVE Carried'
  BY <1>11 DEF TypeOK, Carried, Crash, Ended, issuer
<1>12. ASSUME CliExchange PROVE Carried'
  BY <1>12 DEF TypeOK, Carried, CliExchange
<1>13. CASE /\ UNCHANGED <<pc, cred, cur, grant, lost>>
            /\ live \subseteq live'
  BY <1>13 DEF Carried
<1> QED
  BY <1>1, <1>2, <1>3, <1>4, <1>5, <1>6, <1>7, <1>8, <1>9, <1>10, <1>11, <1>12, <1>13
  DEF Next, Turn, vars, issuer, Age, Revoke, CliWrite, CliLogin, CliLogout

\* The login on disk, and the CLI's own pending one, survive every step.
LEMMA LiveStep == IInv /\ [Next]_vars => (CliGrantLive /\ LoginLive)'
<1> SUFFICES ASSUME IInv, [Next]_vars PROVE (CliGrantLive /\ LoginLive)'
  OBVIOUS
<1> USE NoneApart DEF IInv
<1>1. ASSUME NEW t \in Turns, IssuerGrants(t) PROVE (CliGrantLive /\ LoginLive)'
  BY <1>1 DEF TypeOK, CliGrantLive, LoginLive, IssuerGrants, Goto
<1>2. ASSUME NEW t \in Turns, WriteBack(t) PROVE (CliGrantLive /\ LoginLive)'
  BY <1>2 DEF TypeOK, Carried, CliGrantLive, LoginLive, WriteBack, issuer
<1>3. ASSUME CliExchange PROVE (CliGrantLive /\ LoginLive)'
  <2>1. file \in Cred /\ next \in Nat
    BY <1>3 DEF TypeOK, CliExchange
  <2>2. cli' # None /\ cli'.rt \in live'
    BY <1>3, <2>1 DEF CliExchange, Cred
  <2> QED BY <2>2 DEF CliGrantLive, LoginLive
<1>4. ASSUME CliWrite PROVE (CliGrantLive /\ LoginLive)'
  BY <1>4 DEF CliGrantLive, LoginLive, CliWrite, issuer
<1>5. ASSUME CliLogin PROVE (CliGrantLive /\ LoginLive)'
  BY <1>5 DEF CliGrantLive, LoginLive, CliLogin
<1>6. ASSUME CliLogout PROVE (CliGrantLive /\ LoginLive)'
  BY <1>6 DEF CliGrantLive, LoginLive, CliLogout
<1>7. CASE /\ UNCHANGED <<file, live, cli>>
           /\ lost => lost'
           /\ \A t \in Turns : pc[t] = "granted" => pc'[t] = "granted" \/ lost'
  BY <1>7 DEF CliGrantLive, LoginLive
<1>8. ASSUME NEW t \in Turns,
             \/ Begin(t) \/ TakeMutex(t) \/ ReadFirst(t) \/ LockFile(t) \/ LockTimeout(t)
             \/ ReadSecond(t) \/ IssuerRefuses(t) \/ OnRefusal(t) \/ Post(t)
             \/ NetworkFails(t) \/ DiskFails(t) \/ Cancel(t)
      PROVE  (CliGrantLive /\ LoginLive)'
  BY <1>7, <1>8
  DEF TypeOK, Begin, TakeMutex, ReadFirst, LockFile, LockTimeout, ReadSecond, IssuerRefuses,
      OnRefusal, Post, NetworkFails, DiskFails, Cancel, Sign, Fail, Goto, issuer
<1>9. ASSUME NEW m \in Managers, Crash(m) PROVE (CliGrantLive /\ LoginLive)'
  BY <1>7, <1>9 DEF TypeOK, Crash, Ended, issuer
<1>10. CASE Age \/ Revoke \/ UNCHANGED vars
  BY <1>7, <1>10 DEF Age, Revoke, vars, issuer
<1> QED
  BY <1>1, <1>2, <1>3, <1>4, <1>5, <1>6, <1>8, <1>9, <1>10 DEF Next, Turn

LEMMA Inductive == Spec => []IInv
<1>1. IInv /\ [Next]_vars => IInv'
  BY TypeStep, LockStep, CarriedStep, LiveStep DEF IInv
<1> QED BY InitIInv, <1>1, PTL DEF Spec

\* Every variable keeps its type.
THEOREM TypeCorrect == Spec => []TypeOK
<1>1. IInv => TypeOK
  BY DEF IInv
<1> QED BY <1>1, Inductive, PTL

\* The sidecar lock serialises rotations across any number of alc processes,
\* and each process's own turns, whatever is cancelled or killed.
THEOREM RotationsSerialised == Spec => []LockInv
<1>1. IInv => LockInv
  BY DEF IInv
<1> QED BY <1>1, Inductive, PTL

\* The refresh token on disk is one the issuer accepts, short of the recorded
\* ways a grant can miss the file.
THEOREM LoginStaysLive == Spec => []LoginLive
<1>1. IInv => LoginLive
  BY DEF IInv
<1> QED BY <1>1, Inductive, PTL

\* A turn back for a forced refresh was refused its token, and what a turn
\* exchanges is worn.
WornInv ==
  \A t \in Turns :
    /\ pc[t] \in {"start", "lock", "reread"} /\ cred[t] # None => cred[t].at \in dead
    /\ pc[t] \in {"idle", "read"} => cred[t] = None
    /\ pc[t] = "exchange" => cur[t].at \in stale \cup Opaque \cup dead

LEMMA WornStep == IInv /\ WornInv /\ [Next]_vars => WornInv'
<1> SUFFICES ASSUME IInv, WornInv, [Next]_vars PROVE WornInv'
  OBVIOUS
<1> USE NoneApart DEF IInv
<1>1. ASSUME NEW t \in Turns, Begin(t) \/ TakeMutex(t) \/ LockFile(t) PROVE WornInv'
  BY <1>1 DEF TypeOK, WornInv, Begin, TakeMutex, LockFile, Goto, issuer
<1>2. ASSUME NEW t \in Turns, ReadFirst(t) PROVE WornInv'
  BY <1>2 DEF TypeOK, WornInv, ReadFirst, Sign, Fail, Unlock, Goto, issuer
<1>3. ASSUME NEW t \in Turns, ReadSecond(t) PROVE WornInv'
  BY <1>3 DEF TypeOK, WornInv, ReadSecond, SiblingRotated, StoredFresh, Known, Sign, Fail,
      Unlock, Goto, issuer
<1>4. ASSUME NEW t \in Turns, IssuerGrants(t) \/ IssuerRefuses(t) PROVE WornInv'
  BY <1>4 DEF TypeOK, WornInv, IssuerGrants, IssuerRefuses, Goto, issuer
<1>5. ASSUME NEW t \in Turns, LockTimeout(t) \/ OnRefusal(t) \/ WriteBack(t) PROVE WornInv'
  BY <1>5 DEF TypeOK, WornInv, LockTimeout, OnRefusal, WriteBack, Sign, Fail, Unlock, Goto, issuer
<1>6. ASSUME NEW t \in Turns, Post(t) PROVE WornInv'
  BY <1>6 DEF TypeOK, WornInv, Post, Goto, issuer
<1>7. ASSUME NEW t \in Turns, NetworkFails(t) \/ DiskFails(t) \/ Cancel(t) PROVE WornInv'
  BY <1>7 DEF TypeOK, WornInv, NetworkFails, DiskFails, Cancel, Fail, Unlock, Goto, issuer
<1>8. ASSUME NEW m \in Managers, Crash(m) PROVE WornInv'
  BY <1>8 DEF TypeOK, WornInv, Crash, Ended, issuer
<1>9. CASE /\ UNCHANGED <<pc, cred, cur>>
           /\ stale \subseteq stale' /\ dead \subseteq dead'
  BY <1>9 DEF WornInv
<1> QED
  BY <1>1, <1>2, <1>3, <1>4, <1>5, <1>6, <1>7, <1>8, <1>9
  DEF Next, Turn, vars, issuer, Age, Revoke, CliExchange, CliWrite, CliLogin, CliLogout

\* A turn exchanges only a login whose access token is worn out or refused, so
\* what a sibling has just rotated in is left alone.
THEOREM WornOnly == Spec => OnlyWornTokensRotate
<1>1. Init => WornInv
  BY DEF Init, WornInv
<1>2. WornInv /\ [Next]_vars =>
        [\A t \in Turns : pc[t] = "exchange" /\ pc'[t] = "granted"
           => cur[t].at \in stale \cup Opaque \cup dead]_vars
  BY DEF WornInv
<1> QED BY <1>1, <1>2, WornStep, Inductive, PTL DEF Spec, OnlyWornTokensRotate
=============================================================================
