----------------------------- MODULE CodexAuth -----------------------------
(***************************************************************************)
(* Token rotation of the Codex login that every bridge borrows:            *)
(* src/src/bridge/auth.rs, driven by post_with_affinity in                 *)
(* src/src/bridge/upstream.rs.                                             *)
(*                                                                         *)
(* Several alc processes, each with one AuthManager, sign turns with the   *)
(* tokens of one auth.json.  The manager's async mutex serialises its own  *)
(* turns; a sidecar file lock serialises the processes; the Codex CLI      *)
(* uses the same file and takes neither.  The issuer rotates refresh       *)
(* tokens: exchanging one retires it.                                      *)
(*                                                                         *)
(* A token is the serial number the issuer gave it.  A credential is an    *)
(* access token and a refresh token; an issuer that sends no new refresh   *)
(* token leaves the old one paired with the new access token.              *)
(*                                                                         *)
(* StoredBare, UnlockFileOnly, LockFileUnlocked, ForcedAlways and          *)
(* WriteBackAccessOnly are mistakes the code does not make; each stands    *)
(* before the definition it would replace, to show which property sees it. *)
(***************************************************************************)
EXTENDS Naturals, FiniteSets

CONSTANTS
  Managers,   \* AuthManagers, one per alc process
  Turns,      \* client requests
  Home,       \* the manager that serves each turn
  Faults,     \* which faults the environment may produce
  Opaque,     \* access tokens whose exp claim cannot be read
  MaxToken,   \* bound on the tokens the issuer hands out
  None

AllFaults == {"cancel", "crash", "network", "disk", "cli", "logout"}

ASSUME FaultsAssumption == Faults \subseteq AllFaults
ASSUME HomeAssumption == Home \in [Turns -> Managers]
ASSUME OpaqueAssumption == Opaque \subseteq Nat
ASSUME NoneAssumption == None \notin Turns /\ None \notin [at : Nat, rt : Nat]

VARIABLES
  file,    \* the tokens in auth.json, None when it cannot be read as a login
  live,    \* refresh tokens the issuer still accepts
  dead,    \* access tokens upstream refuses
  stale,   \* access tokens within REFRESH_MARGIN_MS of their expiry
  next,    \* the issuer's next serial number
  cached,  \* AuthManager::state
  mutex,   \* the turn holding that mutex
  flock,   \* the turn holding the sidecar file lock
  pc, cred, cur, grant,  \* a turn: where it is, what it signed with, what it
                         \* exchanges, what the issuer answered
  cli,     \* a credential the Codex CLI was granted and has not written yet
  lost     \* history: a grant was, or may be, kept from the file

vars == <<file, live, dead, stale, next, cached, mutex, flock, pc, cred, cur,
          grant, cli, lost>>
issuer == <<live, dead, next>>

Cred == [at : Nat, rt : Nat]
CachedCred == [at : Nat, rt : Nat, known : BOOLEAN]
Steps == {"idle", "start", "read", "lock", "reread", "exchange", "granted",
          "refused", "post", "repost", "done", "failed"}
Locked == {"reread", "exchange", "granted", "refused"}
InMutex == Locked \cup {"read", "lock"}
Ended == {"done", "failed"}

TypeOK ==
  /\ file \in Cred \cup {None}
  /\ live \subseteq Nat /\ dead \subseteq Nat /\ stale \subseteq Nat
  /\ next \in Nat
  /\ cached \in [Managers -> CachedCred \cup {None}]
  /\ mutex \in [Managers -> Turns \cup {None}]
  /\ flock \in Turns \cup {None}
  /\ pc \in [Turns -> Steps]
  /\ cred \in [Turns -> Cred \cup {None}]
  /\ cur \in [Turns -> Cred \cup {None}]
  /\ grant \in [Turns -> Cred \cup {None}]
  /\ cli \in Cred \cup {None}
  /\ lost \in BOOLEAN

\* codex login has run: one live pair on disk.
Init ==
  /\ file = [at |-> 0, rt |-> 0]
  /\ live = {0} /\ dead = {} /\ stale = {} /\ next = 1
  /\ cached = [m \in Managers |-> None]
  /\ mutex = [m \in Managers |-> None]
  /\ flock = None
  /\ pc = [t \in Turns |-> "idle"]
  /\ cred = [t \in Turns |-> None]
  /\ cur = [t \in Turns |-> None]
  /\ grant = [t \in Turns |-> None]
  /\ cli = None
  /\ lost = FALSE

-----------------------------------------------------------------------------
(* What stored() and the cache say of a token.                             *)

Known(a) == a \notin Opaque
StoredBare(c) == c
Stored(c) == [at |-> c.at, rt |-> c.rt, known |-> Known(c.at)]
StoredFresh(c) == Known(c.at) /\ c.at \notin stale
HeldFresh(m) == cached[m] # None /\ cached[m].known /\ cached[m].at \notin stale
Held(m) == [at |-> cached[m].at, rt |-> cached[m].rt]

Goto(t, step) == pc' = [pc EXCEPT ![t] = step]

UnlockFileOnly(t) ==
  /\ flock' = IF flock = t THEN None ELSE flock
  /\ cur' = [cur EXCEPT ![t] = None]
  /\ grant' = [grant EXCEPT ![t] = None]
  /\ UNCHANGED mutex

\* The guards and locals of a turn's call are dropped when the call returns or
\* its future is dropped.
Unlock(t) ==
  /\ mutex' = [mutex EXCEPT ![Home[t]] = IF @ = t THEN None ELSE @]
  /\ flock' = IF flock = t THEN None ELSE flock
  /\ cur' = [cur EXCEPT ![t] = None]
  /\ grant' = [grant EXCEPT ![t] = None]

Sign(t, c) ==
  /\ Unlock(t)
  /\ cred' = [cred EXCEPT ![t] = c]
  /\ Goto(t, IF cred[t] = None THEN "post" ELSE "repost")
Fail(t) == Unlock(t) /\ Goto(t, "failed") /\ cred' = [cred EXCEPT ![t] = None]

Remember(t, c) == cached' = [cached EXCEPT ![Home[t]] = c]

-----------------------------------------------------------------------------
(* A turn.                                                                 *)

Begin(t) ==
  /\ pc[t] = "idle"
  /\ Goto(t, "start")
  /\ UNCHANGED <<file, issuer, stale, cached, mutex, flock, cred, cur, grant, cli, lost>>

\* A turn that already holds a credential is back for force_refresh, which
\* goes straight to the file lock.
TakeMutex(t) ==
  /\ pc[t] = "start" /\ mutex[Home[t]] = None
  /\ mutex' = [mutex EXCEPT ![Home[t]] = t]
  /\ Goto(t, IF cred[t] = None THEN "read" ELSE "lock")
  /\ UNCHANGED <<file, issuer, stale, cached, flock, cred, cur, grant, cli, lost>>

\* The first, unlocked read of credentials().
ReadFirst(t) ==
  LET m == Home[t] IN
  /\ pc[t] = "read"
  /\ \/ /\ file = None /\ HeldFresh(m)
        /\ Sign(t, Held(m)) /\ UNCHANGED cached
     \/ /\ file = None /\ ~HeldFresh(m)
        /\ Fail(t) /\ UNCHANGED cached
     \/ /\ file # None /\ StoredFresh(file)
        /\ Remember(t, Stored(file)) /\ Sign(t, file)
     \/ /\ file # None /\ ~StoredFresh(file)
        /\ HeldFresh(m) /\ cached[m].at = file.at
        /\ Sign(t, Held(m)) /\ UNCHANGED cached
     \/ /\ file # None /\ ~StoredFresh(file)
        /\ ~(HeldFresh(m) /\ cached[m].at = file.at)
        /\ Goto(t, "lock") /\ UNCHANGED <<cached, cred, mutex, flock, cur, grant>>
  /\ UNCHANGED <<file, issuer, stale, cli, lost>>

LockFileUnlocked(t) ==
  /\ pc[t] = "lock"
  /\ flock' = t
  /\ Goto(t, "reread")
  /\ UNCHANGED <<file, issuer, stale, cached, mutex, cred, cur, grant, cli, lost>>

LockFile(t) ==
  /\ pc[t] = "lock" /\ flock = None
  /\ flock' = t
  /\ Goto(t, "reread")
  /\ UNCHANGED <<file, issuer, stale, cached, mutex, cred, cur, grant, cli, lost>>

\* lock_for gives up after thirty seconds.
LockTimeout(t) ==
  /\ pc[t] = "lock" /\ flock # None
  /\ Fail(t)
  /\ UNCHANGED <<file, issuer, stale, cached, cli, lost>>

ForcedAlways(t) ==
  /\ cred[t] = None
  /\ StoredFresh(file) \/ (HeldFresh(Home[t]) /\ cached[Home[t]].at = file.at)

\* What makes the second read enough to sign with, and no rotation needed.
SiblingRotated(t) ==
  LET m == Home[t] IN
  IF cred[t] # None THEN cred[t].at # file.at
  ELSE StoredFresh(file) \/ (HeldFresh(m) /\ cached[m].at = file.at)

\* The read under the file lock, which alone decides what to exchange.
ReadSecond(t) ==
  LET m == Home[t] IN
  /\ pc[t] = "reread"
  /\ \/ /\ file = None
        /\ Fail(t) /\ UNCHANGED cached
     \/ /\ file # None /\ SiblingRotated(t)
        /\ IF cred[t] # None \/ StoredFresh(file)
             THEN Remember(t, Stored(file)) /\ Sign(t, file)
             ELSE UNCHANGED cached /\ Sign(t, Held(m))
     \/ /\ file # None /\ ~SiblingRotated(t)
        /\ cur' = [cur EXCEPT ![t] = file]
        /\ Goto(t, "exchange")
        /\ UNCHANGED <<cached, cred, mutex, flock, grant>>
  /\ UNCHANGED <<file, issuer, stale, cli, lost>>

\* The issuer honours a live refresh token: a new access token, and a new
\* refresh token unless it lets the old one stand.  A CLI rotation under way
\* holds no lock, so the two may overwrite each other.
IssuerGrants(t) ==
  /\ pc[t] = "exchange" /\ cur[t].rt \in live /\ next < MaxToken
  /\ \E rt \in {next, cur[t].rt} :
       /\ grant' = [grant EXCEPT ![t] = [at |-> next, rt |-> rt]]
       /\ live' = (live \ {cur[t].rt}) \cup {rt}
  /\ dead' = dead \cup {cur[t].at}
  /\ next' = next + 1
  /\ lost' = (lost \/ cli # None)
  /\ Goto(t, "granted")
  /\ UNCHANGED <<file, stale, cached, mutex, flock, cred, cur, cli>>

IssuerRefuses(t) ==
  /\ pc[t] = "exchange" /\ cur[t].rt \notin live
  /\ Goto(t, "refused")
  /\ UNCHANGED <<file, issuer, stale, cached, mutex, flock, cred, cur, grant, cli, lost>>

\* A refusal is a success when the file has moved on meanwhile.
OnRefusal(t) ==
  /\ pc[t] = "refused"
  /\ IF file # None /\ file.at # cur[t].at
       THEN Remember(t, Stored(file)) /\ Sign(t, file)
       ELSE Fail(t) /\ UNCHANGED cached
  /\ UNCHANGED <<file, issuer, stale, cli, lost>>

WriteBackAccessOnly(t) ==
  /\ pc[t] = "granted" /\ file # None
  /\ file' = [file EXCEPT !.at = grant[t].at]
  /\ Remember(t, [at |-> grant[t].at, rt |-> file.rt, known |-> TRUE])
  /\ Sign(t, grant[t])
  /\ UNCHANGED <<issuer, stale, cli, lost>>

\* write_tokens re-reads the document, and refuses to start from a blank one.
WriteBack(t) ==
  /\ pc[t] = "granted"
  /\ IF file # None
       THEN /\ file' = grant[t]
            /\ Remember(t, [at |-> grant[t].at, rt |-> grant[t].rt, known |-> TRUE])
            /\ Sign(t, grant[t])
            /\ UNCHANGED lost
       ELSE /\ Fail(t)
            /\ lost' = TRUE
            /\ UNCHANGED <<file, cached>>
  /\ UNCHANGED <<issuer, stale, cli>>

\* Upstream's verdict on the signed request: a first 401 asks for one forced
\* refresh, a second one is the client's answer.
Post(t) ==
  /\ pc[t] \in {"post", "repost"}
  /\ IF cred[t].at \in dead /\ pc[t] = "post"
       THEN Goto(t, "start") /\ UNCHANGED cred
       ELSE /\ Goto(t, IF cred[t].at \in dead THEN "failed" ELSE "done")
            /\ cred' = [cred EXCEPT ![t] = None]
  /\ UNCHANGED <<file, issuer, stale, cached, mutex, flock, cur, grant, cli, lost>>

-----------------------------------------------------------------------------
(* What goes wrong around a turn.                                          *)

\* The exchange did not come back usable: refused connection, 5xx, a body
\* that does not parse.  A granted one is then known to the issuer alone.
NetworkFails(t) ==
  /\ pc[t] \in {"exchange", "granted"}
  /\ "network" \in Faults \/ (pc[t] = "exchange" /\ next = MaxToken)
  /\ Fail(t)
  /\ lost' = (lost \/ pc[t] = "granted")
  /\ UNCHANGED <<file, issuer, stale, cached, cli>>

\* write_atomic fails: "a rotation that cannot be persisted".
DiskFails(t) ==
  /\ "disk" \in Faults /\ pc[t] = "granted"
  /\ Fail(t)
  /\ lost' = TRUE
  /\ UNCHANGED <<file, issuer, stale, cached, cli>>

\* The client goes away and the handler's future is dropped where it waits,
\* and its guards with it.
Cancel(t) ==
  /\ "cancel" \in Faults
  /\ pc[t] \in {"start", "lock", "exchange", "granted", "post", "repost"}
  /\ Fail(t)
  /\ lost' = (lost \/ pc[t] = "granted")
  /\ UNCHANGED <<file, issuer, stale, cached, cli>>

\* The process dies with the turns it is serving; the OS drops its file lock.
Crash(m) ==
  LET active == {t \in Turns : Home[t] = m /\ pc[t] \notin Ended \cup {"idle"}} IN
  /\ "crash" \in Faults /\ active # {}
  /\ pc' = [t \in Turns |-> IF t \in active THEN "failed" ELSE pc[t]]
  /\ mutex' = [mutex EXCEPT ![m] = None]
  /\ flock' = IF flock \in active THEN None ELSE flock
  /\ cached' = [cached EXCEPT ![m] = None]
  /\ lost' = (lost \/ \E t \in active : pc[t] = "granted")
  /\ cred' = [t \in Turns |-> IF t \in active THEN None ELSE cred[t]]
  /\ cur' = [t \in Turns |-> IF t \in active THEN None ELSE cur[t]]
  /\ grant' = [t \in Turns |-> IF t \in active THEN None ELSE grant[t]]
  /\ UNCHANGED <<file, issuer, stale, cli>>

\* Time passes for an issued access token, or the issuer revokes one.
Age ==
  /\ \E a \in (0..(next - 1)) \ stale : stale' = stale \cup {a}
  /\ UNCHANGED <<file, issuer, cached, mutex, flock, pc, cred, cur, grant, cli, lost>>

Revoke ==
  /\ \E a \in (0..(next - 1)) \ dead : dead' = dead \cup {a}
  /\ UNCHANGED <<file, live, next, stale, cached, mutex, flock, pc, cred, cur, grant, cli, lost>>

\* The Codex CLI on the same file, outside the lock: it rotates in two steps,
\* logs in afresh, and logs out.
CliExchange ==
  /\ "cli" \in Faults /\ cli = None /\ file # None
  /\ file.rt \in live /\ next < MaxToken
  /\ \E rt \in {next, file.rt} :
       /\ cli' = [at |-> next, rt |-> rt]
       /\ live' = (live \ {file.rt}) \cup {rt}
  /\ dead' = dead \cup {file.at}
  /\ next' = next + 1
  /\ lost' = (lost \/ \E t \in Turns : pc[t] = "granted")
  /\ UNCHANGED <<file, stale, cached, mutex, flock, pc, cred, cur, grant>>

CliWrite ==
  /\ cli # None
  /\ file' = cli /\ cli' = None
  /\ UNCHANGED <<issuer, stale, cached, mutex, flock, pc, cred, cur, grant, lost>>

CliLogin ==
  /\ "cli" \in Faults /\ cli = None /\ next < MaxToken
  /\ file' = [at |-> next, rt |-> next]
  /\ live' = live \cup {next}
  /\ next' = next + 1
  /\ UNCHANGED <<dead, stale, cached, mutex, flock, pc, cred, cur, grant, cli, lost>>

CliLogout ==
  /\ "logout" \in Faults /\ cli = None /\ file # None
  /\ file' = None
  /\ UNCHANGED <<issuer, stale, cached, mutex, flock, pc, cred, cur, grant, cli, lost>>

-----------------------------------------------------------------------------
Turn(t) ==
  \/ TakeMutex(t) \/ ReadFirst(t) \/ LockFile(t) \/ LockTimeout(t)
  \/ ReadSecond(t) \/ IssuerGrants(t) \/ IssuerRefuses(t) \/ OnRefusal(t)
  \/ WriteBack(t) \/ Post(t) \/ NetworkFails(t) \/ DiskFails(t)

Next ==
  \/ \E t \in Turns : Begin(t) \/ Turn(t) \/ Cancel(t)
  \/ \E m \in Managers : Crash(m)
  \/ Age \/ Revoke \/ CliExchange \/ CliWrite \/ CliLogin \/ CliLogout

Spec == Init /\ [][Next]_vars

\* The runtime polls a ready future, the exchange is bounded by REFRESH_TIMEOUT,
\* and tokio's mutex wakes its waiters in order.
FairSpec == Spec /\ \A t \in Turns : WF_vars(Turn(t))

-----------------------------------------------------------------------------
(* Properties.                                                             *)

\* The file lock serialises rotations across processes: a turn is inside the
\* locked section exactly when it holds the lock, so at most one is, and it
\* holds its own manager's mutex there (AuthManager::refresh_lock).
LockInv ==
  /\ \A t \in Turns : pc[t] \in Locked <=> flock = t
  /\ \A t \in Turns : pc[t] \in InMutex <=> mutex[Home[t]] = t

\* Re-reading under the lock keeps the login alive: the refresh token on disk
\* is one the issuer accepts, unless a rotation is on its way to the file, or
\* one was kept from it by a cancelled, killed, cut off or unwritable turn or
\* by a CLI rotation that overlapped ours.
LoginLive ==
  file # None =>
    \/ file.rt \in live
    \/ lost
    \/ cli # None
    \/ \E t \in Turns : pc[t] = "granted"

\* Rotating again what a sibling has just rotated "would retire it and turn one
\* 401 into two": alc exchanges a login only when its access token is near
\* expiry, has an unreadable one, or was refused (force_refresh).
OnlyWornTokensRotate ==
  [][ \A t \in Turns : pc[t] = "exchange" /\ pc'[t] = "granted"
        => cur[t].at \in stale \cup Opaque \cup dead ]_vars

\* "The returned guard stays held through the issuer exchange and atomic
\* write-back" (refresh_lock): a turn whose exchange was granted gives up the
\* file lock only in the step that writes the grant to the file.
\* Not kept when the turn is cancelled there (README).
GuardHeldThroughWriteBack ==
  [][ \A t \in Turns : pc[t] = "granted" /\ flock' # flock => file' = grant[t] ]_vars

\* A turn that began waiting is answered: mutex, file lock and issuer never
\* leave it hanging.
TurnsEnd == \A t \in Turns : pc[t] = "start" ~> pc[t] \in Ended
=============================================================================
