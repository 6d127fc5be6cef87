------------------------------ MODULE AgyRenew ------------------------------
(***************************************************************************)
(* Antigravity turns on a login alc does not own.  agy keeps the login and *)
(* is the only one that renews it, so a bridge that finds it stale, or     *)
(* refused, runs agy: one at a time in the whole machine, under a lock     *)
(* file that stays with agy when the turn that started it has given up.    *)
(* A turn also asks once per token for the Cloud Code project it must      *)
(* name, and bridges renew for turns of their own side by side.            *)
(*                                                                         *)
(* A token is its number in issued; its account is what the person was     *)
(* signed in as when agy wrote it.                                         *)
(***************************************************************************)
EXTENDS Naturals, Sequences

CONSTANTS
  Turns,          \* <<bridge, n>>: turn n of an alc process
  Equipped,       \* the bridges that found agy when they started
  Faults,         \* what may go wrong: "cancel", "kill", "lock", "switch", "signout", "retry"
  MaxTokens,      \* bound on the tokens agy writes
  MaxAccounts,    \* bound on the accounts, numbered as they sign in
  MaxRetries,     \* MAX_RETRIES
  SwitchRetries   \* SWITCH_RETRIES

Home(t) == t[1]
Bridges == {Home(t) : t \in Turns}

VARIABLES
  login,    \* the token stored, 0 when signed out
  issued,   \* the account of each token
  worn,     \* tokens within the margin of their expiry, or past it
  refused,  \* tokens upstream answers with 401
  flight,   \* of each bridge: who holds its in-process mutex
  lock,     \* who holds the lock file
  thread,   \* of each turn: its task on the blocking pool
  orphans,  \* bridges killed while their agy ran
  project,  \* of each bridge: the token and account of the project it remembers
  turn      \* the turns

renewVars == <<login, issued, worn, refused, flight, lock, thread, orphans, project, turn>>
stored == <<login, issued, worn, refused>>
renewing == <<flight, lock, thread, orphans>>

Tokens == 1..Len(issued)
Accounts == 1..MaxAccounts
Fresh(token) == token \notin worn
Forgotten == [token |-> 0, account |-> 0]

\* A turn that begins an attempt, or a part of it, again.
Again(pc, rejected, renewed, attempt) ==
  [pc |-> pc, token |-> 0, named |-> 0, rejected |-> rejected,
   renewed |-> renewed, attempt |-> attempt, switches |-> 0]
In(pc) == Again(pc, 0, FALSE, 0)

RenewInit ==
  /\ login = 1 /\ issued = <<1>> /\ worn = {} /\ refused = {}
  /\ flight = [b \in Bridges |-> {}] /\ lock = {} /\ orphans = {}
  /\ thread = [t \in Turns |-> "none"]
  /\ project = [b \in Bridges |-> Forgotten]
  /\ turn = [t \in Turns |-> In("token")]

-----------------------------------------------------------------------------
(* AgyCredentials.                                                         *)

At(t, pc) == turn[t].pc = pc
TurnGoes(t, pc) == turn' = [turn EXCEPT ![t].pc = pc]

SignsRemembered(t) ==
  LET known == project[Home(t)] IN
  turn' = [turn EXCEPT ![t].pc = IF known.token # 0 THEN "post" ELSE "asked",
                       ![t].token = login,
                       ![t].named = IF known.token # 0 THEN known.account ELSE 0]

\* project_for asks for the project of a token it does not remember one for.
Signs(t) ==
  LET known == project[Home(t)] IN
  turn' = [turn EXCEPT ![t].pc = IF known.token = login THEN "post" ELSE "asked",
                       ![t].token = login,
                       ![t].named = IF known.token = login THEN known.account ELSE 0]

TurnEnds(t, pc) == turn' = [turn EXCEPT ![t] = In(pc)]
\* Whoever leaves renew drops its guard on the mutex.
Frees(t) == flight' = [flight EXCEPT ![Home(t)] = @ \ {t}]
Thread(t, state) == thread' = [thread EXCEPT ![t] = state]

Token(t) ==
  /\ At(t, "token")
  /\ \/ login = 0 /\ TurnEnds(t, "failed")
     \/ login # 0 /\ Fresh(login) /\ Signs(t)
     \/ login # 0 /\ ~Fresh(login) /\ TurnGoes(t, "flight")
  /\ UNCHANGED <<stored, renewing, project>>

Usable(t) == login # 0 /\ Fresh(login) /\ login # turn[t].rejected

\* What renew returns is signed with at once, unless it was for a refusal:
\* then stream_generate begins again from token.
Renewed(t) == 
  IF turn[t].rejected = 0
    THEN Signs(t)
    ELSE turn' = [turn EXCEPT ![t].pc = "token", ![t].rejected = 0]

\* The mutex, and the store read once it is held.
Flight(t) ==
  /\ At(t, "flight") /\ flight[Home(t)] = {}
  /\ \/ login = 0 /\ TurnEnds(t, "failed") /\ UNCHANGED <<flight, thread>>
     \/ Usable(t) /\ Renewed(t) /\ UNCHANGED <<flight, thread>>
     \/ /\ login # 0 /\ ~Usable(t)
        /\ IF Home(t) \in Equipped
             THEN /\ TurnGoes(t, "lock") /\ Thread(t, "waiting")
                  /\ flight' = [flight EXCEPT ![Home(t)] = {t}]
             ELSE TurnEnds(t, "failed") /\ UNCHANGED <<flight, thread>>
  /\ UNCHANGED <<stored, lock, orphans, project>>

Acquire(t) ==
  /\ At(t, "lock") /\ thread[t] = "waiting" /\ lock = {}
  /\ lock' = {t} /\ Thread(t, "has") /\ TurnGoes(t, "recheck")
  /\ UNCHANGED <<stored, flight, orphans, project>>

\* LOCK_WAIT is over, or the lock cannot be taken at all.
NotAcquired(t) ==
  /\ At(t, "lock") /\ thread[t] = "waiting"
  /\ lock # {} \/ "lock" \in Faults
  /\ Thread(t, "none") /\ TurnEnds(t, "failed") /\ Frees(t)
  /\ UNCHANGED <<stored, lock, orphans, project>>

\* The wait of a turn that gave up goes on without it, and what it gets is
\* dropped at once.
WaitEnds(t) ==
  /\ At(t, "gone") /\ thread[t] = "waiting" /\ Thread(t, "none")
  /\ UNCHANGED <<stored, flight, lock, orphans, project, turn>>

Recheck(t) ==
  /\ At(t, "recheck")
  /\ \/ /\ login = 0 \/ Usable(t)
        /\ IF login = 0 THEN TurnEnds(t, "failed") ELSE Renewed(t)
        /\ Frees(t) /\ lock' = lock \ {t} /\ Thread(t, "none")
     \/ login # 0 /\ ~Usable(t) /\ TurnGoes(t, "agy") /\ Thread(t, "agy") /\ UNCHANGED <<flight, lock>>
  /\ UNCHANGED <<stored, orphans, project>>

\* agy answers, fails, cannot be started, or is killed at REFRESH_TIMEOUT.
AgyEnds(t) ==
  /\ thread[t] = "agy" /\ Thread(t, "none") /\ lock' = lock \ {t}
  /\ \/ At(t, "agy") /\ TurnGoes(t, "after") /\ UNCHANGED flight
     \/ At(t, "agy") /\ TurnEnds(t, "failed") /\ Frees(t)
     \/ At(t, "gone") /\ UNCHANGED <<turn, flight>>
  /\ UNCHANGED <<stored, orphans, project>>

AfterAgy(t) ==
  /\ At(t, "after") /\ Frees(t)
  /\ IF Usable(t) THEN Renewed(t) ELSE TurnEnds(t, "failed")
  /\ UNCHANGED <<stored, lock, thread, orphans, project>>

-----------------------------------------------------------------------------
(* stream_generate.                                                        *)

Forgets(t) == project' = [project EXCEPT ![Home(t)] = Forgotten]

Unauthorized(t) ==
  /\ turn[t].token \in worn \cup refused
  /\ Forgets(t)
  /\ IF turn[t].renewed
       THEN TurnEnds(t, "failed")
       ELSE turn' = [turn EXCEPT ![t] = Again("flight", turn[t].token, TRUE, turn[t].attempt)]

\* 429, 5xx or no answer, when the wait before the next attempt is not too
\* long; otherwise, and for any other refusal, the turn fails.
Refused(t) ==
  \/ /\ "retry" \in Faults /\ turn[t].attempt < MaxRetries
     /\ turn' = [turn EXCEPT ![t] = Again("token", 0, turn[t].renewed, turn[t].attempt + 1)]
     /\ UNCHANGED project
  \/ TurnEnds(t, "failed") /\ UNCHANGED project
  \/ TurnEnds(t, "failed") /\ Forgets(t)
  \/ Unauthorized(t)

Serves(t) == turn[t].token \notin refused

\* The login is read once more: another one may be signed in by now.
ProjectAnswered(t) ==
  /\ At(t, "asked")
  /\ LET seen == turn[t].token IN
     \/ Refused(t)
     \/ /\ Serves(t) /\ login = seen
        /\ turn' = [turn EXCEPT ![t].pc = "post", ![t].named = issued[seen], ![t].switches = 0]
        /\ project' = [project EXCEPT ![Home(t)] = [token |-> seen, account |-> issued[seen]]]
     \/ /\ Serves(t) /\ login \notin {0, seen} /\ turn[t].switches < SwitchRetries
        /\ turn' = [turn EXCEPT ![t].token = login, ![t].switches = @ + 1]
        /\ UNCHANGED project
     \/ /\ Serves(t) /\ login # seen
        /\ login = 0 \/ turn[t].switches = SwitchRetries
        /\ TurnEnds(t, "failed") /\ UNCHANGED project
  /\ UNCHANGED <<stored, renewing>>

Post(t) ==
  /\ At(t, "post")
  /\ \/ Serves(t) /\ TurnEnds(t, "answered") /\ UNCHANGED project
     \/ Refused(t)
  /\ UNCHANGED <<stored, renewing>>

-----------------------------------------------------------------------------
(* The client hangs up, the process dies, and what happens to the login.   *)

Ended == {"answered", "failed", "gone"}

CancelFrees(t) ==
  /\ "cancel" \in Faults /\ turn[t].pc \notin Ended
  /\ TurnEnds(t, "gone") /\ Frees(t) /\ lock' = lock \ {t}
  /\ IF thread[t] = "has" THEN Thread(t, "none") ELSE UNCHANGED thread
  /\ UNCHANGED <<stored, orphans, project>>

\* Dropping the future drops its guard and, when agy does not run yet, the
\* lock.
Cancel(t) ==
  /\ "cancel" \in Faults /\ turn[t].pc \notin Ended
  /\ TurnEnds(t, "gone") /\ Frees(t)
  /\ IF thread[t] = "has" THEN lock' = lock \ {t} /\ Thread(t, "none")
                          ELSE UNCHANGED <<lock, thread>>
  /\ UNCHANGED <<stored, orphans, project>>

Kill(b) ==
  /\ "kill" \in Faults /\ \E t \in Turns : Home(t) = b /\ thread[t] # "none"
  /\ turn' = [t \in Turns |-> IF Home(t) = b THEN In("gone") ELSE turn[t]]
  /\ thread' = [t \in Turns |-> IF Home(t) = b THEN "none" ELSE thread[t]]
  /\ lock' = {t \in lock : Home(t) # b}
  /\ flight' = [flight EXCEPT ![b] = {}]
  /\ orphans' = orphans \cup {Home(t) : t \in {u \in Turns : Home(u) = b /\ thread[u] = "agy"}}
  /\ UNCHANGED <<stored, project>>

OrphanEnds(b) ==
  /\ b \in orphans /\ orphans' = orphans \ {b}
  /\ UNCHANGED <<stored, flight, lock, thread, project, turn>>

Writes(account) ==
  /\ Len(issued) < MaxTokens
  /\ issued' = Append(issued, account) /\ login' = Len(issued) + 1
  /\ UNCHANGED <<worn, refused>>

AgyRunning == orphans # {} \/ \E t \in Turns : thread[t] = "agy"

LoginChanges ==
  /\ \/ AgyRunning /\ login \in worn \cup refused /\ Writes(issued[login])
     \/ "switch" \in Faults /\ \E a \in Accounts : Writes(a)
     \/ "signout" \in Faults /\ login' = 0 /\ login # 0 /\ UNCHANGED <<issued, worn, refused>>
     \/ login # 0 /\ login \notin worn /\ worn' = worn \cup {login}
        /\ UNCHANGED <<login, issued, refused>>
     \/ login # 0 /\ login \notin refused /\ refused' = refused \cup {login}
        /\ UNCHANGED <<login, issued, worn>>
  /\ UNCHANGED <<renewing, project, turn>>

Renews(t) ==
  \/ Token(t) \/ Flight(t) \/ Acquire(t) \/ NotAcquired(t) \/ WaitEnds(t)
  \/ Recheck(t) \/ AgyEnds(t) \/ AfterAgy(t)
Streams(t) == ProjectAnswered(t) \/ Post(t)

RenewNext ==
  \/ \E t \in Turns : Renews(t) \/ Streams(t) \/ Cancel(t)
  \/ \E b \in Bridges : Kill(b) \/ OrphanEnds(b)
  \/ LoginChanges

RenewSpec == RenewInit /\ [][RenewNext]_renewVars

-----------------------------------------------------------------------------
RenewSteps == {"token", "flight", "lock", "recheck", "agy", "after", "asked", "post"} \cup Ended

TurnStates == [pc : RenewSteps, token : 0..Len(issued), named : Nat, rejected : 0..Len(issued),
               renewed : BOOLEAN, attempt : Nat, switches : Nat]

\* The login, the lock and the turns are of the expected shapes, and only
\* tokens agy has written are stored, signed with or remembered.
RenewTypeOK ==
  /\ issued \in Seq(Nat) /\ login \in 0..Len(issued)
  /\ worn \subseteq Tokens /\ refused \subseteq Tokens
  /\ flight \in [Bridges -> SUBSET Turns] /\ lock \subseteq Turns /\ orphans \subseteq Bridges
  /\ thread \in [Turns -> {"none", "waiting", "has", "agy"}]
  /\ project \in [Bridges -> [token : 0..Len(issued), account : Nat]]
  /\ turn \in [Turns -> TurnStates]

\* However many turns of however many bridges want a renewal, and whichever
\* of them give up while agy runs, alc runs one agy at a time; what a killed
\* bridge leaves running is not counted.
OneAgy == \A t, u \in Turns : thread[t] = "agy" /\ thread[u] = "agy" => t = u

\* A request names the project of the account whose token signs it, although
\* the project is remembered across turns and the login may be renewed or
\* replaced by another account's between any two steps.
ProjectIsOwn == \A t \in Turns : turn[t].pc = "post" => turn[t].named = issued[turn[t].token]
=============================================================================
