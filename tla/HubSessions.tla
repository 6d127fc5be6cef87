---------------------------- MODULE HubSessions ----------------------------
(***************************************************************************)
(* Sessions of the background hub and what they leave on disk.  A launch   *)
(* writes temporary files, a provider's key among them, that live as long  *)
(* as its session; the hub notes them on disk, because a hub that dies     *)
(* cannot remove them and the next one must.  An agent in tmux is another  *)
(* process's child: it can outlive its session and its hub.                *)
(*                                                                         *)
(* Hubs start whenever somebody wants one (spawn_or_join, or               *)
(* `alc hub start --foreground`), several at once too.                     *)
(***************************************************************************)
EXTENDS Naturals

CONSTANTS
  Hubs,      \* processes that run the hub, each once
  Sessions,  \* launches, each with files to clean up
  Tmux,      \* those that ask for tmux
  HubFaults  \* "unwritable", "unreadable", "garbled", "stuck", "detach", "silent"

VARIABLES
  hub,       \* of each hub: how far it is
  owner,     \* who holds hub.owner.lock
  session,   \* of each launch: how far it is, in which hub, and whether noted
  agents,    \* launches whose agent runs
  files,     \* launches whose temporary files are there
  recorded,  \* launches with an OrphanRecord on disk
  silent,    \* sessions whose tmux did not answer when it was to stop
  left       \* launches whose files could not be removed, or not be read from the record

hubVars == <<hub, owner, session, agents, files, recorded, silent, left>>
hubs == <<hub, owner>>
given == <<silent, left>>

HubInit ==
  /\ hub = [h \in Hubs |-> "none"] /\ owner = {}
  /\ session = [s \in Sessions |-> [phase |-> "none", hub |-> 0, noted |-> FALSE]]
  /\ agents = {} /\ files = {} /\ recorded = {}
  /\ silent = {} /\ left = {}

Up(h) == hub[h] \in {"serving", "stopping"}
HubGoes(h, phase) == hub' = [hub EXCEPT ![h] = phase]
SessionPhase(s) == session[s].phase
Goes(s, phase) == session' = [session EXCEPT ![s].phase = phase]
\* An error of remove_file is nobody's: the file stays, and is not told of.
Removes(s) ==
  \/ files' = files \ {s} /\ left' = left \ {s}
  \/ "stuck" \in HubFaults /\ left' = left \cup (files \cap {s}) /\ UNCHANGED files
\* tmux's kill-server, or nothing when the agent is not there.
Stops(s) == agents' = agents \ {s}
\* The same where a tmux that does not answer is let be.
AsksToStop(s) ==
  \/ Stops(s) /\ UNCHANGED silent
  \/ "silent" \in HubFaults /\ silent' = silent \cup (agents \cap {s}) /\ UNCHANGED agents

-----------------------------------------------------------------------------
(* Hub::run                                                                *)

Starts(h) ==
  /\ hub[h] = "none" /\ HubGoes(h, "started")
  /\ UNCHANGED <<owner, session, agents, files, recorded, given>>

OwnsAnyway(h) ==
  /\ hub[h] = "started" /\ owner' = owner \cup {h} /\ HubGoes(h, "reaping")
  /\ UNCHANGED <<session, agents, files, recorded, given>>

\* The lock is not waited for: the hub that finds it held touches nothing.
Owns(h) ==
  /\ hub[h] = "started"
  /\ IF owner = {} THEN owner' = {h} /\ HubGoes(h, "reaping")
                   ELSE HubGoes(h, "over") /\ UNCHANGED owner
  /\ UNCHANGED <<session, agents, files, recorded, given>>

\* reap_orphans: of each record the files first, then the record itself,
\* whether the files went or not.
ReapsFiles(h) ==
  /\ hub[h] = "reaping"
  /\ \E s \in recorded \cap files : Removes(s)
  /\ UNCHANGED <<hubs, session, agents, recorded, silent>>

ReapsRecord(h) ==
  /\ hub[h] = "reaping"
  /\ \E s \in recorded \ (files \ left) : recorded' = recorded \ {s}
  /\ UNCHANGED <<hubs, session, agents, files, given>>

\* A record that does not parse goes without a look at its files.
ReapsGarbled(h) ==
  /\ hub[h] = "reaping" /\ "garbled" \in HubFaults
  /\ \E s \in recorded : recorded' = recorded \ {s} /\ left' = left \cup (files \cap {s})
  /\ UNCHANGED <<hubs, session, agents, files, silent>>

\* A record that cannot be read is left for later.
Listens(h) ==
  /\ hub[h] = "reaping"
  /\ recorded = {} \/ "unreadable" \in HubFaults
  /\ HubGoes(h, "serving")
  /\ UNCHANGED <<owner, session, agents, files, recorded, given>>

\* Nothing new is refused until the accept loop has seen stop, and creations
\* under way go on.  What draining asks of the agents, AgentEnds does.
Stopped(h) ==
  /\ hub[h] = "serving" /\ HubGoes(h, "stopping")
  /\ UNCHANGED <<owner, session, agents, files, recorded, given>>

\* The hub cannot listen, ends after stop, or is killed: in every case its
\* sessions' threads end with it, whatever they were about to do.
HubEnds(h) ==
  /\ hub[h] \notin {"none", "over"}
  /\ HubGoes(h, "over") /\ owner' = owner \ {h}
  /\ session' = [s \in Sessions |->
       IF session[s].hub = h THEN [session[s] EXCEPT !.phase = "lost"] ELSE session[s]]
  /\ UNCHANGED <<agents, files, recorded, given>>

-----------------------------------------------------------------------------
(* Hub::create, one step of it at a time.                                  *)

Prepares(s) ==
  /\ SessionPhase(s) = "none"
  /\ \E h \in Hubs :
       Up(h) /\ session' = [session EXCEPT ![s] = [phase |-> "prepared", hub |-> h, noted |-> FALSE]]
  /\ files' = files \cup {s}
  /\ UNCHANGED <<hubs, agents, recorded, given>>

\* A record that cannot be written does not stop the launch.
Records(s) ==
  /\ SessionPhase(s) = "prepared"
  /\ \/ recorded' = recorded \cup {s}
        /\ session' = [session EXCEPT ![s].phase = "recorded", ![s].noted = TRUE]
     \/ "unwritable" \in HubFaults /\ Goes(s, "recorded") /\ UNCHANGED recorded
  /\ UNCHANGED <<hubs, agents, files, given>>

\* tmux has the agent before the session is there.
Pane(s) ==
  /\ SessionPhase(s) = "recorded" /\ s \in Tmux
  /\ Goes(s, "pane") /\ agents' = agents \cup {s}
  /\ UNCHANGED <<hubs, files, recorded, given>>

SessionStart(s) ==
  /\ SessionPhase(s) = IF s \in Tmux THEN "pane" ELSE "recorded"
  /\ Goes(s, "running")
  /\ agents' = IF s \in Tmux THEN agents ELSE agents \cup {s}
  /\ UNCHANGED <<hubs, files, recorded, given>>

\* No agent yet: what was prepared is dropped.
CreateFails(s) ==
  /\ SessionPhase(s) = "recorded" /\ Goes(s, "failed") /\ Removes(s)
  /\ UNCHANGED <<hubs, agents, recorded, silent>>

\* Tmux::create refuses what already runs in its pane: the server is stopped
\* first, and the files go when `prepared` is dropped.
CreateRefused(s) ==
  /\ SessionPhase(s) = "pane" /\ Goes(s, "refused") /\ AsksToStop(s)
  /\ UNCHANGED <<hubs, files, recorded, left>>

DropsPrepared(s) ==
  /\ SessionPhase(s) = "refused" /\ Goes(s, "failed") /\ Removes(s)
  /\ UNCHANGED <<hubs, agents, recorded, silent>>

\* Session::start owns the guards: when it fails they are dropped before its
\* caller stops the server.
StartFails(s) ==
  /\ SessionPhase(s) = "pane" /\ Goes(s, "dropped") /\ Removes(s)
  /\ UNCHANGED <<hubs, agents, recorded, silent>>

StopsServer(s) ==
  /\ SessionPhase(s) = "dropped" /\ Goes(s, "failed") /\ AsksToStop(s)
  /\ UNCHANGED <<hubs, files, recorded, left>>

-----------------------------------------------------------------------------
(* The end of a session.                                                   *)

AgentEnds(s) ==
  /\ s \in agents /\ agents' = agents \ {s}
  /\ UNCHANGED <<hubs, session, files, recorded, given>>

\* pump, at the end of the output: that of the agent, or of a tmux client
\* that was detached while the agent runs on.  Then the server is stopped,
\* unless tmux does not answer.
Exits(s) ==
  /\ SessionPhase(s) = "running" /\ Goes(s, "ended")
  /\ \/ s \notin agents /\ UNCHANGED <<agents, given>>
     \/ s \in Tmux /\ "detach" \in HubFaults /\ Stops(s) /\ UNCHANGED silent
     \/ s \in Tmux /\ "silent" \in HubFaults /\ silent' = silent \cup {s} /\ UNCHANGED agents
  /\ UNCHANGED <<hubs, files, recorded, left>>

GuardsDrop(s) ==
  /\ SessionPhase(s) = "ended" /\ Goes(s, "cleaned") /\ Removes(s)
  /\ UNCHANGED <<hubs, agents, recorded, silent>>

\* LINGER is minutes, dropping the guards takes seconds.
CardReaped(s) ==
  /\ SessionPhase(s) = "cleaned" /\ hub[session[s].hub] = "serving"
  /\ Goes(s, "reaped") /\ recorded' = recorded \ {s}
  /\ UNCHANGED <<hubs, agents, files, given>>

HubNext ==
  \/ \E h \in Hubs :
       \/ Starts(h) \/ Owns(h) \/ ReapsFiles(h) \/ ReapsRecord(h) \/ ReapsGarbled(h)
       \/ Listens(h) \/ Stopped(h) \/ HubEnds(h)
  \/ \E s \in Sessions :
       \/ Prepares(s) \/ Records(s) \/ Pane(s) \/ SessionStart(s) \/ CreateFails(s)
       \/ CreateRefused(s) \/ DropsPrepared(s) \/ StartFails(s) \/ StopsServer(s)
       \/ AgentEnds(s) \/ Exits(s) \/ GuardsDrop(s) \/ CardReaped(s)

HubSpec == HubInit /\ [][HubNext]_hubVars

-----------------------------------------------------------------------------
Holding == {"prepared", "recorded", "pane", "refused", "running", "ended"}
Over == {"failed", "cleaned", "reaped", "lost"}

\* Hubs and launches are where they can be.
HubTypeOK ==
  /\ hub \in [Hubs -> {"none", "started", "reaping", "serving", "stopping", "over"}]
  /\ owner \subseteq Hubs
  /\ session \in [Sessions -> [phase : Holding \cup Over \cup {"none", "dropped"},
                               hub : Hubs \cup {0}, noted : BOOLEAN]]
  /\ agents \subseteq Sessions /\ files \subseteq Sessions
  /\ recorded \subseteq Sessions /\ silent \subseteq Sessions /\ left \subseteq Sessions

\* No other hub, and no failure of its own, takes the files from an agent
\* whose hub is up and leaves it running: it has them, or it is stopped.  A
\* tmux that does not answer is not waited for, and between the two halves of
\* a failed Session::start the agent is without its files and about to end.
AgentsKeepFiles ==
  \A s \in agents \ silent : SessionPhase(s) \in {"lost", "dropped"} \/ s \in files

\* What no hub will remove any more is on record for the next one, whenever
\* hubs die; only a launch whose record was never written is not, and one
\* whose files could not be removed or read from the record.
LeftoversNoted ==
  \A s \in files \ left : SessionPhase(s) \in Holding \/ s \in recorded \/ ~session[s].noted

\* A session's temporary files are there exactly as long as they should be.
FilesFollowSessions == AgentsKeepFiles /\ LeftoversNoted
=============================================================================
