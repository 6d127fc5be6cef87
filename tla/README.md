# A TLA+ verification of alc

`alc` launches coding agents (Claude Code, Codex, Kimi, ...) against providers
they were not written for. It translates between their wire protocols in a local
*bridge*, shares running sessions with browsers and other terminals through a
*hub*, keeps a usage ledger, and installs and updates itself. This directory
holds TLA+ models of its concurrent and stateful parts, the TLC configurations
that check them, and theorems about ten of them that TLAPS proves. Paths below
are those of the repository; its code is under `src/src`.

1. [The system](#1-the-system)
2. [Modules and their correspondence to the code](#2-modules-and-their-correspondence-to-the-code)
3. [Runs](#3-runs)
4. [What is proved](#4-what-is-proved)
5. [What the code does not keep](#5-what-the-code-does-not-keep)
6. [What is not modelled](#6-what-is-not-modelled)
7. [Plan](#7-plan)

To check one model: `tlc -config MCCodexAuth.cfg MCCodexAuth`. To check the
proofs: `tlapm` on `CodexAuthProofs.tla`, `RuntimeUpdateProofs.tla`,
`BridgeStartProofs.tla`, `SessionStreamProofs.tla`, `PartsProofs.tla`, `FoldFacts.tla`,
`TurnTellingProofs.tla` and `TurnsProofs.tla`; the last two take about a quarter of an
hour each.

## 1. The system

### Components

| Component | Where | State | Operations | Modelled in |
|---|---|---|---|---|
| Codex login | `bridge/auth.rs`, `file_lock.rs` | `auth.json`, a cache and mutex per process, a sidecar lock file | `credentials`, `force_refresh`, the exchange with the issuer, the write-back | `CodexAuth` |
| Starting the bridge | `bridge_host/mod.rs`, `serve.rs`, `files.rs` | starting lock and takeover lock, owner lock, token file, port file, settings files | `ensure`, `take_lock`, `take_over`, `start_detached`, `run`, `bind`, `rotate_token` | `BridgeStart` |
| Serving | `bridge_host/serve.rs`, `observer_auth.rs` | activity clock, routes, logins, keys of forwarding routes, instance | a request and its guard, `watch_idle`, stop, `AppState` and `AuthManager` on first use, key registration | `BridgeServe` |
| Session output | `remote/session.rs`, `ring.rs`, `fanout.rs`, `server.rs`, `hub.rs`, `web/app.js` | emulator screen, replay ring, sequence number, subscribers and their queues, the page's cursor | `pump`, `broadcast`, `subscribe`, `catch_up`, `take_lagging`, reconnect | `SessionStream` |
| Install, update, rollback | `update.rs`, `runtime.rs` | front executable, retained generations, `active.json`, `activation.json`, `front.json` | `publish_and_activate`, `rollback_to`, recovery, dispatch | `RuntimeUpdate`, `Installation` |
| Translation of a turn | `bridge/messages.rs`, `chat.rs`, `responses.rs`, `code_assist.rs`, `gemini.rs`, `gemini_stream.rs`, `api.rs` | open blocks and calls, what was emitted, the cache of signatures | a provider's events in, each surface's frames out; the fold for clients that do not stream; what is sent back with the next turn | `Turns` and the modules it composes |
| Upstream transport | `bridge/upstream.rs`, `affinity.rs`, `models.rs`, `tiers.rs` | decode buffer, ready frames | retry on 401, SSE decoding, idle timeout | retry in `CodexAuth`, SSE in `Decoders` |
| Antigravity login | `bridge/agy_auth.rs`, `agy_upstream.rs` | agy's credential store, a lock file, a mutex, a remembered project | `token`, `renew_after_rejection`, running `agy`, `project_for` and the retries of a turn | `AgyRenew` |
| Hub and session lifecycle | `remote/hub.rs`, `local.rs`, `ctl.rs`, `tmux.rs`, `pane.rs` | registry, records of temporary files, ownership lock, tmux servers | start, create, end, detach, drain, clean up after a killed hub | `HubSessions` |
| Byte streams | `remote/scrub.rs`, `utf8.rs` | a held-back tail | push, flush | `SecretScrubber`, `Decoders` |
| Usage records | `usage/observer.rs`, `forward.rs`, `ledger.rs`, `records.rs` | one observation per request, an append-only ledger | closing an observation, appending, reading back | `UsageRecord` |
| Usage reading | `usage/native.rs`, `query.rs` | none of its own: the files of Codex and Claude Code, and the ledger | folding totals, joining copies, reconciling sources | `UsageReading` |
| Permission escalation | `remote/permission.rs`, `caps.rs` | request and grant files | mint, grant, redeem, sweep | no |
| Claude settings documents | `agents/claude_settings.rs` | settings files | write, follow the port | the port move is in `BridgeStart` |
| Launchers, catalogue, command line, dashboards, prices | `agents/`, `launch.rs`, `cli.rs`, `config.rs`, `tui.rs`, `dashboard/`, `usage/pricing.rs` | none shared | build an environment, draw a screen | no |

### How they interact

An agent's process runs with the bridge's address in its settings. Its turn
reaches `BridgeServe`, which builds the route and the login that the route
names, and holds an activity guard until the response body has been sent. A
turn on a Codex route asks the login's `AuthManager` for a credential
(`CodexAuth`), posts it upstream, and asks for one forced refresh on a 401; a turn
of Antigravity's asks for the token that `agy` keeps and has `agy` renew it
(`AgyRenew`). What comes back is cut into frames (`Decoders`), retold as Responses
events if it is not (`GeminiTurn`, `ApiTurn`), and from there told on the surface
the agent reads (`MessagesTurn`, `ChatCompletion`, `ResponsesRelay`,
`CodeAssistAnswer`); `Turns` is the composition. Upload and answer share the
observation that becomes a line of the ledger (`UsageRecord`), which `alc usage`
later reads together with the agents' own histories (`UsageReading`).
A credential helper asks for the
bridge (`BridgeStart`) and, for a provider with an API key of its own, registers
the key with it and hands out a credential sealed for that bridge instance
(`BridgeServe`). All alc processes meet in files: locks, the token and port
files, `auth.json`, the ledger, the hub's records, the install directory; there is
no other channel between them. The hub (`HubSessions`) creates sessions and mirrors
their terminals to viewers in threads (`SessionStream`).
`RuntimeUpdate` decides which executable a new invocation is, and so which
runtime namespace (`Legacy` or a `Generation`) its bridge and hub live in: that
is the constant `Legacy` of `BridgeStart`.

### What is hard about it

* *Processes without a coordinator*: every protocol between alc processes is
  carried by files and OS locks, with processes killed between any two writes.
* *Async cancellation*: axum drops a handler's future when its client goes away,
  wherever it waits; guards are released and locals lost.
* *One-time tokens*: the issuer retires a refresh token when it is exchanged.
  An exchange whose answer is lost cannot be repeated.
* *Shared-memory steps*: counters and stamps read one after the other
  (`Activity`), a ring and a sequence number written one after the other
  (`Session`), both without a common lock.
* *Bounded queues*: the fan-out drops frames rather than wait for a viewer.
* *Event protocols with optional parts*: tool-call arguments come as deltas, as
  one string, on the finished item, or as several of these; signatures ride on any
  part, and belong to the call behind it.
* *Several ends of one thing*: an upload, an answer, a client and a dropped
  reference each close a request; a hub, a tmux server and a guard each end a session.
* *Streams cut anywhere*: a credential, a character or a frame arrives in pieces.
* *Files written by others*: rollouts and transcripts are copied, forked, resumed and
  torn, and tell the same tokens several times.

### What makes each component correct

* Codex login: rotations never overlap; what is on disk can be used; no
  needless rotation; every waiting turn is answered.
* Starting: short of a kill, one starter holds the lock; one bridge serves a
  runtime and can be found; what is on disk is what it accepts; every asker
  gets a bridge.
* Serving: a bridge in use is not idle; one login has one manager; a key that
  works goes on working; a session gets its answer past restarts.
* Session output: no character below a page's cursor is missing from its screen; what a
  full queue refused is repaired; the last output arrives; the agent never waits.
* Updates: whatever was killed where, the next transaction accepts the files;
  what was replaced can be brought back; only a rollback goes back.
* A translated turn: well-formed frames on every surface; nothing lost, nothing
  twice; both forms of the answer say the same; what Antigravity signed comes back
  signed.
* Antigravity login: one `agy` at a time; the project named is that of the account
  that signs.
* Hub: an agent has its temporary files as long as its hub is up; what nobody will
  remove is on record.
* Byte streams: where a stream is cut does not show, and nothing waits that could be told.
* Usage: one honest record per request; no token counted twice, or for a model that
  did not use it.

## 2. Modules and their correspondence to the code

Every module declares its parameters as constants with named assumptions, has
one action per step of the code that another process, thread or task can come
between, and one `TypeOK`. Operators such as `LockFileUnlocked`, each *before*
the definition it would replace, are mistakes the code does not make; replacing
the definition by one of them makes TLC find the property that it is listed with
in `PROJECT.json` violated, which shows that the property depends on the code.

The specification of a module is `Spec`, except that the names of `BridgeServe`,
`AgyRenew`, `UsageRecord`, `HubSessions` and `SecretScrubber` carry a prefix
(`ServeSpec`, `RenewSpec`, `RecordSpec`, `HubSpec`, `ScrubSpec`, and so on):
`MCParts` extends all five, so that TLC checks the very definitions that the
theorems about them state.

### CodexAuth

`auth.json` is `file`, a token is the serial number the issuer gave it, a
credential an access and a refresh token. The issuer accepts the refresh tokens
in `live`; upstream refuses the access tokens in `dead`; `stale` ones are within
the refresh margin, and `Opaque` ones carry no readable expiry. Per process there
is an `AuthManager` with its `cached` credential and its `mutex`; `flock` is the
lock file.

A turn (`pc[t]`) takes the mutex, reads the file, and if what it read is not
fresh takes the lock file, reads again (`ReadSecond`: a sibling may have rotated
meanwhile), exchanges, writes back, posts, and on a 401 starts over once as
`force_refresh`. `IssuerGrants` and `WriteBack` are two actions: the grant is on
the wire in between, and there a turn can be cancelled, its process killed
(`Crash`), the connection cut (`NetworkFails`) or the disk full (`DiskFails`).
`CliExchange`/`CliWrite` are the Codex CLI, which rotates without taking alc's
lock. `Age` and `Revoke` wear tokens out at any time.

`lost` is a history variable: a grant was, or may be, kept from the file. Without
it `LoginLive` would have to say nothing about crashes at all; with it the
property says that *nothing else* can cost the user the login.

### BridgeStart

`Starters` are processes in `ensure`, `Servers` processes of `alc bridge serve`,
those in `ByHand` run by a user. The starting lock is a file created
exclusively; thirty seconds old it is `stale` and may be taken over under a
second file, `takeover`, which may itself become stale. A file's age is a flag
that `AgeLock` and `AgeTakeover` set some time after whoever created the file has
gone: no clock is modelled beyond that. (With the `slow` fault a starter gives up
at its deadline although its bridge is still on its way.) Each
system call on those files is a step: judging the lock stale, sweeping an old
takeover file, claiming, re-checking, overwriting. `owner` is an OS lock, so
`Crash` releases it. A server loads the token (`load`, `clear`, `create`), takes
the owner lock (one that finds it taken exits), and binds the remembered port. If
that belongs to a foreign program, a Legacy server moves to another one
(`BindChosen`), rotates the token (`RotateToken`) and rewrites the settings files one by one
(`MoveSettings`), in that order; a server of a `Generation` (`Legacy = FALSE`) never moves.
`settings` says which port each of the `Documents` names, `todo` which of them the move has
not come to yet. With the `unwritable` fault a file is not rewritten, and the move goes on to
the next one; with the `disk` fault the port or the token cannot be written, and the
server ends as `broken` (`BindFails`, `RotateFails`); it ends as well when no port is
free. `unmoved` is a history variable: the files that a move reported, and those that it did
not come to because it was broken off (`BreakOff`) by a failed rotation or a kill, with the port
file naming the new port already.

### BridgeServe

`inFlight` and `last` are `Activity`: `begin` raises the count and then stamps,
the drop of the guard stamps and then lowers it, and `watch_idle` reads the
clock, then the count, then the stamp: six separate steps. `busy` is the history
variable they are compared with: when a request was last in flight. The routes
and logins built on first use are numbers (`made`), so that two managers over
one file can be told apart. A bridge's `instance` changes with every start, and a
sealed credential names its instance.

A native session's helper reads the saved key (`Help`), is counted in flight like any other
request (`Register`, `Begin`, `End`), and enters its key under the lock of the entries (`Enter`):
a set of `Cap` keys refuses one more (`full`). What it has read is `helper`; it becomes the
session's `cred` when the registration was taken. The agent runs the helper on a 401, on a
connection that is refused, and, when its credential is a minute old, before a turn
(`Want`: `CLAUDE_CODE_API_KEY_HELPER_TTL_MS`). `Exit` is the end of the grace after a stop; `Crash` the end
without one. How a bridge starts is one step here: `BridgeStart` has the rest.

### SessionStream

The output is a stream of numbered bytes; a frame is a range, the emulator's
screen (`vt`) and a snapshot of it are prefixes. `got` is what `pump` has taken from the
scrubber: the ring, the sequence and every frame have all of it, the screen only what
`Utf8Chunker` made of it, which is the complete characters. `Complete` says where these end: of
the first n bytes, the first `Complete[n]` make complete characters, and up to three are
carried over. A viewer's view is a prefix with the flags `gap` (a character was missed),
`torn` (perhaps only the first bytes of one), `twice` and `resumed` (the hole lies below the
point a reconnect resumed from). `pump` has a step for each thing it writes that
a viewer may read in between: the screen (`fed`), the ring (`pushed`), `seq`
(`stored`), and one per subscriber it offers the frame to. At the end of the output
`DrawRest` draws what the chunker still carries. A viewer subscribes,
is stamped with a sequence, is sent a catch-up made of what the ring still has or
a snapshot, and then pulls its queue, checking its lagging flag when its wait
times out. `Drop` loses a connection and, if there is one, the frame on its way;
the page reconnects from `cursor` (`lastSeq` in `web/app.js`). `Masked` says
whether the scrubber may hold back a tail, `Watched` whether the session is a
`--tmux` one whose exit a watcher thread records.

### RuntimeUpdate and Installation

A build is its digest; one outside `Dispatching` is a release from before
generations, whose front ignores `active.json`. A transaction `tx` holds
`publish.lock` from `Read` to `Done`; each rename of a file is one step, and
`Crash` ends a transaction between any two of them, keeping what is on disk.
`FrontBusy` is Windows' refusal to replace an executable that runs. `Existing`,
`Compare`, `Retain`, `Publish`, `Mark`, `KeepFront`, `ReplaceFront`,
`RecordFront`, `Activate` and `Cancel` follow `publish_and_activate` and
`finish_activation`; `RollBack` and `Switch` follow `rollback_to`.

`Installation` is what the README of the repository promises of an install
directory: the build that runs is exchanged in one step, only a rollback goes
back, what is replaced is retained. `RuntimeUpdate` implements it under the
mapping `current <- Effective` (what the front is, or dispatches to), `retained
<- gens`, `established` once there is an `active.json`, and "a rollback is asked for" while a
rollback transaction runs.

### Turns

`Turns` is one turn from a provider to every surface. `wire` says whose it is; the
environment is the provider, whose utterances are kept in `item` (chatgpt.com's items,
which may be open side by side) or `said` (the parts of any other provider's answer);
`messages`, `chat`, `relay` and `agy` are the surfaces, which all hear the same
events, so that each can be held to what the provider said. A client really has one
surface. The modules it composes have no variables: each is a record for the `struct`
of the code, and operators from that record to the one after the method of the name.

* `ResponsesEvents` is the vocabulary (`UpstreamEvent`). Text and JSON are sequences
  of pieces: "x" of a text, "[" and "]" of an argument, which parses when it ends
  in "]". Everything else of an event that no property tells apart is left out.
* `ApiTurn` is `api.rs`: a provider's own stream on one of three wires (Chat
  Completions, Anthropic Messages, Responses) retold through the one `Emitter`.
* `GeminiTurn` is `gemini_stream.rs`: Antigravity's parts retold as items; a signature
  nobody has claimed waits for the call behind it (`unclaimed`), and the cache has one
  entry for each call, the oldest going first.
* `GeminiContents` is the way back (`gemini.rs`): the items a client sends with its
  next turn become parts, each with the signature it was sent with. Only the models of the
  `SigningFamilies` get a placeholder for a turn without any.
* `MessagesTurn` is `messages.rs`: open blocks by output index, and `Collected`, the
  fold that a client that does not stream gets.
* `ChatCompletion` is `chat.rs`, `ResponsesRelay` the sequencing and folding in
  `responses.rs`, `CodeAssistAnswer` the answer half of `code_assist.rs`.

`SignaturesReturn` closes the circle: what Antigravity said, told to a client, sent
back by it and translated again, carries the signatures it came with, or the placeholder,
for a model that signs and for one that does not. `Plain` excepts
the case of section 5, number 15.

### AgyRenew

agy's login is `login`, the number of a token in `issued`, which names the account that
was signed in when agy wrote it; `worn` tokens are stale and `refused` ones were
answered with a 401. A turn reads the login, joins its bridge's `flight` (the mutex),
waits for the lock file in a thread of its own (`thread`, `lock`), checks again, and
runs agy. `Cancel` drops the turn: its thread goes on and keeps the lock, which is the
point of the design. `Kill` ends a bridge: the OS frees the lock while its agy runs on
(`orphans`). `AgyEnds` writes a new token, or not; `LoginChanges` is the person signing
in as somebody else or out. `project` is what `project_for` remembers, and under which
token.

### UsageRecord

A request has a route (`via`: forwarded to a provider's own API, a Codex turn, a
translated turn), a `phase`, and an observation that its upload, its wait and its
answer share. `outcome` is what it was closed with, `first` what really ended it first
(history). `Happens` is `finish_at`: it wins once. `due` are records closed but not yet
appended; `Appends` writes a whole line at once, `Tears` is a line cut short, which takes
the one behind it with it, `ReadBack` is the set of the lines that `read_records`
makes a record of.

### HubSessions

Hubs are processes that start whenever somebody wants one, several at a time; `Owns`
takes `hub.owner.lock`, and the owner removes what the dead one before it left on record
(`ReapsFiles`, then `ReapsRecord`) before it listens; a record that does not parse goes
without its files (`ReapsGarbled`). A session is created in the steps
of `Hub::create` (`Prepares` its files, `Records` them, `Pane` for tmux, `SessionStart`), and
there are three ways back. Before there is an agent, `CreateFails` drops the files. When
`Tmux::create` refuses, the server is stopped first and the files go when `prepared` is dropped
(`CreateRefused`, `DropsPrepared`). When `Session::start` fails it is the other way round: the
guards are its own and go first (`StartFails`), and then its caller stops the server
(`StopsServer`). A session `Exits` at the end of its output, its
files go with its guards, its card and record later (`CardReaped`). `HubEnds` is any end of a
hub, a kill among them: its sessions' threads end with it (`lost`) and tmux agents
go on. `agents` are those alive, `files` the temporary files on disk, `recorded` those on
record. `silent` are the agents that a tmux which did not answer left running, `left` the files
that could not be removed (nobody looks at the result of `remove_file`) or not be read from their record.

### SecretScrubber

`values` are the credentials a launch put before its agent, `input` what the terminal has
put out so far, `buffer` what of it `push` holds back, `output` what the viewers were
given. `Matches` and `Masked` follow `matches` and the masking loop, `PartialMatchSuffix`
and `Held` the two reasons to hold something back; `Scrub` masks into a copy and `ScrubInPlace`
is the mistake that the comment in `push` warns of. `ScrubUnseen` compares every byte that
was let out with what `Masked` makes of the *whole* output so far.

### Decoders

Two machines that are fed a stream in pieces of up to `MaxChunk`: `Utf8Chunker` and
`SseDecoder`. `buffer` is what each holds back, `scanned` how far the SSE decoder has looked
for the end of a frame. Each is compared with a definition for the *whole* stream:
`Text` (which byte begins a character, by position) and `ParseSse` of all that lies before the
last blank line. `ByteStreams` has what the scrubber and the decoders both say about pieces.

### UsageReading

Here the state is what others wrote: `files`, the rollouts of Codex, row by row;
`transcript`, the rows of Claude Code; `ledger`, the responses that went through alc.
`spent` is what each response really cost (history). The actions are the writers:
`TurnBegins`, `Responds`, `Totals`, `Recounts`, `Copies`, `Asks`, `Tells`, `Repeats`, and a
row cut short (`Torn`). The reader is a function of that state, checked in every one:
`FoldCodex` is `fold_codex` with its eleven reasons not to trust a difference of totals
(`Doubtful`), `FoldSession` the choice among copies of a session, `InsertCodexRequests`
and `InsertClaude` how copies of one response are joined, `Reconcile` how the sources are
put together by the ids they share. The reader collects records in a list. Here they are a set in
which each record says where it is `from` (a rollout's row, a transcript's key or row, a line of the
ledger), so that the records of two copies of a row are two unless the reader makes one of
them. Dropping the test of a fork's own rows, or the one for overlapping copies, folding each copy
where the longest is to be chosen (`FoldSessionEach`), or joining no copies of a response:
each of the four breaks `CountedOnce`.

`CountedOnce` has three parts: the tokens counted are at most those spent, altogether and
for each model; so are those of all sources together unless some row is marked as
possibly overlapping; and a response that is told in full is counted in full.

## 3. Runs

| Run | Question | Properties | Instance |
|---|---|---|---|
| `codex_auth` | Do alc processes share one login safely, whatever is cut off? | `TypeOK LockInv LoginLive OnlyWornTokensRotate` | 2 processes, 3 turns, tokens 0-3, five faults |
| `codex_auth_live` | Beside the Codex CLI, is every turn answered? | `TurnsEnd` | the same turns, tokens 0-2, cancel, crash, CLI |
| `bridge_start` | Does the starting protocol survive kills? | `TypeOK StarterHoldsLock ServedWhereRemembered` | 3 askers, 1 spawned and 1 hand-run server, one port, every fault but those of a move |
| `bridge_start_moves` | Does everything follow a bridge that moves, and does everyone get one? | `TokenHeals SettingsFollow AskersGetBridge` | Legacy, 2 askers, 3 servers, two ports, two settings files, foreign listeners, files that cannot be written |
| `stream` | What do viewers see? | `TypeOK CursorHonest BrowserRepaired TerminalsSeeTheEnd` | a browser, a terminal, 3 bytes of which two are one character, queues and ring of one |
| `stream_live` | Does the agent ever wait, and do browsers catch up? | `AgentNeverWaits BrowsersCatchUp` | a browser, 3 bytes, a `--tmux` session with credentials to mask |
| `stream_resume` | Does a resume restore the view? (No: section 5.) | `ResumeRestores` | a browser, 3 bytes |
| `update` | Does an install directory survive kills, is it an `Installation`, and do updates land? | `TypeOK NeverWedged WayBack ReplacedKept EveryUpdateLands Implements` | 4 builds, 2 kills, from nothing or an old release, a front that may be loaded |
| `serve_live` | Do keys last and turns get answered past restarts? | `EarlierKeysWork TurnsAnswered` | 2 sessions, 3 keys, a route that takes 2, a stop or a crash |
| `turns` | Is a turn of any provider well formed, whole and the same in both forms on every surface, and does what was signed come back? | `TypeOK WellFormed ClientsSeeAll GatheredAgrees SignaturesReturn` | 5 wires, 2 items of 2 deltas, 4 parts or sayings, a cache of 2 |
| `parts` | Seven parts that share nothing (serving and Antigravity with two instances each), in one run | `TypeOK SharedLogin OneAgy ProjectIsOwn LedgerTrue FilesFollowSessions ScrubUnseen ChunkingUnseen CountedOnce IdleStops` | below |
| `scrub_nested` | Is a credential masked that has another one inside it? (No: section 5.) | `ScrubUnseenNested` | every one or two credentials of up to four letters, output of six |

`parts` holds nine instances one after the other: `part`, chosen by `Init`, says which one
moves, and each property is about one part. `crowd` is three coders on two routes over one login,
`pair` one on each route while the clock goes on and the bridge stops and comes back; `three` is two turns of one bridge and one of
another on one Antigravity login, with accounts changing and nobody refused or giving up; `two` is one
turn of each bridge, with every fault. The others are a request of any route and a translated
one of another process; three hubs, a pty and a tmux session, with every fault; the scrubber; the
two decoders; and the histories. `LedgerTrue` is `OneHonestRecord /\ RecordsSurvive` of
`UsageRecord`, `FilesFollowSessions` is `AgentsKeepFiles /\ LeftoversNoted` of `HubSessions`,
and the `TypeOK` of the run is that of the part that moves.

Deadlock checking is off in every configuration, since all of these systems may
stop: turns are answered, an agent's output ends, a bridge exits, an upstream
finishes. That nobody waits for good is stated by the liveness properties.

### Bounds, and why they are enough

* `codex_auth`: two turns of one process meet in the mutex, a third turn of
  another process in the lock file; a rotation by each of two turns and one more
  need three new tokens (`MaxToken`). `Opaque = {2}` puts the unreadable expiry
  on the second rotation. The live run has one token less because it adds the
  CLI, whose rotations take tokens as well.
* `bridge_start`: two askers race for the lock while a third finds it stale. One
  port is enough because in a `Generation` scope nobody moves. Two servers race
  for the owner lock. `bridge_start_moves` has the second port for a move, a
  third server for the one that starts after another has moved, and tokens for
  every mint and rotation. Of two settings files one may fail and the other follow, in
  either order; a server may break off after the port file was written, and the next one serve
  there.
* `stream`: three bytes are one that is drawn, one that is lost and one that
  follows; a queue of one frame is full at once; a ring of one byte has lost what
  a cursor two bytes back asks for. The first two bytes are a character, read whole or
  in two. In `stream_live` the ring holds two bytes, so
  that a delta and a snapshot both occur.
* `update`: `MCVersion` has an old release, two builds of one version and a newer
  one, and two of the builds share a short id. Two kills are needed to kill the
  recovery of a killed transaction.
* `serve_live` has one key more than the route takes: when both sessions have registered the
  first two, the third is refused. The clock goes on only in a grace, of one unit (`ClockRunsInGrace` constrains
  the steps of the clock, of which only those of a grace are fair): requests end in it, or are cut at its end. The idle stop is in `parts`.
* `turns`: two items are enough to overlap, to finish in another order than
  they began, and for one to be hidden from the client; an argument in two pieces
  can be broken off between them. Four parts are a signed thought, a call, and another pair;
  three signed calls overflow a cache of two. Four sayings interleave two calls' arguments.
* `parts`, Antigravity: two turns of a bridge meet in the mutex, one of another in
  the lock file; the second token is the renewed one and may be another account's; each kind of retry happens once.
* `parts`, ledger: two lines and one cut short are every way of being next to a torn one.
* `parts`, hubs: the third hub cleans up after a second one that died while it cleaned up after the
  first. Each of a launch's steps may fail, and each removal of files.
* `parts`, serving: two sessions share a route, a third comes by another route to the same
  login; with two, three clock units leave room for an idle period of one before and after a turn, and
  for the clock to move between the reads of the idle check.
* `parts`, scrubber: one or two credentials of one to four letters (one is too short to be
  masked), overlapping themselves and one another or one inside the other, in every output of
  up to six bytes. `scrub_nested` has a letter more, which is in no credential.
* `parts`, decoders: for UTF-8, every five bytes, which are a broken character of four bytes
  and the start of another; for SSE, six of data and event lines and line ends of either kind.
  Pieces have one to three bytes, so that every cut is made, those inside a credential, a
  character or a blank line among them.
* `parts`, histories: two models; four rows or responses after a usual beginning (or none) and
  one oddity: a copy or fork of any prefix, resumed; a torn row; a total overwritten or begun again;
  a request id used twice; a row repeated. Four are a turn of another model, a response, a total
  and one thing more. Codex alone, without alc's ledger beside it, is left to `Within(native)`, since no two of its rows share an id.

### Fairness, and why the code justifies it

* `CodexAuth!FairSpec`: weak fairness of each turn's own steps. The runtime polls
  ready futures, the exchange has a timeout (`REFRESH_TIMEOUT`, the answer or
  `NetworkFails`), waiting for the lock file has one (`LockTimeout`), and tokio's
  mutex wakes waiters in order. Nothing is asked of clients, of the CLI or of faults.
* `BridgeStart!FairSpec`: the OS runs every process, and its waits have deadlines.
  Kills, stops and listeners are not fair, and no aging is needed.
* `SessionStream!PumpFair`: the pump thread runs; the agent may never write again.
  `BrowsersCatchUp` has fairness of the viewers' threads as its *premise*
  (`ViewersRun`), so that `AgentNeverWaits` is checked with viewers that stop
  anywhere.
* `RuntimeUpdate!FairSpec`: a transaction that is not killed goes on; and *strong*
  fairness of starting an install of each offered build, which says that somebody
  keeps retrying and gets the (blocking) lock again and again. Both
  liveness properties have a premise: the front is not loaded again and again
  (`FrontComesFree`: Windows refuses to replace an executable that runs), and for
  `EveryUpdateLands` rollbacks cease, as they must.
* `BridgeServe!ServeFairSpec`: agents and their helpers go on, a stopping bridge exits,
  and the clock runs while a grace does. Stops and crashes are bounded
  (`MaxStops`), which is what lets a turn be answered in the end.

## 4. What is proved

TLC checks the instances above; the theorems hold for every number of processes,
turns, viewers, builds, tokens and crashes, and for every set of faults. They use only the
named assumptions on constants, which TLC evaluates in the runs, except for the four
that state a hypothesis of their own in the tables below. Each of these hypotheses excludes
a behaviour of the code for which section 5 has a counterexample: without it the
theorem would be false.

`CodexAuthProofs`:

| Theorem | Statement |
|---|---|
| `TypeCorrect` | `Spec => []TypeOK` |
| `RotationsSerialised` | `Spec => []LockInv` |
| `LoginStaysLive` | `Spec => []LoginLive` |
| `WornOnly` | `Spec => OnlyWornTokensRotate` |

`LoginLive` alone is not inductive: the step that writes a grant to the file makes
the file's token the grant's, so one has to know that the grant is still live at
that moment. `Carried` says so (what a turn carries between two steps is a
credential, and a grant that is on the way is live unless a loss is on record), and
`CliGrantLive` the same for the CLI. That no *other* rotation has retired the grant
meanwhile is what the locks are for: `OneGranted` derives from `LockInv` that two
turns in the locked section are one. `IInv` is the conjunction, with one step per
action in each of `TypeStep`, `LockStep`, `CarriedStep` and `LiveStep`. `WornOnly`
adds `WornInv`: whatever a turn is about to exchange was worn when it decided to,
and tokens stay worn.

`RuntimeUpdateProofs`:

| Theorem | Statement |
|---|---|
| `TypeCorrect` | `Spec => []TypeOK` |
| `Repairable` | `Spec => []NeverWedged` |
| `PreviousThere` | `Spec => []WayBack` |
| `ReplacedStays` | `Spec => ReplacedKept` |
| `InstallationImplemented` | `Spec => Implements` |

`NeverWedged` speaks of the files only; a step is right because of what the
transaction has established before it. `Progress` records that, step by step;
`Settled` says that `active.json` never exists without a recorded front, and `Kept`
that from the first marker on the front is one of the retained generations. For the
refinement `Newer` is added: once an activation has been finished, a pending one is
never older than the active build. It is not true before, which is why
`Installation` promises to go forward only once it is `established` (section 5,
`NoDowngrade`).
`AbstractInit` and `AbstractStep` map the initial states and each action.

`BridgeStartProofs`:

| Theorem | Statement |
|---|---|
| `TypeCorrect` | `Spec => []TypeOK` |
| `Found` | `Spec => []ServedWhereRemembered` |
| `StarterHolds` | `Spec => []StarterHoldsLock` |
| `OneAtATime` | `Spec => []((\A q \in Procs : pc[q] # "killed") => OneStarter)` |
| `SettingsAreMoved` | `Spec => []SettingsFollow` |
| `TokenIsHeld` | `Spec => []TokenHeals`, if `"blank" \notin Faults` and, where a bridge can move (`Legacy`, `"other" \in Faults`), none is stopped or killed |

`Found` follows from two facts about every server, not only the serving one:
`OwnerInv`, that a server has the owner lock exactly from its bind to its end, and
`ListenInv`, that from its bind on it listens where the port file says. The port file
changes in `BindChosen` alone; `OwnerInv` makes the server that changes it the only one
past the owner lock, so that nobody else's port is forgotten. Both hold with kills,
stops and foreign listeners. `StarterHolds` is about runs without a kill (`Calm`, which
`CalmBefore` carries backwards over a step). Then a lock is stale only when its maker
has ended (`LockInv`), the takeover lock exists exactly while a taker works under it and
is never stale, nobody sweeps it, and what a taker overwrites is stale
(`TakeoverInv`): what it overwrites is therefore nobody's who is still starting. The same
invariant gives `OneAtATime`, the part of `OneStarter` that the code does keep (section 5,
no. 4: with a kill it does not).

`SettingsAreMoved` needs no hypothesis. `SettingsInv` says of a settings file that does not name
the port file's port, and that no move reported or broke off before, that a server on the move has it
before it (`Unsettled`) and knows the port that it names; `OwnerInv` makes that server the only one
that can move. `MovesApart` is for the steps that come nowhere near the settings, `BreakOffKeeps` for
the two that end a move: what the server had before it goes into `unmoved` in the same step.

`TokenIsHeld` rests on `TokenInv`: whoever has loaded the token holds the one on disk, or
has lost the runtime to an owner that may move. The second case is the window of section 5,
no. 5, which opens when that owner goes; so where a bridge can move the theorem asks that
owners stay, and in a `Generation`, or where no foreign program takes ports, it allows every
stop and kill. That an owner does not end by itself is a fact of its own: `BoundInv`
says which programs hold a port, so that `BindRefused` cannot happen to the only server past
the owner lock. The hypothesis on `"blank"` is no. 6.

`PartsProofs`, serving:

| Theorem | Statement |
|---|---|
| `ServeTypes` | `ServeSpec => []ServeTypeOK` |
| `EarlierKeysKept` | `ServeSpec => []EarlierKeysWork` |
| `LoginShared` | `ServeSpec => []SharedLogin` |
| `IdleIsIdle` | `ServeSpec => IdleStops` |

`ServeTypeOK` bounds the count of requests in flight, which is not inductive: `FlightInv`
says that the count *is* the number of sessions between `begin` and the drop of their
guard, wherever a turn is cancelled or a bridge exits. `IdleIsIdle` is about `watch_idle`
reading the clock, the count and the stamp at three times. `ClockInv` has what makes
this right: a request that has stamped on its way out finds the stamp at the present until it
lowers the count; with nothing in flight the stamp is no older than the last request; and from
the moment the count was read as zero, the stamp, read later, can only be newer than what
was in flight before. `LoginShared` needs that a route's state, built outside the lock and
perhaps not put in, has the manager of its login file all the same (`LoginInv`);
`EarlierKeysKept` that a credential of the running instance names a key of its route, and a
registration that was taken one too, before its helper hands it out (`KeyInv`): a full set
refuses a new key, it never drops an old one. A registration under way is of the running instance,
because a bridge that goes down cuts all of them (`Cut`); a helper's request and a turn end by the same
steps (`Ends`).

`SessionStreamProofs`:

| Theorem | Statement |
|---|---|
| `StreamTypes` | `Spec => []TypeOK` |
| `CursorIsHonest` | `Spec => []CursorHonest`, if `~Masked` |
| `BrowsersAreRepaired` | `Spec => []BrowserRepaired`, if `~Masked` |
| `TerminalsReachTheEnd` | `Spec => []TerminalsSeeTheEnd`, if `~Watched` |

They hold for any output, cut into characters of up to four bytes anyhow (`CompleteAssumption`).
`PumpInv` says where the screen, the ring and the sequence stand at each step of the
pump: the steps in which they differ are those in which a viewer may read them. Its part
`ScreenInv` is about the carried bytes: the screen has each character that is complete up to the sequence,
and no more than these before the end. `CursorInv`
adds that a catch-up is stamped with a sequence whose complete characters have been drawn. Section 5, no. 7 is the
step where it is not: with a masked tail the sequence is stored first. `BrowserRepaired` has the
same hypothesis because a page that resumes from such a cursor has a hole that nothing flags.
The hard part is `FollowInv`: the queue of a viewer that is not flagged as lagging continues
what the viewer shows without leaving out a character (`Continues`) and reaches the last complete one of
the session's sequence, or of the frame that is being offered (`Reaches`, `Bound`). The lemmas on `Continues` and `Reaches` say what
appending a frame, dropping the first one and writing a catch-up do to a queue, by index,
without induction over sequences. `TerminalInv` says that once a terminal is told that the
session has ended everything was offered; no. 11 is the watcher that says so earlier.

`PartsProofs`, Antigravity's login:

| Theorem | Statement |
|---|---|
| `RenewalTypes` | `RenewSpec => []RenewTypeOK` |
| `OneAgyAtATime` | `RenewSpec => []OneAgy` |
| `ProjectsAreOwn` | `RenewSpec => []ProjectIsOwn` |

`OneAgy` follows from `LockInv` (at most one turn holds the lock file) and
`ThreadInv` (a thread that runs `agy` is the holder's, also when its turn has gone).
`ProjectIsOwn` needs that a token never changes accounts, so that `ProjectInv` (what is
remembered is the project of the account whose token it was fetched with) outlives
every change of the login, and `SignedInv` for what a turn carries between taking its
token and sending.

`PartsProofs`, hubs:

| Theorem | Statement |
|---|---|
| `HubTypes` | `HubSpec => []HubTypeOK` |
| `FilesKept` | `HubSpec => []FilesFollowSessions` |

The step that matters is a hub removing recorded files (`ReapsFiles`): they must be
nobody's. `OwnerInv` says that a hub that cleans up or serves holds the ownership lock,
`HoldInv` that a session that holds files belongs to a hub that is up; so while one
hub cleans up no session holds any. `FilesInv` and `AgentInv` say where files and
agents can be, hub by hub; `FilesInv` leaves out the files in `left`, which nobody will
remove, and `AgentInv` admits the agent that a failed `Session::start` has dropped and its caller is about to
stop. A record may go without its files (`ReapsRecord`, `ReapsGarbled`): they are in `left` then.

`PartsProofs`, the ledger:

| Theorem | Statement |
|---|---|
| `RecordTypes` | `RecordSpec => []RecordTypeOK` |
| `LedgerTold` | `RecordSpec => []LedgerTrue` |

`ClosedInv` says that a request is closed by the first thing that ends it and keeps that
outcome; `LedgerInv` that a closed request is due, written, or of a process that died, never two
of these, and is written once. Its upload, its wait, its answer and the drop of the last
reference all go through `Happens`; `Changes` is what their steps have in common.
`RecordsSurvive` compares two cardinalities, the records lost and the lines cut short, so it
needs an injection: a line that reads as nothing is the cut one or the one right behind it
(`LostBehindTorn`), and `TornInv` has the cut ones counted.

`PartsProofs`, the secret scrubber:

| Theorem | Statement |
|---|---|
| `ScrubTypes` | `ScrubSpec => []ScrubTypeOK` |
| `CutsUnseen` | `ScrubSpec => []ScrubUnseen` |

They hold for any letters, any set of credentials however they overlap, and pieces of any length.
`ScrubUnseen` compares what was let out with a masking of the whole output that did not exist when
it was let out: what must be known is that nothing which comes later makes a credential of a
byte that has gone. `CrossInv` says so for the boundary up to which output was let out: a credential that
crosses it differs from a byte already read, or ends inside another one that begins exactly at the
boundary, which is held whole. The first alternative is what `PartialMatchSuffix` is for (what
is no prefix of a credential cannot become one, `PartialIs`), the second what `Held` does to a match that the
boundary would cut (`HeldIs`). `CrossMoves` is the step from one boundary to the next; a hold that
shrinks, section 5, no. 2, is excluded there by `Nested`. The definitions are about sets of
spans; `MatchesAre` and `MaskedIs` turn them into statements about bytes by their place, and the
least and the greatest number with a property (`LeastOf`, `MaxOf`) come from the
well-foundedness of the naturals, in its form for sets, which the provers can use.

`TurnsProofs`, on `TurnTellingProofs` and `FoldFacts`:

| Theorem | Statement |
|---|---|
| `TurnInvariant` | `Spec => []TurnInv` |
| `TurnsTypeOK` | `Spec => []TypeOK` |
| `TurnsWellFormed` | `Spec => []WellFormed` |

They hold for every set of wires and items, and any number of deltas, parts, sayings and pings; a call
may have an argument of two pieces (`MaxPieces \in Nat \ {0, 1}`). `WellFormed` speaks of
streams that are finished or may be cut off anywhere, and is not inductive: that a delta goes to
a block which has been started and not stopped depends on what the surface believes to be open.

* Each surface has an invariant of its own, which relates its record to the stream that it has
  emitted. `MessagesInv`: every block in `blocks` has been started in the stream as what it is, and not stopped
  (`Live`), every block that was started is in `blocks` or stopped, and `next_index` is the number
  started (`FramesInv`); the lemmas on frames (`Follows`) say which frame may come next. `ChatInv`: calls are
  announced in the order of their positions, before any argument. `RelayInv`: sequence numbers count
  the stream, and an item is announced once.
* A provider's event is `Legal` in a state of its items if it is one that the translator, or chatgpt.com, may
  send there: an item is announced that is not open, a thought goes to an open reasoning item.
  `Shows` says that every open block belongs to an open item of its kind. Each surface keeps its
  invariant under every legal event, and a final one ends it as `EndedFrames` and its likes
  demand (`close_blocks` by induction over the blocks that are still open).
* A translator tells several events in a step, which the surfaces then hear one after the other.
  `Telling(out, open, n)` says that surfaces which heard all of `out` would be right, and would have only
  the translator's one open item (`open`) open; every operation of `ApiTurn` and `GeminiTurn` keeps it, so that
  a step of `Turns` is right if its translator's is.
* `TurnInv` puts this together: `CodexLive`, `GeminiLive` or `ApiLive` while the turn goes on, and
  `TurnOver` behind it, whichever end it came to. `TypedTurn` has the environment's part, and that the
  cache of signatures stays within `Capacity` (`KeepingIs`: moving an entry to the end adds none).

What the surfaces hear is a `FoldLeft` over events. Its definition goes through a fold over sets by
a recursive function whose value no installed prover computes by itself, and the library's theorems for
it take an operator. `FoldFacts` has the operator as the *constant* of a module that is instantiated
for each operator folded: a fold of the empty sequence is the base, and of a longer one the operator on
the fold of its front and its last element. It rests on an induction over the naturals for properties that are
*sets*, from the well-foundedness of `<`.

The attempts changed the models in places where the definitions could not be reasoned about: `Put` and
`InOrder` for the maps by index, instead of `@@` and a sort of the library; `IF` where a `CASE` had
guards that overlapped and so said only what TLC makes of their order; and in `EndedFrames` that *each* block
started is stopped later, instead of that as many are stopped as were started.

Only model-checked, and why:

* All liveness (`TurnsEnd`, `AskersGetBridge`, `AgentNeverWaits`, `BrowsersCatchUp`,
  `EveryUpdateLands`, `TurnsAnswered`): the prover has no rules for `ENABLED` and fairness.
* `ClientsSeeAll`, `GatheredAgrees` and `SignaturesReturn`. They compare what a client makes of a whole
  stream, by flattening, filtering and folding it, with what was said, by other folds: each needs an
  induction over the data of every one of those functions, beyond the shape of the streams that `TurnInv` has.
* `ChunkingUnseen` and `CountedOnce`. The usage reader is a fold over rows, several levels deep, and the decoders
  are recursive operators, with which the prover loses its SMT backend.
* The `TypeOK` of `parts` for the decoders and the histories, which stand in the same modules; for its other
  parts it is `ServeTypes`, `RenewalTypes`, `RecordTypes`, `HubTypes` and `ScrubTypes`.

## 5. What the code does not keep

These are statements of the repository's comments that the models contradict. The
first two are runs of their own (`stream_resume`, `scrub_nested`). Those up to 14 are definitions in the
modules; to see a counterexample, take the configuration named, put the property
there alone, and change the constants given.

1. **`ResumeRestores`** (`stream_resume`). `remote/ring.rs:6-7`: "replaying exactly
   that delta restores the view". The page stores the sequence of every frame it
   draws, also of one that follows a dropped frame. If the connection goes before
   `take_lagging` (`remote/server.rs:903`) sends the refresh, the page resumes beyond
   the hole, its new subscription has no flag, and the hole stays.
2. **`ScrubUnseenNested`** (`scrub_nested`). `remote/scrub.rs:89-96`: what `push` holds back is a suffix
   that may begin a credential, and "a complete match the emit boundary would cut in half"; the comment at
   119-122 and the test `a_secret_inside_a_longer_secret_survives_a_chunk_boundary` want the
   outer bytes of a credential that contains another one masked. A complete match that lies inside the
   held suffix ends behind the boundary too, so the hold is set to its start (108-115) and shrinks: with
   the credentials `aa` and `baaa`, the chunk `baa` lets out the `b`. The test cuts the output
   before the inner one is complete, where it is right. `ScrubUnseen` is what holds otherwise.
3. **`GuardHeldThroughWriteBack`** (`MCCodexAuth.cfg`, `Faults = {"cancel"}`).
   `bridge/auth.rs:188-189`: "The returned guard stays held through the issuer exchange
   and atomic write-back." The guard is a local of a future that is dropped when the
   client goes away: a turn cancelled after the issuer has granted leaves the retired
   token on disk and the new one nowhere.
4. **`OneStarter`** (`MCBridgeStart.cfg`, four starters, one spawned server,
   `Faults = {"crash"}`). `bridge_host/mod.rs:342`: "one taker at a time". A takeover file left by
   a killed taker is removed by name: a second taker that judged it dead earlier
   removes the fresh one of a third, and both start a bridge. The owner lock then
   leaves one of them (`ServedWhereRemembered` is checked with kills).
5. **`TokenHeals`** after a stop (`MCBridgeStartMoves.cfg`, `Faults = {"stop",
   "other"}`, `SPECIFICATION Spec`). `bridge_host/files.rs:106-108`: "rotating heals on its own". `run`
   (`serve.rs:639`) loads the token before it takes the owner lock. In the Legacy scope a
   server may load it, another one then take the lock, move, rotate and stop, and the
   first go on to serve with the token it loaded; the one on disk is refused. A kill of the
   second does the same. `TokenIsHeld` is what holds otherwise.
6. **`ClearsOnlyBlank`** (`MCBridgeStart.cfg`). `bridge_host/files.rs:92-93`: "nothing is
   mid-write here and clearing it is safe". Clearing removes the name: of two loaders
   that saw an empty file, the slower removes the token the faster has minted, and
   a bridge that has loaded that one serves with a token nobody finds (`TokenHeals`).
7. **`CursorHonest`** with `Masked = TRUE` (`MCSessionStream.cfg`). `web/app.js:952-954`
   avoids a cursor that "claims bytes the terminal has not written". At the end of a
   session `pump` stores the sequence of the scrubber's tail (`session.rs:397`) before it
   draws it (line 401). A page that reconnects from that cursor has a hole which is not
   flagged, so that `BrowserRepaired` fails there as well.
8. **`WrittenOnce`** (`MCSessionStream.cfg`). `serve_websocket` subscribes
   (`server.rs:828`) before it reads the catch-up (line 843): what is broadcast in between is
   in both, and is written twice.
9. **`TerminalRepaired`** (`MCSessionStream.cfg`). `remote/fanout.rs:10-12`: "the
   subscriber's own thread notices, clears it, and asks for a fresh screen snapshot".
   `relay_terminal` never reads its flag.
10. **`ViewersTold`** (`MCSessionStream.cfg`). `remote/session.rs:465`: "only after every
    viewer has been told the session ended". The exit and close frames are offered like
    any other and a full queue refuses them too.
11. **`TerminalsSeeTheEnd`** with `Watched = TRUE` (`MCSessionStream.cfg`).
    `remote/hub.rs:412-414`: "a session records its exit only after broadcasting its last output".
    In a `--tmux` session the watcher records it (`session.rs:257`) while `pump` may still
    have output to read.
12. **`NoDowngrade`** (`MCRuntimeUpdate.cfg`, `SPECIFICATION Spec`). `update.rs:211`: an
    older release is "nothing to do". Before the first activation is finished,
    `publish_and_activate` takes the marker's `previous` for the installed build
    (`update.rs:1044`), so after a killed first transaction an older payload may replace a
    newer front.
13. **`TurnKeepsBridgeUp`** (`MCBridgeServeLive.cfg`, `SPECIFICATION ServeSpec`,
    `MaxTime = 2`, no constraint). `bridge_host/serve.rs:81-82`: "Zero while any
    request ... is in flight". `idle_for` reads the count before the stamp, and `begin`
    raises the count before it stamps: a turn between the two reads is seen by neither.
    `IdleStops` is what does hold.
14. **`CharactersWhole`** (`MCSessionStream.cfg`). `remote/utf8.rs:8-14`: the bytes of a
    character "unlucky enough to land on a boundary" of two reads are held back "until the rest of the
    character arrives", so that what "the browser is served later" has it whole. While half a
    character is carried (`session.rs:361-366`), the ring and the sequence get it all the same (lines
    367-374) and the screen has not. A snapshot taken then (`catch_up` without a cursor, or
    with one that the ring has lost) is sent
    under a sequence past that half. No later frame repeats it: the page gets the second half alone, and
    neither a flag nor a reconnect repairs it. What `CursorHonest`, `BrowserRepaired`,
    `TerminalsSeeTheEnd` and `BrowsersCatchUp` say is therefore about characters that are complete up
    to the point they speak of, and lets the first bytes of one be missing.

What follows is less than a broken promise, but a reader of the code would want to know
it. The models contain all of it; the properties except it where they say so.

15. A loose signature, then a signed thought with text, then an unsigned call: the cache
    keeps the first signature for the call (`gemini_stream.rs`). `Plain` excepts it.
16. After a restart of the bridge a Messages client that sends back a signed thought and a
    call leaves the first call without a signature and without the placeholder, which the
    header of `gemini.rs` speaks of.
17. Text that only `output_text.done` tells is lost on `/v1/messages` and for agy;
    `chat.rs` alone tells it, and only while no delta has come.
18. A stream that just stops is told as a normal end by `code_assist.rs` and
    `/v1/messages`, and, after some output, by the translators of `api.rs`.
19. `code_assist.rs` takes a call's arguments from the finished item only.
20. A killed `alc` frees the lock file while its `agy` runs on, and another one may start;
    an `agy` that renewed the login but ends with an error or past its time is
    reported as a failed renewal.
21. An upload that breaks after an early answer makes the record `Truncated` although the
    answer completes, and so does a stream past the frame limit; a Codex turn that a frame
    which is not JSON (or `[DONE]`) ends is recorded as `Cancelled`.
22. A tmux agent that outlives a killed hub loses its temporary files to the next one. A hub
    killed before the record is written, or unable to write it, leaves files nobody removes.
    When tmux does not answer the pump's question, the agent goes on without its files.
    So does one whose `Session::start` failed: the files go before the server is stopped
    (`hub.rs:606-628`), and if the hub is killed in between, or tmux does not answer, the agent runs on.
    The next hub removes a record whether its files went or not, and one that does not parse with its files
    untouched (`hub.rs:763-767`): nothing names them any more.
23. A rollout whose row with the new model was torn has its later tokens counted for the
    turn before (`fold_codex`); `misled` excepts it.
24. A move that is broken off after the port file was written, by a token that cannot be written
    (`serve.rs:725`) or a kill, leaves the settings files it had not come to at the old port, and so does a
    file that could not be rewritten: "nothing ever tries again" (`files.rs:592-596`), since the next bridge
    finds its port remembered and does not move. `SettingsFollow` excepts these files (`unmoved`), and no others.
25. A forwarding route that has 256 keys refuses a new one (`serve.rs:493`) as long as its bridge runs, so
    a session whose user has saved a 257th is not answered until a bridge starts afresh; running the helper again
    does not help. `TurnsAnswered` excepts it (`Full`).

## 6. What is not modelled

* In `CodexAuth`: the JWT (reduced to whether a token is worn or unreadable), HTTP
  headers, the account id.
* In `BridgeStart`: the other settings of `remote/settings.rs`; the observer's server,
  which follows the same steps. That fifty tries may all meet a port that is taken just then is
  modelled as no port being free. What cannot be written is the port or the token of a server that moves or chooses
  a port; a loader that cannot write a first token gives up before it holds anything.
* In `BridgeServe`: header checks; agy's login state, which is built like the Codex one.
* In `SessionStream`: notices, titles, input and resize frames, which carry no output;
  sockets that block half-way through a frame count as slow.
* In `RuntimeUpdate`: downloading, checksums, archive validation and signatures, which
  decide whether a transaction begins; the installers' shell, which calls it;
  `claim_namespace`.
* In `Turns`: event kinds that change nothing, empty deltas of chatgpt.com's, usage counters,
  images, and the request half apart from a turn sent back to Antigravity; an
  upstream that announces an item after text for it (`open_text` would replace the open block;
  no upstream is known to send that). `code_assist.rs`' `translate_contents` is not modelled: there
  a cancelled call without an id keeps its minted id at the head of the queue, so that the
  answer to the next call of that name goes to it. Signatures of another model
  than the turn's are not modelled. Which family a model is of is a parameter of `Contents`, not of a
  turn. `ChatCompletion` has the status of a final event, a failure told as a completion among them; no
  upstream of `Turns` sends such a one. A client that hangs up drops the turn.
* In `AgyRenew`: finding `agy` and reading its store on each platform.
* In `UsageRecord`: the counters in a record; a record whose process dies before the append is lost.
* In `HubSessions`: the start lock of `spawn_or_join` (hubs may start at any time, which is
  more), joining and listing, Windows' panes. A session's
  card to outlast the drop of its guards (`LINGER` is minutes). A graceful stop may come before guards ran, and an
  agent in tmux that ignores the hangup outlives it; `HubEnds` covers both.
* In `Decoders`: the exact letters; the longest a frame or a credential may be.
* In `UsageReading`: rows whose times are out of order, copies of one response that disagree,
  responses without an id, rows that are too long to read, placeholders of API errors; prices,
  quotas, time ranges and layout, which are sums for one question that nobody keeps.
* Permission escalation (`permission.rs`): an authorisation gate of one file per ticket. That two
  requests which redeem one grant at once are told apart is not shown.
* The choice of model and tier and session affinity (`models.rs`, `tiers.rs`, `affinity.rs`): maps
  from a request to a header.
* Altogether: command-line parsing, dialogs, dashboards, reports and prices (one user at a time and
  no shared state), the launchers (they build an environment and start one child), Claude's settings
  documents, terminal emulation, the
  installers' scripts, the site and the static data. These, and tests, are most of the repository's
  lines; the modules cover the part with state that outlives a call.

## 7. Plan

The parts above came first because a user loses most when they go wrong: the login,
the installation, the bridge every session depends on, the output of a session, the
answer to a turn. Then came the composition of a turn over all providers and surfaces, the
second login, hubs, the ledger, the decoders and the reading of histories. What is left, in this order:

1. The request half of the translators (`code_assist.rs`, `messages.rs`, `chat.rs`), composed with
   the answers as `GeminiContents` is.
2. `claim_namespace` of `runtime.rs`, beside `RuntimeUpdate`, and the redemption of permission
   tickets (`permission.rs`).
3. An abstract *shared login* that `CodexAuth` and `AgyRenew` both implement.
4. The idle timeout and the retries of `upstream.rs` in front of `Decoders`.
5. Liveness of `AgyRenew` and `HubSessions`: every turn is answered, every session's files go
   in the end if hubs are started again.

Theorems worth proving next, in the modules there are: that `AgyRenew` and `CodexAuth`
implement the shared login of no. 3; what the code keeps of `GuardHeldThroughWriteBack`,
`NoDowngrade` and `WrittenOnce` under the hypotheses that section 5 suggests; and that every file of a dead
hub is on record as an action property of `HubSessions`, step by step.
Runs are kept to one for each question: as modules are added, properties of one
component that share an instance stay in one run, and small parts share `parts`.
