# Hidden: a verification development

*Hidden* is a two-player game over the web: both players fill their own copy of
a board without seeing the other's, pieces that meet fight, lines unlock
power-ups. A Node server keeps every match and is the only authority over it;
the browsers replay its decisions with the same rules package. This directory
holds TLA+ models of the parts whose correctness depends on order, time and
loss, TLC configurations that check them, and TLAPS proofs. Line numbers refer
to the repository as it stands under `src/`.

Contents: 1 the system, 2 the modules, 3 the runs, 4 fairness, 5 the proofs,
6 what the models leave out, 7 findings and remarks, 8 the plan.

## 1. The system

| Part | Code | State | Operations | Module |
|---|---|---|---|---|
| Rules reducer | `packages/game-core/src/index.ts` | boards, power-ups, turn, result (a value) | `applyCommand`: place, activate-powerup, select-shield-target, end-reveal; `applyTimeout`; `createGame` | GameCore |
| Configuration, topology | `packages/game-core/src/{config,topology}.ts` | none | normalise and clamp a configuration; locations and line patterns of a layout | (constants) |
| Match rooms | `server/src/matchCoordinator.ts` (482-1184) | rooms, runs, two kinds of timer, answer caches, withheld updates | `setReady`, `handleGameCommand`, timer callbacks, `abandon` | MatchRun |
| Queue, hosted games, room index | `server/src/matchCoordinator.ts` (280-481) | queue, hosted games by code, room by connection | enqueue, cancel, create, join, list, `createRoom` | Lobby |
| Sessions | `server/src/gameHandler.ts` | a session per socket, subscribers | one handler per packet, `add`, `remove`; `heartbeat`, `refreshAuthenticatedIdentity`, `closeAll` | Lobby; Process |
| Application | `server/src/app.ts` | pending upgrades, authenticated sockets, `closing` | upgrade, revalidation, `close` | Process |
| Process | `server/src/{server,runtimeLifecycle}.ts` | two promises and a flag | start, stop | Process |
| Match history, stored | `server/src/matchHistory/` | bounded write queue; tables | `record`, retry, `flush`; insert, list, bookmark | Recorder, Account |
| Migrations | `server/src/migrations.ts` | table of versions, advisory lock | run, check | Migrations |
| Accounts, administration | `server/src/{auth,admin}/` | tables of the auth library | requests | Account |
| Online authority (web) | `web/src/game/{onlineAuthority,onlineMatch}.ts` | canonical game, revision, one pending command | `queueOnlineCommand`, `applyOnlineUpdate` | MatchSync |
| Match session (web) | `web/src/hooks/useMatchSession.ts` | screen, socket, authority | user actions, events of the socket | Pages, MatchSync |
| Network client, lobby browser (web) | `web/src/game/networkClient.ts`, `web/src/hooks/useLobbyBrowser.ts` | a socket, pending responses; list and hosted game | requests, packets | Pages |
| Account session (web) | `web/src/hooks/useAccountSession.ts`, `auth/authClient.ts`, `AccountForm.tsx`, `ProfileMenu.tsx` | account, form mode, device sessions | login, logout, reset, revoke, settings | AccountSession |
| History screen (web) | `web/src/history/`, `MatchHistory.tsx` | filter, pages, detail, bookmarks | list, next page, open, star | HistoryScreen |
| Administrators' dialog (web) | `AdminPanel.tsx` | tab, pages, query, inspector, console | search, load older, inspect, run | AdminPanel |
| Application (web) | `App.tsx` | screen, account, the parts above | navigation between them | Pages, Account |

How they interact. A browser's socket carries packets to `gameHandler`, which
calls `matchCoordinator` synchronously and sends what it returns; the
coordinator's timers push updates through `deliverySink` outside any packet. The
coordinator calls the reducer for every command and timeout, and hands a
finished `main` run to the recorder. The browser feeds server packets to its
authority, which replays the commands through the same reducer and compares the
events. `app.ts` turns upgrades into sessions, revalidates them, and closes
everything at shutdown. The account, history and admin screens make HTTP calls,
several at a time, against a cookie the browser shares between all of them; what
an answer means depends on what the page has become since the call. `App.tsx`
closes the socket of a match before it changes the account.

What makes it hard. On the server every handler runs to completion, so the
interleavings are those of packets, timer callbacks and closes: a command may
arrive after the deadline but before the timer; a reveal window runs beside the
turn clock; half of an extra turn is withheld from one player, so the two
players' streams advance differently; either side may vanish. `app.ts`, the
recorder and the browser hooks also have `await`s between reading a state and
using it. `PROJECT.json` lists the hazards, each at the line where it bites and
with the properties that watch it.

## 2. The modules

```
 GameCore ──refines (GameCoreTurns)──> GameTurns ──> TurnRules
                                                        ▲
                                                    MatchRun
                                                    ▲      ▲
                                             MatchSync   MatchRetry

 Lobby ──refines (ImplementsConnections)──> Connection ──> Places <── Pages

 Process ──instances──> Recorder, Migrations

 Account ──> AccountSession, HistoryScreen, AdminPanel ──> Calls

 GameCore_proofs  Process_proofs     MatchRun_proofs <── MatchSync_proofs
 Lobby_proofs     Pages_proofs       AccountClicks_proofs <── Account_proofs
```

The modules named `_proofs` hold the theorems about the module they are named
after; section 5 says what they prove. `MatchRun_proofs` holds the lemmas on the
server's handlers that the two systems around it share, and the theorems of the
smaller of the two, MatchRetry; its specification is called `RetrySpec` because
`MatchSync_proofs` has a `Spec` of its own. `AccountClicks_proofs` is the first
half of the proofs about Account.

**GameCore** is the reducer. `game` is its `GameState`; `place`,
`activatePowerup`, `selectShieldTarget`, `endReveal`, `applyTimeout` are the
functions of `index.ts`, each from a state to the set of states it can return
(one element, unless it draws at random; none for a rejection). The effects
behind them are part of the same step: conflict and shields
(`resolveConflict`, `handleImmunity`, `shouldClear`), desecration, the unlock of
a line (`maybeUnlockPowerup`), the extra turn's kept half, the end of the turn
with its automatic passes (`consumeTurn`, `passingStops`) and the result. The
loop of `resolveAutomaticPasses` is unrolled into a count: `k` turns are used up
when the `k`-th is the first that need not be passed.

**TurnRules** states what the rest of the system needs from the rules: who is to
move, how turns are used up, the half-played extra turn, open reveals, the end.
**GameTurns** is the state machine of those rules, the abstract specification of
the reducer. **GameCoreTurns** is the refinement mapping (`turnsIn`, from a game
to the turns in it), and `ImplementsTurns == Turns!Spec` is checked as a property
of `GameCore` and proved. The
match modules are built over TurnRules, so what is shown there holds with the
boards put back.

**MatchRun** is a room in `matchCoordinator.ts`: `server` is the room, its run,
`turnTimer`/`revealTimers` (the handles in `timerByRoomId`/`revealTimerByKey`),
`expired` (`now() >= deadline`), the packets each socket holds and the runs
handed over. The actions are the handlers: `HandleReady`, `HandleCommand`,
`HandleClose`, `TurnTimerFires`, `RevealTimerFires`, and `DeadlinePasses` for
the clock itself. A timer may fire at any time while it is armed. A command in
an update carries the state it led to, which stands for the domain events a
client compares with its own replay.

**MatchSync** adds the two browsers: screens, `OnlineAuthorityState`, one
pending command, packets in order in both directions, and a client that may
leave at any time, taking any suffix of what it sent with it. **MatchRetry** is
the same server against clients that repeat commands, under the same or another
content, before or after the deadline: what the cache and the tombstones of
accepted ids are for. The web client does not retry.

**Lobby** is `gameHandler.ts` over the queue, the hosted games and the room
index, against clients that send any packet in any state. `hub` is the server.
`hub.told` is the last list and the last news of a room that were sent to a
socket; a WebSocket delivers in order or not at all, so the last packet decides
what the player ends up seeing. Packets that violate the protocol close the
sender (`refuse`). A socket found dead by the heartbeat is a `Closed` here; the
heartbeat itself is in Process.

**Places** says where one connection can stand in the server (no room, lobby,
queue, hosting, a match) and what each packet does to that; **Connection** is the
state machine of it, the abstract specification of a session as its client sees
it. `Lobby!ImplementsConnections` shows that each of Lobby's sockets lives as one
Connection, with all that the others do to it reduced to three steps (a match, an
opponent that leaves, the end).

**Pages** is the browser against that abstract server: the screens of `App.tsx`,
the flows of `useMatchSession.ts` that open a socket and await three things on
it, the events of sockets that may be current, left behind, closing or failed,
and the marks (`manualCloseRef`, `matchRef`, `readyLocked`) that decide what an
event means. One action is one browser task with the continuations it releases.
What comes later than it was asked for has an action of its own that any screen
may meet: the end of the countdown, the answer of a login (`LoginAnswered`, which
changes the screen and closes nothing), of a logout and of an administrators'
dialog that is closed by now (`AccountEnds`). `page.behind` has the sockets left
open behind the player and `page.blind` why a screen may be untrue, so that the
properties can say that there is no other reason.

**Process** is `server.ts`, `runtimeLifecycle.ts` and `app.ts`: the start behind
the schema check, a `listen` that may fail, upgrades with the session lookup they
await and the limit they compare before and after it, the heartbeat, the round of
revalidation, matches that finish, and a stop that may be asked for at any
moment: no new upgrades, a grace period, the recorder's flush, the pool. It has
**Recorder** as `R` and **Migrations** as `M` over the same variables. A
behaviour starts with one of `Scenes`, which bounds what moves in it.

**Recorder** is `matchHistory/recorder.ts` over the transaction of
`repository.insert`: admission, a bounded number of writers, two retries, the
report of a loss, and the flush. The database may fail an attempt before its
COMMIT, or lose the COMMIT's answer and settle the transaction later, while the
write is being retried; a retry's INSERT waits for it on the key. **Migrations**
is the migration command: the files in order, each in a transaction with its
version, under an advisory lock that a lost connection gives back; it may crash
or lose an answer at any point and be started again.

**Calls** is an HTTP call between the click that makes it and the continuation
that reads its answer: `called`, served from the database (`served`), perhaps
lost, `superseded` when the counter its screen compares has moved on,
`unmounted` when its component has gone. Over it, as operators on the state of a
page: **AccountSession** (`useAccountSession.ts`), **HistoryScreen** (the
reducer and the requests of the match history) and **AdminPanel** (the tabs of
the dialog). **Account** composes them into one page of `App.tsx` with the
cookie they share, the database, and the other devices that end sessions, store
matches and change roles meanwhile.

Definitions whose name ends in `_Something` and whose comment begins with
"fault" are not part of any specification. They are the faults the properties
were tried against: each replaces the definition it is named after, and TLC then
finds the property violated.

## 3. The runs

| Run | Instance | Question | States |
|---|---|---|---|
| `process` | 4 scenes: 3 connections around a limit of 2; an account that changes and peers that vanish; 3 matches, 1 writer, room for 2; 2 migrators and 3 files | start, admission, revalidation, heartbeat, shutdown, recording | 30 592 |
| `lobby` | 3 sockets (2 of one account), 2 codes, 2 variants, 2 rooms | sessions, rooms, queue, list and news agree; refinement of Connection | 456 070 |
| `pages` | 2 sockets, 1 packet on its way when a row is picked | one purpose per socket, no socket without an owner, true screens | 2 644 208 |
| `account` | 2 accounts (1 admin), 2 calls under way, 3 matches, pages of 1, 13 budgets | who the page is, what its lists show, which stars it claims | 2 366 422 |
| `reducer` | 3 locations, 2 overlapping lines, 5 rounds | boards, flags, turns and lines stay sound; refinement of GameTurns | 446 436 |
| `reducer_clock` | 3 locations, 1 line, 5 rounds, all power-ups, seat 0 first | a game ends on its clock alone | 122 073 |
| `sync_play` | 1 match of 2 turns, 4 and 1 commands | the two streams of updates, withheld halves, reveal windows | 1 075 284 |
| `sync_rematch` | 2 matches of 1 turn, one command each, one client may leave | clock, answers, hand-over, and that every match ends and is seen to end | 102 859 |
| `retry` | 2 turns, 3 sends of 2 ids, a cache of one | repeated commands are answered once | 122 204 |
| `lobby_join`, `sync_stale`, `sync_loss` | as small as shows it | the findings of section 7 | |

Why the bounds are enough for these questions.

* *Boards.* Conflicts, shields and desecration concern one location and the
  lines through it. Three locations with two lines that share one let a line be
  completed, broken by a conflict and completed again while another waits; five
  rounds fill them, which is the only way to reach automatic passes, a full
  board before the second half of an extra turn, and a double pass, and exceed
  every desecration (two turns of a seat). `reducer_clock` keeps all of this but
  the second line: the clock runs out on an owed shield, an open reveal, an armed
  and a half-played extra turn (a seat that has unlocked it has two free cells
  again in its last round at the earliest, which is why five are needed), and on
  boards that fill and pass. It takes one of the two games: the rules treat the
  seats alike but for the order in which `resolveConflict` looks at them, and both
  seats attack in it.
* *Runs.* A turn that is played, timed out, or half played by each, and the turn
  after it, is what the authority distinguishes. `sync_play` allows one seat as
  many commands as a turn with two power-ups takes, against one command of the
  other. `sync_rematch` needs a second run to see timers and answers of the
  first one reach it. `SetupBudget` is 2 in the game (activate and aim); 0 or 1
  in the runs, because both are commands that leave the turn where it is.
* *Cache.* With a cache of one, the second accepted command evicts the first,
  and the first is then repeated.
* *Lobby.* A pairing needs two compatible entries and a third in front or behind
  that is not compatible with one of them: three sockets, two of one account,
  two variants. Two codes suffice for a private and a public game at once. A
  socket's id is not used again, as in the code, so after its close it is out of
  the run. `MaxRooms` bounds the rooms ever made; a pairing beyond it is not
  taken. Symmetry is over the two tabs of one account and over the codes; no
  liveness property is checked under it.
* *Process.* The limit of two is passed, if at all, by a third upgrade whose
  lookup overlaps the admission of another, with or without a cookie. What
  shutdown waits for (sessions, lookups, a round of revalidation, pending
  writes) is met in twos. The four scenes keep apart what the code does not
  connect: the number of connections, the life of an account, recording, and
  migration beside the start; the shutdown runs in all of them. With one writer
  and room for two, the second match waits and the third may be dropped.
* *Pages.* The hazards are two sockets at a time: one left behind, closing, or
  lost, and the one a later flow opens. `MaxSockets` is the number ever opened;
  a socket that is closed is not used again. `MaxUp` bounds the packets that
  may still be on their way when a row of the list is picked; with 1, a second
  row can be picked as soon as the server took the first, before its answer is
  back, and then reaches a server that has matched the player.
* *Account.* Two overlapping calls are what an answer out of order needs. A page
  of one row makes a list of three have two joins. `Budgets` bounds the clicks of
  each part of the page, the failed or lost calls, and what others do, so that a
  behaviour has up to four events of one part, or of two parts that meet (a login beside a match, a
  history beside a sign-out, a dialog beside a role that changes); each budget is
  explored in every order. `MaxSids` is the number of sign-ins.

`CHECK_DEADLOCK FALSE` stands where a run really stops: a finished game takes no
command, a closed socket is not used again, a stopped process does nothing, a
budget is used up, and players need not do anything.

Type invariants: `GameCore!TypeOK` is checked and proved. `MatchSync!TypeOK` is
proved (`RoomTypes`) and holds on the instance of `sync_play`; the types of
Process, MatchRetry, Pages, Lobby and Account are the first part of the inductive
invariants of section 5. `Lobby!TypeOK` holds on the instance of `lobby`; what it
says of the lists that clients were sent (that they consist of codes) is not
proved, because the prover knows nothing of `SelectSeq`. The types other than
GameCore's are not listed in the configurations.

## 4. Fairness

* `GameCore!FairSpec`: weak fairness of `Timeout` (`ClockRuns`, written out with
  the predicate `canTimeOut` for `ENABLED`, which TLC evaluates faster). Every configuration has a
  turn clock (`MIN_TURN_SECONDS`, and at least two seconds online), and each
  turn arms it again.
* `MatchSync!FairSpec`: weak fairness of the turn timer, of handling what has
  reached the server, and of delivery to a live client. This is the event loop
  and TCP. Nothing is assumed of the players, of reveal timers or of the
  deadline being noticed early.
* `Process!FairSpec`: weak fairness of what the event loop, its timers and the
  drivers do: the heartbeat and the revalidation are `setInterval`s
  (`app.ts` 363 and 387, on by default), a query or a connect ends (`database.ts`
  sets `query_timeout` and `connectionTimeoutMillis`), a closing handshake ends
  by its peer or by the timer of `ws`, the grace period is a timer, a resolved
  promise is run. Nothing is assumed of players, of accounts, of signals, of the
  migration command, or of a transaction in doubt ever being settled.
* `Lobby`, `Pages` and `Account` state safety only. An answer that never comes
  is a behaviour of each: the network client gives up after its timeout
  (`Expire`), and an HTTP call without an answer leaves the page waiting.

## 5. The proofs

Every theorem holds for all values of the constants its module's assumptions
allow, and every leaf of its proof is checked. In each component one inductive
invariant carries the rest: `Init` implies it, one lemma per action shows that the
action keeps it, and the listed theorems follow from it.

### The reducer (`GameCore_proofs`)

| Theorem | States |
|---|---|
| `TypeCorrect` | `Spec => []TypeOK` |
| `BoardsStaySound` | `BoardsCoherent`, which is `SoleOccupant` and `CellsSound` |
| `PowerupsStayInTurn` | `PowerupsCoherent`, which is `FlagsWithinTurn` and `ExtraTurnSound` |
| `TurnsInOrder` | `TurnOrder` |
| `MoverCanPlace` | `ActiveSeatCanPlace` |
| `LinesStayClaimed` | `LinesClaimed` |
| `GamesAreBounded` | `CommandsRunOut`, an action property |
| `ShieldsHold` | `ShieldProtects`, an action property |
| `DesecrationOnSchedule` | `DesecrationCostsOneTurn`, an action property |
| `GameImplementsTurns` | `ImplementsTurns`: GameCore refines GameTurns |

Assumed (`TopologyAssumption`, `ConfigAssumption`) is what the code builds: a
topology has locations, finitely many, and its lines are non-empty sets of them;
power-ups are assigned to symbols; at least one round.

None of these is inductive alone. That a board has a sole occupant per location
needs sound cells (a conflict reads the shields); that flags are closed within
their turn needs the mover to be able to place (a timeout that found no cell
would end the turn by another path); that the mover can place needs the turn
order and the boards. `GameInv` is their conjunction with the type invariant.
The argument follows the code: lemmas about a conflict (`ImmunityHandled`,
`ConflictResolved`), about beginning and consuming turns (`TurnsBegun`,
`GameFinished`, `TurnConsumed`), about lines (`PowerupUnlocked`), about a piece
put down (`PiecePlaced`), then one lemma per command (`PlacePreserves`,
`ActivatePreserves`, `SelectPreserves`, `EndRevealPreserves`,
`TimeoutPreserves`) and the invariance theorem over `Next`. `MoverCanPlace` is
the one a reader of the code may want: the branch of `applyTimeout` for a seat
without a playable cell (index.ts 553-561 and 589-608) is dead code in every
configuration.

The second half says what each command does, field by field: `Struck` for the
boards under a placement, `Landed` for the whole of one, `Passed` for the turns
that are used up after it, `Aimed`, `Activated` and `Lowered` for the power-ups;
`Commanded` is their disjunction, and the lemmas show that every step of `Next`
is one of them. The action properties and the refinement are then read off
`Commanded`. `GamesAreBounded` needs one more invariant, `OpenedByUse` (what is
open or half played was opened by a power-up that is used up), which TLC checked
on the 446 436 states of `reducer` before it was proved. The refinement is the
link between the two halves of this project: what the match modules prove over
TurnRules holds of the reducer.

### A match (`MatchRun_proofs`, `MatchSync_proofs`)

| Theorem | States |
|---|---|
| `RoomTypes` | `Spec => []TypeOK` of MatchSync |
| `ClocksStayArmed` | `ClockArmed` |
| `RevealsStayTimed` | `RevealClock` |
| `RunsHandedOverOnce` | `CompletedOnce` |
| `CommandsAnsweredOnce` | `OneAnswer` |
| `HalfTurnsStayHidden` | `HalfTurnsHidden` |
| `UpdatesAlwaysReplay` | `UpdatesReplay` |
| `OnlyStaleRefusalsLoseSync` | `SyncLostOnlyBehindBuffer`, an action property |
| `AnswersStaySingle` (MatchRetry) | `AnsweredOnce` |
| `RepeatsStayInert` (MatchRetry) | `RepeatsInert`, an action property |

Assumed: some seat may go first (`CoordinatorAssumption`); the cache, the
budgets and the numbers of matches and commands are natural numbers, the length
of a game at least one round. None of them bounds the argument: the theorems hold
for any number of matches, turns and commands.

`MatchRun_proofs` describes each handler once as a relation between the room
before and after (`AdvancedTo`, `Begun`, `Resolved`, `Answered`, `Played`) and
shows that it keeps `ServerSound`, the types of the room with what ties its phase
to its timers, its revision and its record of completed runs.

The invariant of MatchSync is in four layers. `Sound` adds the types of the
clients and of the packets. `Settled` follows one seat through a match: which
packets can be on their way in either direction given the screen and the phase
(`ReadyOnce`, `RunsFit`, `InOrder`), that ids are not used twice (`IdsFresh`), and
that a pending command is either on its way or answered (`Awaited`). `OneAnswer`
alone is not inductive: a rematch or a departure moves packets of an earlier run,
and `Awaited` has to know that they cannot answer a later command. `Replays` adds
the data: an extra turn that is half played is the withheld buffer and ends at the
run's revision (`Halved`); what is on its way to a client continues its revision,
packet by packet, up to what is not withheld, and its last state is the server's
(`Chained`). Each packet the server sends extends a chain, each packet a client
takes shortens it. TLC checked `Settled` and `Replays` on the instances of
`sync_rematch`, `sync_play` and `sync_stale` (102 859, 1 075 284 and 2 493 states)
before they were proved; `Sound` quantifies over infinite sets, and TLC cannot
evaluate it.

The fourth layer, `Ordered`, is what `SyncLostOnlyBehindBuffer` needs. That
property speaks of the one packet a client takes next, and of every way in which
it could fail to fit: an update of another run, at another revision, of the wrong
seat, with events that differ; a refusal of another command or with another
revision. So the invariant says of everything on its way what it will be when it
arrives. `Coheres`: an update is of the seat that is to act where it is replayed,
command after command, and the one that is withheld after it too. `Current`: an
update of a later run comes behind the start of that run, and who waits for a
rematch has seen all of the last one. `Expected`: the answer on its way is the one
to the pending command. `Forewarned`: a client in a match hears that its opponent
has gone before its command is refused for that. `Refusable`: a refusal names the
revision its client will have when it arrives (`Exact`), except that of a stale
command, whose revision may lie inside an update of the opponent (`Near`), and
that is finding 2 of section 7. The server's handlers need the counterpart
(`Justified` in `MatchRun_proofs`: a refusal that does not call the command stale
carries a revision that nothing withheld has moved). TLC checked `Ordered` on the
instances of `sync_rematch` and `sync_play` before it was proved.

The invariant of MatchRetry (`RetrySpec => []RetrySound`, the last section of
`MatchRun_proofs`) is `ServerSound` and `Halved` with `Accounted` (the acceptances
a seat was told of carry different ids and cover different revisions, none beyond
what it has been told of, and their ids are taken) and `Timely` (what was posted
names a revision the run has had, and the current one only for the seat to act).
It needs the tombstones: with the cache alone, an id that was evicted could be
accepted again.

### The process (`Process_proofs`)

| Theorem | States |
|---|---|
| `SchemaStaysSound` | `SchemaSound` |
| `AdmissionStaysBounded` | `AdmissionBounded` |
| `StopsInOrder` | `StopReleases` |
| `MatchesStayAccounted` | `Accounted` |

Assumed (`ProcessAssumption`): finitely many connections, positive bounds (as the
environment's parser demands), a set of scenes of the right type, and a lock
holder "free" that is no migrator.

`ProcessInv` joins the parts over the shared variables: `ProcessType`; `LifeInv`,
which ties the phase of a start or a stop to the pool, the listener and the
schema check; `DrainInv`, which says what each phase of a stop has behind it;
`SchemaInv`, in which at most one migrator holds the advisory lock, what others
remember as applied is no more than the database has, and an attempt whose answer
was lost leaves what the next attempt reads; `RecorderInv`, in which every
admitted match is in exactly one of the queue, the writers or the settled ones,
with `WritersSound` and `NoneIdle`. `AdmissionBounded` holds across the await of
`handleUpgrade` because the count is taken before and after it. The only facts
the parts need of each other are that the schema, once complete, stays so
(`SchemaKept`) and that no match finishes once the sockets are closed.

### The browser (`Pages_proofs`)

| Theorem | States |
|---|---|
| `PagesStaySound` | `Spec => []PagesInv` |
| `PurposeHolds` | `ServesOnePurpose` |
| `OwnershipHolds` | `SocketsOwned` |
| `ScreensHold` | `ScreenTruth` |

Assumed (`PagesAssumption`): at least one socket, and any bound on the packets on
their way. The theorems hold for any number of sockets ever made.

`PagesInv` says of every socket what its purpose allows to be on its way to the
server (`Purposeful`), how the server's answers on their way back fit what was
asked and where the server has the socket (`Asked`, `Told`), and of the page
which socket it may wait for and on which screen (`Fits`, `Owned`, `PageSound`,
`ClientSound`). TLC checked it on the 2 644 208 states of `pages` first.
`ScreenTruth` alone speaks of quiet moments only; the invariant says what every
packet on its way will make of it. The proof goes socket by socket: what the
server does with the head of a queue, what the page does with an event; then over
the actions, where a socket event either stays on its screen or moves on (`Moves`,
`Stays`), a close leads home (`Homeward`), a step of the page alone keeps what its
sockets need (`PageTurns`, `Turnable`), and a new client starts from a state that
has no other (`Starts`). `PurposeHolds` is what Lobby assumes with `OnePurpose`.

### The lobby (`Lobby_proofs`)

| Theorem | States |
|---|---|
| `RoomsAlwaysAgree` | `RoomsAgree` |
| `WaitersAlwaysSound` | `WaitersSound` |
| `NewsAlwaysFresh` | `NewsFresh` |
| `ConnectionsImplemented` | `ImplementsConnections` |
| `RefinesConnection` | `Spec => ConnectionOf(s)!Spec`, for each socket |

Assumed: `LobbyAssumption` (an account behind each socket or none, finitely many
sockets, any bound on the rooms), and `OnePurpose`, as a hypothesis of each
theorem: the server does not check that a host neither queues nor joins, and
without it `RoomsAgree` fails (section 7). `PurposeHolds` of the browser is what
justifies it for this client.

`LobbyInv` is a predicate of a hub. One half (`RoomSide`) is the rooms:
`RoomsAgree` with unique ids below the next one (an id used twice would join two
rooms), and what each player was told. The other half (`WaitSide`) is the queue,
the list and what subscribers know of it; in it the queue has no socket twice and
the list no code twice, without which a `Map.delete` would leave an entry behind.
`Unborn` says that a socket has left no trace before it connects. TLC checked it
on the 456 070 states of `lobby`, with `TypeOK` in place of `Hub`, whose set of
lists is infinite.

A handler is an operator from hub to hub, and the proof describes each once,
field by field (`Adjusted`, `Departed`, `Met`, `Delisted`, `Heard`, `Queued`,
`Paired`, `Joined`); the lemmas named `...Made` show that the handler does that, and
those named `...Keeps` that the invariant survives. Deletion is one lemma for the
queue and the list (`Removed`: what is left stands in its old order). The pair
that `compatiblePair` chooses exists because a set of pairs of numbers has an
earliest one; after it leaves, nobody in the queue has an opponent, because only
the socket that asked could have had one. The refinement reads a step of
Connection off the same descriptions (`Lives`), for the socket that acts and for
every other one.

### The account (`AccountClicks_proofs`, `Account_proofs`)

| Theorem | States |
|---|---|
| `AccountIsSound` | `Spec => []AccountSound` |
| `AccountIdentityTruth` | `IdentityTruth` |
| `AccountSocketIdentity` | `SocketIdentity` |
| `AccountAnswersFit` | `AnswersFit` |
| `AccountBookmarksTrue` | `BookmarksTrue` |

Assumed (`CallsAssumption`): administrators are accounts, "guest" is none, searches
find some of the matches; at least one match, one row to a page and one call under
way, and room for the two sessions a run starts with. The theorems hold for any
number of accounts, sessions, matches and calls under way, for pages of any length
and for any bound on the clicks and faults.

None of the four properties is inductive: each speaks of what is shown, and what
will be shown is on its way in the calls. `AccountSound` says of every call what its
answer will make of the page, and of every answer what it still says of the
database. It has the types of both (`Page`, `Server`) and three parts.

`Signed` is who the page says it is. Sessions are numbered as they are made
(`SessionsMade`), and an answer of a session says what holds of that session,
though perhaps no longer of the cookie (`AnswersTrue`). The form waits for one operation at a
time, which was sent with the cookie the page still has (`OneAtATime`). Only the
first lookup runs beside it: until it is answered a page that has not acted is a
guest's and asks nothing a session could be refused for (`Early`). `Truthful` is
`IdentityTruth` carried over to the answers: the account is the cookie's unless
something is in doubt, a logout or a reset has been granted, or a lookup is under
way, and then it is what that lookup will bring. While the match
history is on the screen its calls carry the page's cookie, and no operation of the
form but a logout is under way (`AtHistory`); a socket is open only on the screens
of play, under the account shown (`Plays`).

`Shelved` is the match history: a page of rows that was read begins below its
cursor, leaves nothing out down to the next and shows nobody else's bookmarks
(`ShelfRead`, `StarRead`); the one call whose answer counts asked for what the
screen waits for (`ShelfDue`, `Sole`), so that its rows can be joined to those there
(`HistoryRows`); and a star is the server's unless it is in doubt or a save of that
match, the only one under way, will settle it (`Stars`). `Listed` is the same for
the administrators' lists (`PanelRead`, `PanelDue`, `PanelRows`).

TLC checked each of these on the 2 366 422 states of `account` before it was proved.
The pages of rows rest on one lemma about the order of the database, `PageOf`: any
finite set of matches has one descending sequence (`NewestFirst`), and its first
rows are what lies above the next cursor. The proof then describes what a call sent
(`Sent`), a call answered or lost, a counter moved and a component unmounted
(`Faded`, `Fewer`) change, shows once for each part of the invariant what it needs
to survive that, and goes through the clicks (`ClicksSound`, the end of
`AccountClicks_proofs`), the server (`ServeSound`, `DropSound`), the continuations (`AnswerSound`) and the others
(`WorldSound`). Proving it
showed that a revoked device may be the page's own session (section 7), which
`doubt` did not name before.

### Only model-checked

* Liveness under fairness is out of the prover's reach: `GameEnds`,
  `EndsReachClients`, `PendingSettles`, `IdentityFollows`, `VanishedRemoved`,
  `StopEnds`. So is anything that needs `ENABLED` or induction over data; operators
  declared `RECURSIVE` would be, and these modules have none.
* Every safety invariant and action property of the passing runs is proved. The
  properties of the three runs that end in a violation are false of the code.

## 6. What the models leave out

* In GameCore: the random generator (a draw is a choice), rejection reasons, the
  event log, symbols' visual state. `currentRound` is a function of `turnCount`.
* In MatchRun: delays, ids as UUIDs, boards, and the difference between a
  command whose decoding failed and one the rules refuse (both are refused and
  change nothing). A prototype run is not handed to the recorder
  (matchCoordinator.ts 988); the modelled room plays the main variant.
* In MatchSync: the practice bot, the countdown and the screens between
  game-start and results, which do not gate the authority; the client's own
  display of the clock.
* In Lobby: names beyond "has one", the list of users, the limit on messages per
  second (a violation may happen at any time), the configuration beyond its
  variant, what happens inside a room. `OnePurpose` says that a connection that
  hosts does not also queue or join: `Pages!ServesOnePurpose` shows it of the web
  client.
* In Process: HTTP routing, origin and size checks, the teardown of a socket
  whose upgrade was refused, a pong that is merely slow (it is taken for a peer
  that vanished, as the code does), counts for the statistics, and an abrupt end
  of the process, which loses what the recorder holds, as the code accepts.
* In Recorder and Migrations: the contents of a record and of a file; the
  repository's other queries.
* In Pages: the practice bot, the boards of a match, names, configurations and
  the status line; when React renders between two tasks (`screenRef` is read as
  the latest screen); what the server does for a socket whose page has closed it;
  two sockets of one page in the same match, and the board of a match that goes on
  on a socket left behind (its first update after another match has begun is the
  sync-lost that `over` stands for); registration and the other account forms,
  which do not change the screen when they are answered.
* In Account: texts of errors and notices, the captcha, validation of fields and
  cursors, what the mail flows write in the database, and other devices setting
  bookmarks. The stats tab asks again on a timer; that is `RefreshStats`, at any
  time.
* Not modelled at all: configuration and topology are pure and GameCore takes
  their results as constants; the codecs and the view model are pure too.
  Rendering, the 3D cube, styles, art and scripts keep no state that these
  questions touch; the auth library and the database are external.

## 7. Findings and remarks

Three runs end in a violation, each of a statement the repository makes:

1. `lobby_join`: a LOBBY_JOIN that reaches the server after its sender was
   matched closes the sender's socket and ends the match
   (`gameHandler.ts:332` comes before the answer 'already-in-match' that
   `useLobbyBrowser.ts:11` has a message for). Two clicks are enough.
2. `sync_stale`: a command overtaken by the end of its own turn is refused with
   a revision that counts the opponent's withheld half, and the browser takes it
   for a gap (`onlineAuthority.ts:161`): sync-lost, where a message was meant.
   `OnlyStaleRefusalsLoseSync` proves that this is the only way.
3. `sync_loss`: an opponent that leaves before the first match leaves the other
   player on the ready screen (`useMatchSession.ts:409`).

Two passing runs have properties that name the divergences they allow:

4. `pages`, `ScreenTruth`: `closeClient` sets `manualCloseRef` for a socket that
   has no close event left to report (`useMatchSession.ts:488`); the mark then
   swallows the loss of the next connection ("loss" in `page.blind`), or is missing
   for a close of the page's own, which then shows 'disconnected' ("mark").
5. `pages`, `ScreenTruth`: the countdown goes on when the connection is lost or
   the opponent leaves, and shows the battle over 'disconnected'
   (`useMatchSession.ts:249`; "countdown").
6. `pages`, `SocketsOwned`: a login answered after BACK and PLAY AS GUEST moves the
   player from matchmaking, a lobby page or a match to the choice of modes and
   leaves the socket open (`App.tsx:280`); the next flow overwrites the only
   reference to it.
7. `account`, `AnswersFit`: after a search that fails, 'Load older' joins pages of
   two queries (`AdminPanel.tsx:277`). `Panel.mixed` marks these lists.

Remarks. Of the server and the rules:

* `topology.ts` 17-19 calls the order of the patterns load-bearing. For the
  rules it is not: no complete line is ever left unclaimed (`LinesClaimed`).
* `index.ts` 553-561 describes a timeout that finds no cell; `MoverCanPlace`.
* `matchCoordinator.ts` 666-668 bounds a run's accepted client commands by
  "maxTurns + 10". The reducer's effective commands, timeouts included, are at
  most `maxTurns + 12` (`CommandsRunOut`), and an `end-reveal` that finds nothing
  to close is accepted as well, so the tombstones are bounded by what a client
  sends and not by the rules alone.
* `matchCoordinator.ts` 372-373 rules out hosting and queueing at once, and
  `createPendingGame` does leave the queue; `enqueueQuickMatch` (300) and
  `joinPendingGame` (412) do not cancel a hosted game. With `OnePurpose = FALSE`
  one connection can be in two rooms. The web client never does it
  (`ServesOnePurpose`); the server relies on that.
* `server.ts` 140-143: if `listen()` fails, a stop closes a server that does not
  listen, which is an error, and the pool is not ended. `StopReleases` names it
  as the one case.

Of the web client's sockets (each is a step of Pages; `behind` marks the first,
`blind` the others that matter):

* BACK from the page of a hosted game or of the list leaves its socket open, and
  the game in the list, until the page is closed or the game is joined
  (`useMatchSession.ts` 548-556).
* The catch of an abandoned flow closes whichever client is current by then and
  returns to the menu (617-625, 648-656, 718-726).
* CANCEL while the socket is still connecting throws before it closes anything
  (667).

Of the web client's accounts (each is a step of Account that `doubt` or
`overtaken` marks):

* A restored session that answers after a login or a reset overwrites what they
  set (`useAccountSession.ts` 97). A login whose `getSession` fails leaves the
  cookie set and the page a guest. A reset of another account's password shows a
  guest while the cookie stands.
* A late 401 of the settings signs the page out while its socket plays on
  (126-131); a late 401 of a closed administrators' dialog resets a running
  match; a late answer to a login or a logout moves the player out of a match.
* A login answered after BACK and a guest's match stores the account without
  closing the guest's socket (`App.tsx` 277-283); what that does to the sockets is
  finding 6.
* A list of devices that an earlier session asked for and that arrives after a new
  sign-in (`useAccountSession.ts` 139-143: nothing drops it) does not mark the
  page's own session as 'This device' (`authClient.ts` 143), so that it has a REVOKE
  button (`AccountForm.tsx` 331); revoking it ends the session while the page goes
  on showing the account. `doubt` has "revoked" then.
* A list or a detail that was read before a star was saved and arrives after the
  save shows the old star.

## 8. The plan

The operations of the components in section 1 are modelled as far as section 6
says, and the safety properties are proved. What is left, in order of weight:

1. Pure algorithms: configuration (clamping, frozen defaults) and topology
   (lines and layouts) as operators, against reference definitions.
2. The codecs: what `protocol.ts` on either side refuses, as a relation between
   the packets of Lobby and Pages and those a client of another version sends.
