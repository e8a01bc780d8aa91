# BakaAndTestSummonTheBeasts in TLA+

The repository is a school game: students' test scores become summoned beasts
(召喚獣), and classes fight battles (試召戦争) with them. This directory holds its
specifications: modules translated from the source, TLC configurations that
check them on small instances, and TLAPS proofs for all instances. Paths below
are relative to the repository root (`src/` in `PROJECT.json`).

## 1. Inventory

| Component | Source | State | Operations | What makes it hard |
|---|---|---|---|---|
| Battle engine | `game/internal/battle`, `game/internal/wshandler/convert.go` | `Room`: players' poses, hit points per subject, cooldowns, tick, verdict | `buildRoom`, `Room.Step` (move, summon, attack, `checkVictory`) | Go's random map order decides ties, who strikes first and who is picked as loser |
| Battle server | `game/internal/wshandler/{handler,registry,room_runtime}.go` | `Registry.rooms`, per room: connections, latched inputs, log; one goroutine per connection and per room | connect, `getOrCreate`, `addConn`, `readLoop`, `step`, `finish`, `stop`, `remove` | two mutexes, writes outside them, late and superseding connections, crash |
| Internal API | `game/internal/railsclient`, `internal/battles_controller.rb`, `battles/finish.rb` | the `battles` row and its logs | start-data, finish | requests lost, late or repeated; the row lock makes finish idempotent |
| Battle creation | `battles/create.rb`, `battles/declare_war.rb`, `DeclareWarScreen.tsx` | battle, fields, players, snapshots of beasts | duel, declare war | the two classes are read one after the other while students move |
| Scores and beasts | `models/score.rb`, `summon/recalculate.rb`, `status_calculator.rb` | scores, `SummonStatus` per student and subject | save a score, recalculate | concurrent recalculations, the newest exam wins |
| Answer sheets and AI grading | `exams/*.rb`, `jobs/*.rb`, `answer_sheets_controller.rb`, `lib/api/grading.ts`, `SubmitScreen.tsx`, `ExamCreateScreen.tsx` | exams, keys, question sets, sheets, `ai_grading`; two job queues; the screens' steps, queries and marks | create, upload, replace key, register questions, OCR, grade, retry, mark, regrade, score | jobs in flight while what they read is replaced; answers that come to another screen |
| Classes and leaders | `classes/*_controller.rb`, `students_controller.rb`, `useClasses.ts`, `ClassManagementScreen.tsx` | memberships with a leader flag; one cached list per class | move, appoint or dismiss a leader, assign by score | one leader per class through moves, appointments and batches at once; lists of different times |
| Accounts | `auth_controller.rb`, `admin/users_controller.rb`, `jwt_service.rb` | users | register, log in, edit, delete | little: single rows behind a unique index |
| Battle client | `frontend/src/lib/battle`, `BattleScreen.tsx`, the pages of `wars/[id]` | token query, sockets, store, triggers, the recogniser | enter, connect, receive, send input at 30 Hz, voice trigger, leave, result page | a store that outlives the page, reconnection in mid-battle, callbacks of two sources |
| Avatar animation | `overlayTransition.ts`, `threeAnimationGuard.ts`, `threeOverlayPlayback.ts`, `VrmAvatar.tsx` | phase, last key, pending key; the actions of a base and two overlays | load, request, frame, clip ended, recovered, unmount | callbacks in any order, frames of any length |
| Other dashboards | `frontend/src/components/dashboard` | filters, open dialogs | API calls | little: rendering over one query each |
| Deployment | `deploy/scripts/*.sh` | image tags, the running service, the recorded sha | deploy, health check, roll back | failure between two steps, then the next deployment |

**Who talks to whom.** A browser opens one WebSocket per player to the game
server. The first one makes the handler fetch the start data from Rails and
start a tick loop; the loop sends a `state` to all connections 30 times a second
and takes the latest input of each user. When the engine decides, the loop sends
`finished`, posts the result to Rails, closes the connections and removes the
room. Rails built the start data from snapshots of the beasts, which follow the
scores, which follow the graded sheets.

**What makes each component correct.** The engine: the verdict agrees with who
stands, whatever the map order; the defeated stay out; the log accounts for the
hit points. The server: one tick loop per battle; everyone present at the
decision hears the truth; the lock is always given back; the outcome is recorded
once. The client: the page shows one battle and its verdict; a trigger goes to the
battle it was pressed in or nowhere; the microphone is given back. The animation:
no attack is stranded or replayed, a clip and its fades get on with every frame,
and the avatar comes back to its base pose. Grading: no sheet is forgotten between
the queues and every grading ends. School: no class ever has two leaders; who stays
in a class while war is declared fights on its side alone; an assignment is fair,
and done as a whole or not at all.

## 2. Modules

| Module | Models | Role |
|---|---|---|
| `BattleEngine` | `game/internal/battle`, `buildRoom` | the detailed battle |
| `Elimination` | | what a battle promises: players fall, one team wins |
| `MCBattleEngine` | | instance: three players, two fields |
| `EngineTheorems` | | proofs about `BattleEngine` |
| `BattleServer` | handlers, registry, rooms, the Rails client and `Battles::Finish` | the detailed server, one battle id |
| `BattleRecord` | | what the servers promise about the outcome |
| `MCBattleServer` | | instance: three connections of two users, two rooms |
| `ServerTheorems` | | proofs about `BattleServer` |
| `BattleClient` | the battle page, the token, the socket, the store, triggers, voice, the result page | the detailed client |
| `BattleView` | | what a player may be shown of battles |
| `MCBattleClient` | | instance: a class war and a duel, two sockets |
| `ClientTheorems` | | proofs about `BattleClient` |
| `OverlayTransition` | `overlayTransition.ts` | the controller's operators, policies included |
| `AvatarAnimation` | `VrmAvatar` and its guards, composed with `OverlayTransition` | the detailed avatar |
| `OneShotOverlay` | | what an avatar promises: each attack shown once, in order |
| `MCAvatarAnimation` | | instance: a clip of six ticks, five attacks |
| `AvatarTheorems` | | proofs about `AvatarAnimation` |
| `Grading` | submit and exam screens, the requests, Rails, the jobs | the exam from its creation to the score |
| `MCGrading` | | instance: one exam |
| `GradingTheorems` | | proofs about `Grading` |
| `School` | classes, leaders, assignment, declaration of war | memberships and who reads them |
| `MCSchool` | | instance: two students, three classes, two teachers |
| `SchoolTheorems` | | proofs about `School` |

### BattleEngine

One `Step` of the code runs under the room's mutex. The model splits it where
its result depends on Go's map order: `StartTick` (counters, movement, summoning),
then one of `Pass`, `Whiff` or `Hit` per player in *any* order, then
`CheckVictory`, which ends in the idle phase that the rest of the server sees.
The movement and the summoning loops touch one player per iteration and read
nothing of the others, so their order does not matter and they are one action.
`CheckVictory` chooses the loser and the representatives among all the map order
could yield.

| State | Code |
|---|---|
| `tick`, `finished`, `verdict`, `leaderRule` | `Room.Tick`, `Finished`, `WinnerTeam`.. , `LeaderRule` |
| `pose`, `summoned`, `attacking`, `hp` | `Player.X/Z/Angle`, `Summoned`, `Attacking`, `Summons[s].HP` |
| `cooldown` | `Room.cooldowns` |
| `phase`, `pending`, `inputs` | where `Step` stands, and its argument |
| `log` | `roomRuntime.logs`, the events of all steps |

Geometry is data: positions are integers, the turn per tick is a quarter turn,
and ranges are compared squared, so there is no rounding. The spawn axis is +x
because `Create` puts the first field on it. The engine's configuration
(`DefaultConfig`) is a set of constants. `LeaderRule` is in the engine and its tests, but no
caller turns it on; run and proofs take it both ways.

### BattleServer

An action is one critical section of `Registry.mu` or `roomRuntime.mu`, one
network write, or one step of a call to Rails. `pc` follows a handler through
`handleBattle`; `run` follows a room's goroutine:

| `run[r]` | The goroutine is |
|---|---|
| `fresh` | not started |
| `tick` | waiting on the ticker |
| `state` / `fin` | in the first / second write loop of `step` |
| `post` | in `PostFinish` |
| `stop` | about to call `stop` |
| `exit` | about to call `Registry.remove` |
| `over` | gone (or lost in a crash) |

The battle inside a room is `BattleEngine`. Here a tick leaves it undecided or
gives it a verdict, and it can decide only while some latched input attacks,
because only a hit changes who stands (`OnlyAnAttackDecides` in
`EngineTheorems`). A crash loses handlers, rooms and sockets but not a request
already sent. Handlers of users who do not take part in the battle differ from
others only in that their inputs are not looked at, and are not modelled apart.

### BattleClient

One action is one callback of the browser with the renders and effects it causes,
because JavaScript runs them without interruption; the voice effect alone, whose
recogniser has callbacks of its own, is an action apart.

| State | Code |
|---|---|
| `route`, `token`, `screen` | the page, `useWsToken`'s query, whether `BattleScreen` is mounted |
| `ws`, `sock` | `wsRef`, the `WebSocket` objects that have handlers |
| `store` | `battleStore` |
| `trigger` | `attackRef`, `summonRef` (they differ in name only), with the battle whose screen set them |
| `mic` | the recogniser of `useVoiceSummon` |
| `shown` | the result page's query |
| `room`, `recorded` | external: the rooms and what Rails has |

A focus after the token's stale time fetches another one, and the socket effect
runs again in the middle of a battle. The server is the environment of
`BattleServer`'s theorems: a verdict follows its tick's state on each connection
(`ToldTheTruth`), the result may be lost on the way to Rails and the first one
stays (`Record`), and a battle whose result was lost gets another room.

The recogniser reports interim results, so one word may call `onTrigger` several
times: `VoiceHears` may happen at any time while it listens, and nothing is claimed
about how often a word is sent. The result page is reached from the battle or from
the records. Rails answers with `winnerId` null while it has no result, and the
answer is kept for a minute, so a winner may be told LOSE; `ResultArrives` takes
whatever Rails has when it is asked, and `shown` may be old.

### OverlayTransition and AvatarAnimation

`OverlayTransition` holds the controller as operators on its state, one per
method, for the three policies of the code. The program uses one of them:
`getAvatarOverlayPolicy` gives `Chained` to both profiles, and under it a newer
attack interrupts the clip of an older one and nothing ever waits. The other two
are exported and tested, and the run and the proofs have them too; what is said of
waiting requests (most of `NoRequestLost`) is about those. `AvatarAnimation` is the
component around the controller. A frame is four actions in a row (`FrameStart`, `MixerUpdate`,
`TendLayers` with `CheckEnded`, `CheckRecovered`), since the mixer's `finished`
event is heard in the middle. Time is in ticks of 1/30 s; an action of three.js
has a time, a weight and a fade, which is what its `_update` reads. Weights are
0, 1 (fading) and 2 (full).

| State | Code |
|---|---|
| `mounted`, `vrm`, `loads` | the component, its model, the loader's callbacks to come |
| `slot` | `AnimationLayerSlot` with the actions' state |
| `ctl` | `OverlayTransitionController` |
| `actionKey`, `processed`, `due` | the prop, `processedActionKeyRef`, an effect to run |

### Grading

One student, so a sheet is known by its exam. Contents are versions: the n-th
file is n, the n-th set of questions has ids of its own, since `registerQuestions`
replaces all. A request is one action, as is each part of a job between two
reads or writes that others can see. The `grading` queue has one thread
(`queue.yml`), the default queue several.

| State | Code |
|---|---|
| `exams`, `key`, `questions`, `sheet` | the rows |
| `ocr`, `rekey`, `waiting`, `worker` | the jobs of the three classes |
| `student`, `desk` | `SubmitScreen`'s `selectedExam`, `studentDone`, `teacherStep`; whether a `GradingStep` is mounted |
| `upload`, `setup` | mutations under way |
| `view`, `marks`, `applied` | the sheet's query, `correctness`, `aiApplied` |

Callbacks of mutations are applied to the screen as it is when they come, which
may show another exam by then.

### School

| State | Code |
|---|---|
| `class`, `leader` | `ClassMembership` |
| `batch` | per teacher the transaction of `AssignmentsController#update`: its rows, those to come, what it has written |
| `appoint` | per teacher the transaction of `LeadersController#update`: how far it is, whom it dismisses |
| `war` | a declaration that has read the attackers, or the battle it made |

A batch goes row by row. An appointment is the statements of its transaction:
`Begin` and `Dismiss` are the `update_all`, which takes its snapshot, waits for the
rows and looks at them again; `Find` is `find_by!`, which sees what is committed;
`SetLeader` is `update!`, by the row's id, and commits. Rows a transaction has
written are locked (`Free`) and unseen by others until it commits. The index on
leaders is PostgreSQL's: an entry that is committed, or one's own, refuses another
(`Taken`); one that another transaction has made or taken away makes it wait
(`Awaited`); an entry that the transaction itself has taken away is in nobody's way.
A wait that never ends is a deadlock, which the database breaks (`BatchFails`,
`AppointFails`). The look-up and the update of one row of a batch, or of a move, are
one action.

An assignment starts from cached lists, one per class and each of its own time, so
it may find a student in several classes or in none: `AssignByScore` takes any
selection in which nobody is named more than `K` times. Who comes first of two
students with one score is open, as in the code's sort over lists of any order.

Two consequences of the code that are visible in the model and that no property
forbids: a student moved between the look-up and the update of an appointment
becomes the leader of the new class, after the old one's leader was dismissed; and a
student who moves from the defenders to the attackers between the two reads of a
declaration is on neither side, although `declare_war.rb:7` says that everyone takes
part. Since a class is compared with itself as an integer with a string, a class whose
students are all replaced between the reads can even be at war with itself.

## 3. Runs

| Run | Instance and bounds | Shows |
|---|---|---|
| `engine` | 3 players, 2 teams (one of two members with a leader), 2 adjoining fields, 3 ticks, 3 inputs per player and tick | type and safety invariants, the defeated stay out, refinement of `Elimination` |
| `engine_tie` | the same, all unaffiliated | **violation**: the nearest target is not unique |
| `server` | 3 connections of 2 users, 2 rooms, 2 verdicts, no crash, symmetry on interchangeable connections, rooms and verdicts | safety and refinement of `BattleRecord` |
| `server_live` | 2 connections, 2 rooms, 1 verdict, 1 crash, no symmetry | liveness, and one loop at a time through a crash |
| `server_late_join` | as `server_live`, no crash | **violation**: a connection left open on a stopped room |
| `server_replay` | as above | **violation**: a finished battle starts again |
| `server_unsaved` | as above, Rails fair | **violation**: a lost post loses the result |
| `client` | a class war and a duel, 2 sockets, 1 tick, 1 room of each battle, 2 and 1 tokens, 2 messages on the way (662,567 states) | safety of what is shown and sent, liveness of the voice, refinement of `BattleView` |
| `avatar` | clip of 6 ticks, fades of 2, 3 and 1, frames of 1 or 2 ticks, 5 attacks, both profiles, three policies (26,633 states) | the controller agrees with the mixer, nothing sets a clip back, refinement of `OneShotOverlay`, return to the base |
| `grading` | one exam, one question, 2 tries, one image, key and set of questions (384,265 states) | safety between the queues, liveness of gradings and spinners |
| `grading_stale` | the same with 2 keys and no questions | **violation**: results of a replaced key |
| `school` | 2 students with distinct scores, 3 classes, 2 teachers (interchangeable), every initial placement, batches of up to 4 rows, 2 transactions or declarations at work (635,513 states) | leaders, sides, blocks, and batches as a whole |

**Why the bounds are enough.** Two fields make beasts change subject and
cooldown; three players make friendly fire, a leader who falls before his team,
draws of two leaders and third-party kills possible; with three hit points, a
cooldown of 2 and three ticks a player strikes twice, every team can win and
both leaders can fall. Two lifetimes of a room suffice for every interaction of
an old room with a new one because rooms interact only through `registry` and
`recorded`; three connections give one user a superseding connection while
another is connected. In `client` two battles let one leak into the other, two
sockets overlap in a reconnection, and the token of the war can come anew in
mid-battle. A second room of a battle, whose states are dropped until its tick passes
the old one's, is beyond `MaxRooms` = 1 and `MaxTick` = 1 and covered by the proofs only
(`ClientShowsOneBattle`, `OutcomeCorrect`, `ResultPageCorrect`). In `avatar` a clip is longer than all its fades together, so every
decision can fall into every phase, and a frame of two ticks can step over the
end of a clip and the lead before it. In `grading` one key and one image can be
sent in either order and read at any time, and questions come from a teacher or
from the AI. In `school` two students suffice for two leaders to meet, three classes for
a batch that moves one leader out of a class and another one in, and four rows for a
student named twice; two transactions can wait for each other, two batches among
them. A declaration next to two of them, and more students, are left to the proofs,
which depend on none of these bounds.

**The bounds.** `MaxTick` (ticks), `MaxCrashes` (crashes), the sets `Rooms` and
`Conns` (rooms allocated, requests made). `MaxSocks`, `MaxTick`, `MaxRooms`,
`MaxInbox` and `MaxTokens` (client), `MaxKey` (attacks), `MaxImages`, `MaxKeys`,
`MaxSets` (files and question sets of an exam) and `MaxJobs` (gradings of a sheet
that wait when another is asked for), `MaxEntries` (rows of a batch) and `MaxAtWork`
(transactions and declarations at once). `CHECK_DEADLOCK` is off for the
engine, the servers, the client and the avatar because they do stop: a battle at
its end, a server when every request has been made and no room is left, a
client without tokens, an avatar that is gone. `grading` and `school` check it.

**Fairness.** `FairSpec` asks weak fairness of each handler and each room's loop:
the Go scheduler runs what can run, its mutexes do not starve, and the HTTP
client gives up after 5 seconds, so `PostReturn` and `FetchFail` come. It also
assumes that a socket write returns, which the code does not enforce (no write
deadline: a hazard). Clients, crashes and Rails are not fair; `RespondingSpec`
(for `server_unsaved`) adds a Rails that handles or loses each request it is sent.

The client's `FairSpec` asks that the browser runs an effect that is due and a
callback that is to come, and that a recogniser which is started over and over
starts some time (strong, because the code stops and restarts it). The avatar's
asks that frames go on while the model is there and that a requested effect runs.
`Grading`'s asks that the workers serve the queues in order, so that a grading
that waits is taken although others come and go (strong, because the one worker is
busy in between), that the AI answers or the request times out, and that a query
that polls, which it does only while the sheet it has is pending or processing, is
answered some time. A first fetch that fails is never repeated by itself, so nothing
is asked of it: `SpinnerEnds` is about a sheet that is shown, and a screen without one
may load for ever (a hazard). Nothing is asked of students and teachers, of tokens, or of
the network. `school` has no fairness: a teacher need not do anything.

**Mutants.** Next to a definition stands, marked `Mutant`, the form it would
have after a plausible mistake (a missing re-check under the lock, a summoning
loop before the movement loop, an unlock left out of an error path). Each
property of a passing run is violated by one of them under the run's own bounds.
They are used in no specification.

## 4. Findings

* `engine_tie`: the comment in `tick_engine.go:119` promises a unique nearest
  target. Members of the first and third one-player team spawn on one spot, and
  the map order chooses between them.
* `server_late_join`: `stop` "closes the connections" (`room_runtime.go:142`), but
  a handler between `getOrCreate` and `addConn` registers afterwards and its
  connection stays open on a room that is gone.
* `server_replay`: input after the decision is to be refused
  (`docs/domain/contexts/battle.md:134`, `:153`), but start-data ignores the
  status, so opening a finished battle plays it again. Rails keeps the first
  verdict (`Record`); the players may be told another.
* `server_unsaved`: the result is to be saved (`battle.md:145`), but the error of
  `PostFinish` is dropped and nothing retries.
* `grading_stale`: a new key is to bring the AI's results up to date
  (`ocr_answer_key_job.rb:8`). A grading in flight under the old key writes `done`
  after the reset, and the new grading returns at once because it finds `done`.

Two further facts came out as theorems. The draw by simultaneous defeat of all
teams in `docs/ws-schema.md:91` cannot happen without `LeaderRule`
(`SomeoneStands`): the last player to strike is not struck. For the same reason
a battle within one team never ends (`LoneTeamNeverDecided`).

## 5. Proofs

`EngineTheorems` assumes what the constants' `ASSUME`s say: a roster of all
players, positive initial hit points for each player and subject (Rails' formula
starts at a positive base), finitely many subjects, at least one field. It assumes no bound on players,
teams, fields or ticks, and nothing of the numbers but that they are naturals.

* `VerdictInv` = `TypeOK`, `SomeoneStands`, `FinishedIdle`, `VerdictSound`.
  `VerdictSound` alone is not inductive: it says nothing between `StartTick` and
  `CheckVictory`, and a finished battle must not be stepped. `SomeoneStands` is
  preserved because `Hit(p, q)` has a standing `p` other than `q`; it excludes the
  empty set of survivors without `LeaderRule`.
* `SpacingInv` = `HitsAreSpaced`, `CooldownCoversLog`: the cooldown left covers the
  distance from the player's last logged blow, tick by tick.
* `LogTellsTheBattle`: the log is a blow-by-blow account. There is a sequence of hit
  points that starts with the initial ones, ends with the current ones, and goes from
  one to the next by exactly the logged blow, between two players who both still
  stood, with the damage of some of their subjects.
* `LogAccountsForDamage` compares totals. They are stated as sizes of sets of points,
  numbered (entry, point) and (subject, point), because a sum over a log would need
  induction over data. `AccountInv`: the sets are finite, hit points do not exceed the
  initial ones, and a blow adds as many points to the one as to the other, or fewer when
  it is the last.
* `LogStaysBounded`: every entry takes a point that none took before, so the log has no
  more entries than the start data have hit points.
* `DecidedByABlow`, `OnlyAnAttackDecides`: some entry of a decided battle's last tick
  shows who fell then. `BattleServer`'s `Step` gives a verdict only in a room in which
  somebody fights; here that guard is proved of the engine.
* `ImplementsElimination`: a hit maps to `Fall` or to a stutter, `CheckVictory` to
  `Decide` or to a stutter, the rest to stutters.

`ServerTheorems` assumes that `None` is no connection, room or verdict.

* `RegistryInv` = `OneLoop`, `LockHeld`. `OneLoop` needs that the lock is held by
  nobody while a room exists, so that a fetch never ends in a second room.
* `RoomInv` = `HandlersJoin`, `RoomsKnowTheirOwn`, `VerdictReached`: a handler's room
  was made, a room's connections are its own and have been upgraded, and a room
  has a verdict exactly from its deciding step on.
* `TalkInv` = `ToldTheTruth`, `ToldInBroadcast`, `BroadcastProgress`: how far each
  write loop has come. It implies `AudienceHears`.
* `DecidedRoomMovesOn` is what `DecidedRoomLeaves` rests on besides fairness: the verdict
  stays, and each step of the goroutine moves it on or shortens its outbox. In the same
  way `LockNeverForgotten` goes with `RequestsAnswered`: the holder of the lock is
  between two steps of a fetch, and never waits for a room.
* `StopReachesAudience` draws the line around `server_late_join`: a connection of the
  deciding step is closed, or a newer one of its user has taken its place
  (`OnlyDisplacedStay`). Those who register after `stop` are the ones it misses.
* `ServerKeepsRecord`: `Lookup`, `Acquire` and `FetchOk` map to `Join`, a deciding
  `Step` to `Reach`, `WriteFinished` to `Tell`, `RailsFinish` to `Record`, each or
  to a stutter; everything else, `Crash` included, stutters.

`ClientTheorems` assumes that the bounds are numbers and that `None` is no battle,
number or message. It proves every safety property of `client`:

* `ClientInv` relates the page to the sockets. `Handled`: only `wsRef`'s socket has
  handlers, and it is of the page's battle. `MailHonest`: what is on its way there is
  of this battle, and a verdict among it was reached by one of its rooms and follows
  a state, delivered or still on its way. `StoreSound`, `ShownSound`: so are the
  store's contents while a battle is shown, and the result page's. None of the three
  properties is inductive: they read the store, whose contents come from the sockets.
  `Handled` is what makes a store that outlives its page harmless.
* `OutcomeCorrect`, `ResultPageCorrect` follow, because the store's state is of the
  battle that the verdict is of. `ResultPageSound` lets the page name nobody: that is
  Rails' answer before it has a result, and the page then says LOSE to everyone.
* `TriggersGoHome` combines `Handled` with `TriggerAtHome`: a trigger is of the screen
  that is shown, whose refs go when it does, and the socket is of the page's battle.
* `ClientShowsOneBattle`: `Enter` maps to `Open`, `Deliver` to `See`, `Tell` or a
  stutter, `Leave` to `Shut`, a deciding tick to `Reach`; the rest stutters.

`AvatarTheorems` assumes that every policy interrupts a clip or queues behind it (the
code's three do), that the clip, the fades and the frames take time, and that
`NoKey` is no number. It assumes nothing of their proportions: a clip may be shorter
than its fades, a frame longer than a clip. It proves every safety property of
`avatar` and the refinement:

* `AvatarInv` = `TypeOK`, `LoadsInOrder`, `KeysInOrder`, `Consistent`. `Consistent` is
  made of `Attuned` and `Tracks`. `Attuned` is what `PhaseFollowsClip` lacks to be
  inductive: it also says that a clip which has faded to nothing is disabled, or the next
  update of the mixer would give it its weight back. `Tracks` says that the last request
  handed over is the last one played, or waits for an older one; `NoRequestLost`
  follows.
* `CtlStep` is all that can become of a controller in one step.
* `AvatarPlaysOnce`: a decision that plays a clip, on a request, for the pending one or on
  recovery, maps to `Play`; one that starts to recover to `End`; the end of the recovery to
  `Settle`; `Unmount` to `Close`. The rest stutters, `ModelLoaded` too, which resets
  a controller nothing was ever asked of.
* `NothingHoldsItUp` is what `ReturnsToBase` rests on besides the frames: as long as phase
  and clip stay, each update of the mixer takes the clip, or its fade, on by the time of
  the frame, and nothing else touches it (`NothingSetsBack`). `BaseUp`: the base has its full weight once the
  layers are tended, so the way back ends in the frame in which the overlay is gone.

`GradingTheorems` assumes a positive number of tries, a finite set of question
numbers and that `None` is no exam.

* `NoSheetForgotten` is not inductive: a job that finds no key, or no image, stops and
  leaves the sheet as it is. `SheetsSeenTo` adds that a sheet is at work only when its
  exam has a key and it has an image, neither of which is ever taken back, and names
  the job (waiting, with the worker, or still to be asked for) for each state.
* `LeftOutOnlyIfReplaced`: the button counts marks, and asks for as many as there are
  questions (`SubmitScreen.tsx:841`), which is not "all questions" (`:847`). A teacher
  who replaces the questions, opens the sheet with those of the cache and marks them can
  send a score that leaves out the new ones. The theorem says that this is the only
  way. `MarksKnown`: the marks are of questions that the exam on the desk has or had,
  and no query has seen questions still to come. So without a mark of an earlier set
  they are a subset of the questions, and one as large as a finite set is the set.
* `FirstKeyNeverStale` draws the line around `grading_stale`: while the first key stands,
  results are of it, and so is what any job carries (`ResultsOfAKey`). Only a second key
  can make them stale.

`SchoolTheorems` assumes finitely many students, at least one class and scores that
are naturals.

* `TypeOK` includes that the blocks of an assignment by score are classes, for every
  number of students and classes.
* `WhoStaysFights`: `AttackersWere` says that the attackers of a half-made declaration are
  those who were in their class at the first read; the second read gives the defenders.
  A class at war with itself would have those who stay on both sides, which the check
  for double entries refuses.
* `AllOrNothing` follows from `Settled`: what is left of a batch is its end, and each
  row before it is written, or replaced by a later one of the student, or found to be so
  already. A row that was found to be so is not locked: who is moved after that and
  before the commit stays where they were moved to, so "as a whole" is said of the others.
* `BlocksFair`, for n listed students and K classes: the places of class c are those after
  `Edge(c - 1)` up to `Edge(c)`, where an edge is c * n / K rounded up. K times the size of a
  block then lies strictly between n - K and n + K, so two blocks differ by one at most.
* `OneLeader` alone is not inductive, because a batch commits several rows at once.
  `LeadersApart` says it of the classes as committed and as written by the batches, where
  a batch may have moved one leader into the class it has moved another out of; those an
  appointment has dismissed count as leaders until it commits. `IndexKeepsApart`: an entry
  that neither fails nor waits meets no other leader.

Model-checked only: the liveness properties (`DecidedRoomLeaves`, `RequestsAnswered`,
`VoiceListens`, `MicGivenBack`, `ReturnsToBase`, `GradingEnds`, `SpinnerEnds`), since
fairness and ENABLED are out of the prover's reach, and the violations. Where it says
most, the part of a liveness property that is a matter of single steps is a theorem
(`DecidedRoomMovesOn`, `LockNeverForgotten`, `NoSheetForgotten`, `NothingHoldsItUp`).
Every other property of a passing run is a theorem.

## 6. Not modelled

* Of the modelled parts: message formats, token verification, floating point, names
  and display data, the tick's wall-clock length, several battle ids on the server
  (they share only the registry's lock, whose holder `server_live` shows to leave).
* Scores and beasts: a formula over the newest score and one upsert per score. Their
  one race, two teachers who score one student at once, is listed as a hazard; the
  next score repairs it. What a battle takes of a beast is data of `BattleEngine`.
* Accounts: single rows behind a unique index. A late success of an edit closes the
  dialog of another user (`UserManagementScreen.tsx:71`); nothing else reads it.
* Classes are made by `ClassAddForm` and never change afterwards; the model starts
  with them. The list of exams is cached, so a new one may not be there yet
  (`ExamCreateScreen.tsx:98`); the screens choose among those they know.
* In grading, points and texts, the image beside the AI's marks and the deviation
  value: data that no step looks at. In the dashboards, filters, tables and charts:
  rendering over one query each.
* Deployment: shell scripts around docker and ssh, run by hand or by a pipeline one
  at a time; nothing of the running system depends on their state.

Map and container build files, CI and generated API types carry no behaviour of
their own.
