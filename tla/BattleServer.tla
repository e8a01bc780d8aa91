---------------------------- MODULE BattleServer ----------------------------
(***************************************************************************)
(* The rooms of one battle id on the game server, from the WebSocket       *)
(* handlers that open it to the Rails record that outlives it:             *)
(* game/internal/wshandler, railsclient, and Battles::Finish.              *)
(*                                                                         *)
(* Goroutines are one handler per connection and one tick loop per room.   *)
(* An action is a critical section of roomRuntime.mu or Registry.mu, one   *)
(* network write, or one step of a call to Rails.  The battle inside a     *)
(* room is BattleEngine; here it is only undecided or decided, and can be  *)
(* decided only while a latched input holds the attack key.                *)
(***************************************************************************)
EXTENDS Integers, FiniteSets

CONSTANTS
  Conns,      \* WebSocket requests, one handler each
  Users, UserOf, \* connection -> the user of its token
  Rooms,      \* roomRuntime objects that may be allocated
  Winners,    \* the verdicts a room can reach
  None,
  MaxCrashes  \* bound: how often the game server process is lost

ASSUME ServerAssumption ==
  /\ UserOf \in [Conns -> Users]
  /\ None \notin Conns \cup Rooms \cup Winners
  /\ MaxCrashes \in Nat

VARIABLES
  (* the handlers *)
  pc,       \* where the handler stands
  rt,       \* the room getOrCreate gave it
  ws,       \* its WebSocket: "none" before the upgrade, "open", "closed"
  seen,     \* whether it was sent the state that decided the battle
  told,     \* the verdict of the finished message it was sent
  (* the registry *)
  registry, \* the room under the battle id
  lock,     \* the handler that holds Registry.mu for writing
  (* the rooms *)
  run,      \* where the room's goroutine stands
  conns,    \* room -> user -> connection
  fights,   \* room -> the users whose latest input attacks
  result,   \* room -> the verdict of its battle
  audience, \* room -> the copy of conns the current step broadcasts to
  outbox,   \* room -> those of them the current broadcast has still to write to
  (* Rails, and the failures *)
  posts,    \* rooms whose finish request is on its way
  recorded, \* the verdict of the finished battle
  crashes

handlerVars == <<pc, rt, ws, seen, told>>
roomVars == <<run, conns, fights, result, audience, outbox>>
vars == <<handlerVars, registry, lock, roomVars, posts, recorded, crashes>>

\* The goroutine of the room exists and its registry entry has not been removed.
Live == {"tick", "state", "fin", "post", "stop", "exit"}

Init ==
  /\ pc = [c \in Conns |-> "idle"] /\ rt = [c \in Conns |-> None]
  /\ ws = [c \in Conns |-> "none"]
  /\ seen = [c \in Conns |-> FALSE] /\ told = [c \in Conns |-> None]
  /\ registry = None /\ lock = None
  /\ run = [r \in Rooms |-> "fresh"]
  /\ conns = [r \in Rooms |-> [u \in Users |-> None]]
  /\ fights = [r \in Rooms |-> {}]
  /\ result = [r \in Rooms |-> None]
  /\ audience = [r \in Rooms |-> {}] /\ outbox = [r \in Rooms |-> {}]
  /\ posts = {} /\ recorded = None /\ crashes = 0

-----------------------------------------------------------------------------
(* handleBattle and getOrCreate *)

Goto(c, from, to) == pc[c] = from /\ pc' = [pc EXCEPT ![c] = to]

\* A request with a battle id and a token that verifies; any other is answered
\* with an error and leaves no trace.
Request(c) ==
  /\ Goto(c, "idle", "lookup")
  /\ UNCHANGED <<rt, ws, seen, told, registry, lock, roomVars, posts, recorded, crashes>>

\* getOrCreate has its room.
Found(c, from, r) ==
  /\ Goto(c, from, "upgrade")
  /\ rt' = [rt EXCEPT ![c] = r]

\* The read under RLock, which waits for a writer to be gone.
Lookup(c) ==
  /\ lock = None
  /\ \/ registry # None /\ Found(c, "lookup", registry)
     \/ registry = None /\ Goto(c, "lookup", "wait") /\ UNCHANGED rt
  /\ UNCHANGED <<ws, seen, told, registry, lock, roomVars, posts, recorded, crashes>>

\* Mutant: the registry is not read again under the write lock.
AcquireUnchecked(c) ==
  /\ lock = None
  /\ Goto(c, "wait", "fetch") /\ lock' = c
  /\ UNCHANGED <<rt, ws, seen, told, registry, roomVars, posts, recorded, crashes>>

\* The write lock is taken and the registry read again; without a room the
\* lock is kept while the start data is fetched.
Acquire(c) ==
  /\ lock = None
  /\ \/ registry # None /\ Found(c, "wait", registry) /\ UNCHANGED lock
     \/ registry = None /\ Goto(c, "wait", "fetch") /\ lock' = c /\ UNCHANGED rt
  /\ UNCHANGED <<ws, seen, told, registry, roomVars, posts, recorded, crashes>>

\* Rails answers whatever the battle's status, and the tick loop is started.
FetchOk(c, r) ==
  /\ run[r] = "fresh"
  /\ Found(c, "fetch", r)
  /\ registry' = r /\ lock' = None
  /\ run' = [run EXCEPT ![r] = "tick"]
  /\ UNCHANGED <<ws, seen, told, conns, fights, result, audience, outbox,
                 posts, recorded, crashes>>

\* Mutant: the error path returns without the deferred unlock.
FetchFailLocked(c) ==
  /\ Goto(c, "fetch", "gone")
  /\ UNCHANGED <<rt, ws, seen, told, registry, lock, roomVars, posts, recorded, crashes>>

\* Rails is down or slow, or the client went away.
FetchFail(c) ==
  /\ Goto(c, "fetch", "gone")
  /\ lock' = None
  /\ UNCHANGED <<rt, ws, seen, told, registry, roomVars, posts, recorded, crashes>>

Upgrade(c) ==
  /\ \/ Goto(c, "upgrade", "opened") /\ ws' = [ws EXCEPT ![c] = "open"]
     \/ Goto(c, "upgrade", "gone") /\ UNCHANGED ws
  /\ UNCHANGED <<rt, seen, told, registry, lock, roomVars, posts, recorded, crashes>>

\* The newest caller wins the user's slot; a stopped room takes it as well.
AddConn(c) ==
  /\ Goto(c, "opened", "reading")
  /\ conns' = [conns EXCEPT ![rt[c]][UserOf[c]] = c]
  /\ UNCHANGED <<rt, ws, seen, told, registry, lock, run, fights, result, audience,
                 outbox, posts, recorded, crashes>>

\* readLoop latches the user's input; attacks tells whether it holds attack.
SetInput(c, attacks) ==
  /\ pc[c] = "reading" /\ ws[c] = "open"
  /\ fights' = [fights EXCEPT ![rt[c]] =
       IF attacks THEN @ \cup {UserOf[c]} ELSE @ \ {UserOf[c]}]
  /\ UNCHANGED <<handlerVars, registry, lock, run, conns, result, audience, outbox,
                 posts, recorded, crashes>>

\* The client leaves, the network fails, or a message does not parse.
Drop(c) ==
  /\ ws[c] = "open"
  /\ ws' = [ws EXCEPT ![c] = "closed"]
  /\ UNCHANGED <<pc, rt, seen, told, registry, lock, roomVars, posts, recorded, crashes>>

\* A read from the closed socket fails and the handler returns; the room
\* keeps its entry in conns and its latched input.
ReadEnd(c) ==
  /\ ws[c] = "closed"
  /\ Goto(c, "reading", "gone")
  /\ UNCHANGED <<rt, ws, seen, told, registry, lock, roomVars, posts, recorded, crashes>>

-----------------------------------------------------------------------------
(* run, step and finish *)

\* Mutant: a user without a connection is broadcast to as well.
RegisteredOrNil(r) == {conns[r][u] : u \in Users}

\* The connections of the map conns.
Registered(r) == {conns[r][u] : u \in Users} \ {None}

\* Mutant: the deciding step sends the finished messages only.
StepNoLastState(r, w) ==
  /\ run[r] = "tick"
  /\ w # None => fights[r] # {}
  /\ result' = [result EXCEPT ![r] = w]
  /\ audience' = [audience EXCEPT ![r] = Registered(r)]
  /\ outbox' = [outbox EXCEPT ![r] = Registered(r)]
  /\ run' = [run EXCEPT ![r] = IF w = None THEN "state" ELSE "fin"]
  /\ UNCHANGED <<handlerVars, registry, lock, conns, fights, posts, recorded, crashes>>

\* The part of step under the mutex: the battle advances and the connections
\* are copied.
Step(r, w) ==
  /\ run[r] = "tick"
  /\ w # None => fights[r] # {}
  /\ result' = [result EXCEPT ![r] = w]
  /\ audience' = [audience EXCEPT ![r] = Registered(r)]
  /\ outbox' = [outbox EXCEPT ![r] = Registered(r)]
  /\ run' = [run EXCEPT ![r] = "state"]
  /\ UNCHANGED <<handlerVars, registry, lock, conns, fights, posts, recorded, crashes>>

\* One WriteJSON of the state; on a closed socket its error is dropped.
WriteState(r, c) ==
  /\ run[r] = "state" /\ c \in outbox[r]
  /\ outbox' = [outbox EXCEPT ![r] = @ \ {c}]
  /\ seen' = [seen EXCEPT ![c] = @ \/ (ws[c] = "open" /\ result[r] # None)]
  /\ UNCHANGED <<pc, rt, ws, told, registry, lock, run, conns, fights, result,
                 audience, posts, recorded, crashes>>

\* All states written: back to the ticker, or on to the finished messages.
EndState(r) ==
  /\ run[r] = "state" /\ outbox[r] = {}
  /\ \/ result[r] = None /\ run' = [run EXCEPT ![r] = "tick"] /\ UNCHANGED outbox
     \/ /\ result[r] # None
        /\ run' = [run EXCEPT ![r] = "fin"]
        /\ outbox' = [outbox EXCEPT ![r] = audience[r]]
  /\ UNCHANGED <<handlerVars, registry, lock, conns, fights, result, audience,
                 posts, recorded, crashes>>

WriteFinished(r, c) ==
  /\ run[r] = "fin" /\ c \in outbox[r]
  /\ outbox' = [outbox EXCEPT ![r] = @ \ {c}]
  /\ told' = IF ws[c] = "open" THEN [told EXCEPT ![c] = result[r]] ELSE told
  /\ UNCHANGED <<pc, rt, ws, seen, registry, lock, run, conns, fights, result,
                 audience, posts, recorded, crashes>>

\* Mutant: finish does not wait for the broadcast.
PostEarly(r) ==
  /\ run[r] = "fin"
  /\ run' = [run EXCEPT ![r] = "post"]
  /\ posts' = posts \cup {r}
  /\ UNCHANGED <<handlerVars, registry, lock, conns, fights, result, audience, outbox,
                 recorded, crashes>>

\* finish sends the result; the room no longer listens to its ticker.
PostFinish(r) ==
  /\ run[r] = "fin" /\ outbox[r] = {}
  /\ run' = [run EXCEPT ![r] = "post"]
  /\ posts' = posts \cup {r}
  /\ UNCHANGED <<handlerVars, registry, lock, conns, fights, result, audience, outbox,
                 recorded, crashes>>

\* Mutant: a Rails client without a timeout.
PostReturnAnswered(r) ==
  /\ run[r] = "post" /\ r \notin posts
  /\ run' = [run EXCEPT ![r] = "stop"]
  /\ UNCHANGED <<handlerVars, registry, lock, conns, fights, result, audience, outbox,
                 posts, recorded, crashes>>

\* PostFinish returns, with an answer or by its 5 second timeout; finish
\* ignores which.
PostReturn(r) ==
  /\ run[r] = "post"
  /\ run' = [run EXCEPT ![r] = "stop"]
  /\ UNCHANGED <<handlerVars, registry, lock, conns, fights, result, audience, outbox,
                 posts, recorded, crashes>>

\* stop closes the connections that are registered now.
Stop(r) ==
  /\ run[r] = "stop"
  /\ run' = [run EXCEPT ![r] = "exit"]
  /\ ws' = [c \in Conns |-> IF c \in Registered(r) THEN "closed" ELSE ws[c]]
  /\ UNCHANGED <<pc, rt, seen, told, registry, lock, conns, fights, result, audience,
                 outbox, posts, recorded, crashes>>

Remove(r) ==
  /\ run[r] = "exit" /\ lock = None
  /\ run' = [run EXCEPT ![r] = "over"]
  /\ registry' = None
  /\ UNCHANGED <<handlerVars, lock, conns, fights, result, audience, outbox,
                 posts, recorded, crashes>>

-----------------------------------------------------------------------------
(* Rails, and the failures of the processes and the network *)

\* Mutant: a finished battle is overwritten.
RailsOverwrite(r) ==
  /\ r \in posts
  /\ posts' = posts \ {r}
  /\ recorded' = result[r]
  /\ UNCHANGED <<handlerVars, registry, lock, roomVars, crashes>>

\* Battles::Finish under the row lock: a battle already finished is left alone.
RailsFinish(r) ==
  /\ r \in posts
  /\ posts' = posts \ {r}
  /\ recorded' = IF recorded = None THEN result[r] ELSE recorded
  /\ UNCHANGED <<handlerVars, registry, lock, roomVars, crashes>>

\* The request never reaches Rails, or its transaction is rolled back.
PostLost(r) ==
  /\ r \in posts
  /\ posts' = posts \ {r}
  /\ UNCHANGED <<handlerVars, registry, lock, roomVars, recorded, crashes>>

\* The game server process is lost or redeployed with all it kept in memory;
\* a request already sent may still arrive.
Crash ==
  /\ crashes < MaxCrashes /\ crashes' = crashes + 1
  /\ pc' = [c \in Conns |-> IF pc[c] = "idle" THEN "idle" ELSE "gone"]
  /\ ws' = [c \in Conns |-> IF ws[c] = "open" THEN "closed" ELSE ws[c]]
  /\ run' = [r \in Rooms |-> IF run[r] = "fresh" THEN "fresh" ELSE "over"]
  /\ registry' = None /\ lock' = None
  /\ UNCHANGED <<rt, seen, told, conns, fights, result, audience, outbox, posts, recorded>>

HandlerStep(c) ==
  \/ Lookup(c) \/ Acquire(c) \/ FetchFail(c) \/ Upgrade(c) \/ AddConn(c) \/ ReadEnd(c)
  \/ \E r \in Rooms : FetchOk(c, r)

RoomStep(r) ==
  \/ \E w \in Winners \cup {None} : Step(r, w)
  \/ \E c \in Conns : WriteState(r, c) \/ WriteFinished(r, c)
  \/ EndState(r) \/ PostFinish(r) \/ PostReturn(r) \/ Stop(r) \/ Remove(r)

ClientStep(c) == Request(c) \/ Drop(c) \/ \E a \in BOOLEAN : SetInput(c, a)

RailsStep(r) == RailsFinish(r) \/ PostLost(r)

Next ==
  \/ \E c \in Conns : HandlerStep(c)
  \/ \E r \in Rooms : RoomStep(r)
  \/ \E c \in Conns : ClientStep(c)
  \/ \E r \in Rooms : RailsStep(r)
  \/ Crash

Spec == Init /\ [][Next]_vars

\* The Go scheduler runs every goroutine that can run, its mutexes do not
\* starve a waiter, and the Rails client gives up after 5 seconds; a write to
\* a socket is taken to return.  Clients, Rails and crashes are not fair.
FairSpec ==
  /\ Spec
  /\ \A c \in Conns : WF_vars(HandlerStep(c))
  /\ \A r \in Rooms : WF_vars(RoomStep(r))

\* The same with a Rails that handles every request it gets, or loses it.
RespondingSpec == FairSpec /\ \A r \in Rooms : WF_vars(RailsStep(r))

-----------------------------------------------------------------------------
(* Properties *)

Joined == {"upgrade", "opened", "reading"}

\* The types of the server's state.
TypeOK ==
  /\ pc \in [Conns -> {"idle", "lookup", "wait", "fetch", "gone"} \cup Joined]
  /\ rt \in [Conns -> Rooms \cup {None}]
  /\ ws \in [Conns -> {"none", "open", "closed"}]
  /\ seen \in [Conns -> BOOLEAN]
  /\ told \in [Conns -> Winners \cup {None}]
  /\ registry \in Rooms \cup {None} /\ lock \in Conns \cup {None}
  /\ run \in [Rooms -> {"fresh", "over"} \cup Live]
  /\ conns \in [Rooms -> [Users -> Conns \cup {None}]]
  /\ fights \in [Rooms -> SUBSET Users]
  /\ result \in [Rooms -> Winners \cup {None}]
  /\ audience \in [Rooms -> SUBSET Conns] /\ outbox \in [Rooms -> SUBSET Conns]
  /\ posts \subseteq Rooms /\ recorded \in Winners \cup {None} /\ crashes \in Nat

\* However many clients open the battle at once and however rooms end, the
\* goroutine of at most one room runs, and it is the one the registry names.
OneLoop == \A r \in Rooms : run[r] \in Live <=> registry = r

\* Nobody learns a verdict other than its own room's, nor before the state
\* that shows it, although the writes are spread over two unlocked loops.
ToldTheTruth ==
  \A c \in Conns : told[c] # None =>
    /\ rt[c] # None /\ told[c] = result[rt[c]]
    /\ seen[c]

\* Once the room is done talking, whoever was connected at the deciding tick
\* has the verdict or has lost its connection.
AudienceHears ==
  \A r \in Rooms : run[r] \in {"post", "stop", "exit"} =>
    \A c \in audience[r] : told[c] = result[r] \/ ws[c] = "closed"

\* The battle's outcome is kept as BattleRecord promises.
B == INSTANCE BattleRecord WITH joined <- rt, reached <- result
Record == B!Spec

\* A decided room leaves the registry, whether or not Rails ever answers.
DecidedRoomLeaves == \A r \in Rooms : result[r] # None ~> registry # r

\* Every accepted request gets an answer: no path keeps the registry locked.
RequestsAnswered ==
  \A c \in Conns : pc[c] = "lookup" ~> pc[c] \in {"opened", "reading", "gone"}

\* stop "closes the connections": a room that is gone holds no open one.
ClosedWhenOver ==
  \A c \in Conns : pc[c] = "reading" /\ rt[c] # None /\ run[rt[c]] = "over"
                      => ws[c] = "closed"

\* No input is taken and no state changed once the battle is finished for good.
FinishedStaysFinished == recorded # None => \A r \in Rooms : run[r] # "tick"

\* The outcome of a decided battle gets saved.
ResultSaved == \A r \in Rooms : result[r] # None ~> recorded # None
=============================================================================
