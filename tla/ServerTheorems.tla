--------------------------- MODULE ServerTheorems ---------------------------
(***************************************************************************)
(* What BattleServer guarantees for every number of connections, users,    *)
(* rooms, verdicts and crashes.                                            *)
(***************************************************************************)
EXTENDS BattleServer, TLAPS

-----------------------------------------------------------------------------
(* Types *)

LEMMA TypeStep == TypeOK /\ [Next]_vars => TypeOK'
<1> SUFFICES ASSUME TypeOK, [Next]_vars PROVE TypeOK'
  OBVIOUS
<1> USE ServerAssumption
    DEF TypeOK, handlerVars, roomVars, Live, Joined
<1>1. ASSUME NEW c \in Conns, Request(c) PROVE TypeOK'
  BY <1>1 DEF Request, Goto
<1>2. ASSUME NEW c \in Conns, Lookup(c) PROVE TypeOK'
  <2>1. CASE registry # None /\ Found(c, "lookup", registry)
    <3>1. registry \in Rooms
      BY <2>1
    <3> QED
      BY <1>2, <2>1, <3>1 DEF Lookup, Goto, Found
  <2>2. CASE registry = None /\ Goto(c, "lookup", "wait") /\ UNCHANGED rt
    BY <1>2, <2>2 DEF Lookup, Goto, Found
  <2> QED
    BY <1>2, <2>1, <2>2 DEF Lookup
<1>3. ASSUME NEW c \in Conns, Acquire(c) PROVE TypeOK'
  <2>1. CASE registry # None /\ Found(c, "wait", registry) /\ UNCHANGED lock
    <3>1. registry \in Rooms
      BY <2>1
    <3> QED
      BY <1>3, <2>1, <3>1 DEF Acquire, Goto, Found
  <2>2. CASE registry = None /\ Goto(c, "wait", "fetch") /\ lock' = c /\ UNCHANGED rt
    BY <1>3, <2>2 DEF Acquire, Goto, Found
  <2> QED
    BY <1>3, <2>1, <2>2 DEF Acquire
<1>4. ASSUME NEW c \in Conns, NEW r \in Rooms, FetchOk(c, r) PROVE TypeOK'
  BY <1>4 DEF FetchOk, Goto, Found
<1>5. ASSUME NEW c \in Conns, FetchFail(c) PROVE TypeOK'
  BY <1>5 DEF FetchFail, Goto
<1>6. ASSUME NEW c \in Conns, Upgrade(c) PROVE TypeOK'
  <2>1. CASE Goto(c, "upgrade", "opened") /\ ws' = [ws EXCEPT ![c] = "open"]
    BY <1>6, <2>1 DEF Upgrade, Goto
  <2>2. CASE Goto(c, "upgrade", "gone") /\ UNCHANGED ws
    BY <1>6, <2>2 DEF Upgrade, Goto
  <2> QED
    BY <1>6, <2>1, <2>2 DEF Upgrade
<1>7. ASSUME NEW c \in Conns, AddConn(c) PROVE TypeOK'
  BY <1>7 DEF AddConn, Goto
<1>8. ASSUME NEW c \in Conns, NEW a \in BOOLEAN, SetInput(c, a) PROVE TypeOK'
  <2> DEFINE held == IF a THEN fights[rt[c]] \cup {UserOf[c]} ELSE fights[rt[c]] \ {UserOf[c]}
  <2>1. fights' = [fights EXCEPT ![rt[c]] = held]
    BY <1>8 DEF SetInput
  <2>2. rt[c] \in Rooms => held \in SUBSET Users
  OBVIOUS
  <2>3. fights' \in [Rooms -> SUBSET Users]
    <3> HIDE DEF held
    <3> QED
      BY <2>1, <2>2
  <2> QED
    BY <1>8, <2>3 DEF SetInput
<1>9. ASSUME NEW c \in Conns, Drop(c) PROVE TypeOK'
  BY <1>9 DEF Drop
<1>10. ASSUME NEW c \in Conns, ReadEnd(c) PROVE TypeOK'
  BY <1>10 DEF ReadEnd, Goto
<1>11. ASSUME NEW r \in Rooms, NEW w \in Winners \cup {None}, Step(r, w) PROVE TypeOK'
  BY <1>11 DEF Step, Registered
<1>12. ASSUME NEW r \in Rooms, NEW c \in Conns, WriteState(r, c) PROVE TypeOK'
  BY <1>12 DEF WriteState
<1>13. ASSUME NEW r \in Rooms, EndState(r) PROVE TypeOK'
  <2>1. CASE run' = [run EXCEPT ![r] = "tick"] /\ UNCHANGED outbox
    BY <1>13, <2>1 DEF EndState
  <2>2. CASE run' = [run EXCEPT ![r] = "fin"] /\ outbox' = [outbox EXCEPT ![r] = audience[r]]
    BY <1>13, <2>2 DEF EndState
  <2> QED
    BY <1>13, <2>1, <2>2 DEF EndState
<1>14. ASSUME NEW r \in Rooms, NEW c \in Conns, WriteFinished(r, c) PROVE TypeOK'
  BY <1>14 DEF WriteFinished
<1>15. ASSUME NEW r \in Rooms, PostFinish(r) PROVE TypeOK'
  BY <1>15 DEF PostFinish
<1>16. ASSUME NEW r \in Rooms, PostReturn(r) PROVE TypeOK'
  BY <1>16 DEF PostReturn
<1>17. ASSUME NEW r \in Rooms, Stop(r) PROVE TypeOK'
  BY <1>17 DEF Stop, Registered
<1>18. ASSUME NEW r \in Rooms, Remove(r) PROVE TypeOK'
  BY <1>18 DEF Remove
<1>19. ASSUME NEW r \in Rooms, RailsFinish(r) PROVE TypeOK'
  BY <1>19 DEF RailsFinish
<1>20. ASSUME NEW r \in Rooms, PostLost(r) PROVE TypeOK'
  BY <1>20 DEF PostLost
<1>21. ASSUME Crash PROVE TypeOK'
  BY <1>21 DEF Crash
<1>22. CASE UNCHANGED vars
  BY <1>22 DEF vars
<1> QED
  BY <1>1, <1>2, <1>3, <1>4, <1>5, <1>6, <1>7, <1>8, <1>9, <1>10, <1>11, <1>12, <1>13,
     <1>14, <1>15, <1>16, <1>17, <1>18, <1>19, <1>20, <1>21, <1>22
  DEF Next, HandlerStep, RoomStep, ClientStep, RailsStep

\* The server's state is well-typed.
THEOREM ServerTypeCorrect == Spec => []TypeOK
<1>1. Init => TypeOK
  BY ServerAssumption DEF Init, TypeOK
<1> QED
  BY <1>1, TypeStep, PTL DEF Spec

-----------------------------------------------------------------------------
(* The registry and its lock *)

\* The lock is held by the handler that fetches the start data, and by nobody
\* while the battle has a room.
LockHeld ==
  /\ \A c \in Conns : lock = c <=> pc[c] = "fetch"
  /\ lock # None => registry = None

RegistryInv == OneLoop /\ LockHeld

LEMMA RegistryStep == TypeOK /\ RegistryInv /\ [Next]_vars => RegistryInv'
<1> SUFFICES ASSUME TypeOK, RegistryInv, [Next]_vars PROVE RegistryInv'
  OBVIOUS
<1> USE ServerAssumption
    DEF RegistryInv, OneLoop, LockHeld, TypeOK, handlerVars, roomVars, Live,
        Joined
<1>1. ASSUME NEW c \in Conns, Request(c) PROVE RegistryInv'
  BY <1>1 DEF Request, Goto
<1>2. ASSUME NEW c \in Conns, Lookup(c) PROVE RegistryInv'
  <2>1. CASE registry # None
    BY <1>2, <2>1 DEF Lookup, Goto, Found
  <2>2. CASE registry = None
    BY <1>2, <2>2 DEF Lookup, Goto, Found
  <2> QED
    BY <1>2, <2>1, <2>2
<1>3. ASSUME NEW c \in Conns, Acquire(c) PROVE RegistryInv'
  <2>1. CASE registry # None
    BY <1>3, <2>1 DEF Acquire, Goto, Found
  <2>2. CASE registry = None
    BY <1>3, <2>2 DEF Acquire, Goto, Found
  <2> QED
    BY <1>3, <2>1, <2>2
<1>4. ASSUME NEW c \in Conns, NEW r \in Rooms, FetchOk(c, r) PROVE RegistryInv'
  BY <1>4 DEF FetchOk, Goto, Found
<1>5. ASSUME NEW c \in Conns, FetchFail(c) PROVE RegistryInv'
  BY <1>5 DEF FetchFail, Goto
<1>6. ASSUME NEW c \in Conns, Upgrade(c) PROVE RegistryInv'
  BY <1>6 DEF Upgrade, Goto
<1>7. ASSUME NEW c \in Conns, AddConn(c) PROVE RegistryInv'
  BY <1>7 DEF AddConn, Goto
<1>8. ASSUME NEW c \in Conns, NEW a \in BOOLEAN, SetInput(c, a) PROVE RegistryInv'
  BY <1>8 DEF SetInput
<1>9. ASSUME NEW c \in Conns, Drop(c) PROVE RegistryInv'
  BY <1>9 DEF Drop
<1>10. ASSUME NEW c \in Conns, ReadEnd(c) PROVE RegistryInv'
  BY <1>10 DEF ReadEnd, Goto
<1>11. ASSUME NEW r \in Rooms, NEW w \in Winners \cup {None}, Step(r, w) PROVE RegistryInv'
  BY <1>11 DEF Step, Registered
<1>12. ASSUME NEW r \in Rooms, NEW c \in Conns, WriteState(r, c) PROVE RegistryInv'
  BY <1>12 DEF WriteState
<1>13. ASSUME NEW r \in Rooms, EndState(r) PROVE RegistryInv'
  <2>1. CASE result[r] = None
    BY <1>13, <2>1 DEF EndState
  <2>2. CASE result[r] # None
    BY <1>13, <2>2 DEF EndState
  <2> QED
    BY <1>13, <2>1, <2>2
<1>14. ASSUME NEW r \in Rooms, NEW c \in Conns, WriteFinished(r, c) PROVE RegistryInv'
  BY <1>14 DEF WriteFinished
<1>15. ASSUME NEW r \in Rooms, PostFinish(r) PROVE RegistryInv'
  BY <1>15 DEF PostFinish
<1>16. ASSUME NEW r \in Rooms, PostReturn(r) PROVE RegistryInv'
  BY <1>16 DEF PostReturn
<1>17. ASSUME NEW r \in Rooms, Stop(r) PROVE RegistryInv'
  BY <1>17 DEF Stop, Registered
<1>18. ASSUME NEW r \in Rooms, Remove(r) PROVE RegistryInv'
  BY <1>18 DEF Remove
<1>19. ASSUME NEW r \in Rooms, RailsFinish(r) PROVE RegistryInv'
  BY <1>19 DEF RailsFinish
<1>20. ASSUME NEW r \in Rooms, PostLost(r) PROVE RegistryInv'
  BY <1>20 DEF PostLost
<1>21. ASSUME Crash PROVE RegistryInv'
  BY <1>21 DEF Crash
<1>22. CASE UNCHANGED vars
  BY <1>22 DEF vars
<1> QED
  BY <1>1, <1>2, <1>3, <1>4, <1>5, <1>6, <1>7, <1>8, <1>9, <1>10, <1>11, <1>12, <1>13,
     <1>14, <1>15, <1>16, <1>17, <1>18, <1>19, <1>20, <1>21, <1>22
  DEF Next, HandlerStep, RoomStep, ClientStep, RailsStep

LEMMA RegistryInvariant == Spec => [](TypeOK /\ RegistryInv)
<1>1. Init => RegistryInv
  BY ServerAssumption DEF Init, RegistryInv, OneLoop, LockHeld, Live
<1> QED
  BY <1>1, RegistryStep, ServerTypeCorrect, PTL DEF Spec

\* The second look under the write lock, and the removal after the loop, keep
\* the battle to one running room.
THEOREM OneLoopAlways == Spec => []OneLoop
<1> QED
  BY RegistryInvariant, PTL DEF RegistryInv

-----------------------------------------------------------------------------
(* The handlers and their rooms *)

\* A handler has a room from getOrCreate on, a socket from the upgrade on, and
\* its room was really made.
HandlersJoin ==
  \A c \in Conns :
    /\ pc[c] \in Joined => rt[c] # None
    /\ rt[c] # None => pc[c] \in Joined \cup {"gone"} /\ run[rt[c]] # "fresh"
    /\ ws[c] # "none" => pc[c] \in {"opened", "reading", "gone"}
    /\ pc[c] \in {"opened", "reading"} => ws[c] # "none"

\* A room knows connections of its own only.
RoomsKnowTheirOwn ==
  \A r \in Rooms :
    /\ \A u \in Users : conns[r][u] # None => rt[conns[r][u]] = r /\ ws[conns[r][u]] # "none"
    /\ \A c \in audience[r] : rt[c] = r /\ ws[c] # "none"
    /\ outbox[r] \subseteq audience[r]

\* A room has a verdict from its deciding step on.
VerdictReached ==
  \A r \in Rooms :
    /\ run[r] \in {"fresh", "tick"} => result[r] = None
    /\ run[r] \in {"fin", "post", "stop", "exit"} => result[r] # None
    /\ r \in posts => result[r] # None

RoomInv == HandlersJoin /\ RoomsKnowTheirOwn /\ VerdictReached

LEMMA JoinStep ==
  TypeOK /\ RegistryInv /\ HandlersJoin /\ RoomsKnowTheirOwn /\ [Next]_vars => HandlersJoin'
<1> SUFFICES ASSUME TypeOK, RegistryInv, HandlersJoin, RoomsKnowTheirOwn, [Next]_vars
             PROVE  HandlersJoin'
  OBVIOUS
<1> USE ServerAssumption
    DEF HandlersJoin, RegistryInv, OneLoop, TypeOK, handlerVars, roomVars,
        Live, Joined
<1>1. ASSUME NEW c \in Conns, Request(c) PROVE HandlersJoin'
  BY <1>1 DEF Request, Goto
<1>2. ASSUME NEW c \in Conns, Lookup(c) PROVE HandlersJoin'
  <2>1. CASE registry # None /\ Found(c, "lookup", registry)
    BY <1>2, <2>1 DEF Lookup, Goto, Found
  <2>2. CASE registry = None /\ Goto(c, "lookup", "wait") /\ UNCHANGED rt
    BY <1>2, <2>2 DEF Lookup, Goto, Found
  <2> QED
    BY <1>2, <2>1, <2>2 DEF Lookup
<1>3. ASSUME NEW c \in Conns, Acquire(c) PROVE HandlersJoin'
  <2>1. CASE registry # None /\ Found(c, "wait", registry) /\ UNCHANGED lock
    BY <1>3, <2>1 DEF Acquire, Goto, Found
  <2>2. CASE registry = None /\ Goto(c, "wait", "fetch") /\ UNCHANGED rt /\ lock' = c
    BY <1>3, <2>2 DEF Acquire, Goto, Found
  <2> QED
    BY <1>3, <2>1, <2>2 DEF Acquire
<1>4. ASSUME NEW c \in Conns, NEW r \in Rooms, FetchOk(c, r) PROVE HandlersJoin'
  BY <1>4 DEF FetchOk, Goto, Found
<1>5. ASSUME NEW c \in Conns, FetchFail(c) PROVE HandlersJoin'
  BY <1>5 DEF FetchFail, Goto
<1>6. ASSUME NEW c \in Conns, Upgrade(c) PROVE HandlersJoin'
  <2>1. CASE Goto(c, "upgrade", "opened") /\ ws' = [ws EXCEPT ![c] = "open"]
    BY <1>6, <2>1 DEF Upgrade, Goto
  <2>2. CASE Goto(c, "upgrade", "gone") /\ UNCHANGED ws
    BY <1>6, <2>2 DEF Upgrade, Goto
  <2> QED
    BY <1>6, <2>1, <2>2 DEF Upgrade
<1>7. ASSUME NEW c \in Conns, AddConn(c) PROVE HandlersJoin'
  BY <1>7 DEF AddConn, Goto
<1>8. ASSUME NEW c \in Conns, NEW a \in BOOLEAN, SetInput(c, a) PROVE HandlersJoin'
  BY <1>8 DEF SetInput
<1>9. ASSUME NEW c \in Conns, Drop(c) PROVE HandlersJoin'
  BY <1>9 DEF Drop
<1>10. ASSUME NEW c \in Conns, ReadEnd(c) PROVE HandlersJoin'
  BY <1>10 DEF ReadEnd, Goto
<1>11. ASSUME NEW r \in Rooms, NEW w \in Winners \cup {None}, Step(r, w) PROVE HandlersJoin'
  BY <1>11 DEF Step, Registered
<1>12. ASSUME NEW r \in Rooms, NEW c \in Conns, WriteState(r, c) PROVE HandlersJoin'
  BY <1>12 DEF WriteState
<1>13. ASSUME NEW r \in Rooms, EndState(r) PROVE HandlersJoin'
  <2>1. CASE result[r] = None /\ run' = [run EXCEPT ![r] = "tick"] /\ UNCHANGED outbox
    BY <1>13, <2>1 DEF EndState
  <2>2. CASE /\ result[r] # None
             /\ run' = [run EXCEPT ![r] = "fin"]
             /\ outbox' = [outbox EXCEPT ![r] = audience[r]]
    BY <1>13, <2>2 DEF EndState
  <2> QED
    BY <1>13, <2>1, <2>2 DEF EndState
<1>14. ASSUME NEW r \in Rooms, NEW c \in Conns, WriteFinished(r, c) PROVE HandlersJoin'
  BY <1>14 DEF WriteFinished
<1>15. ASSUME NEW r \in Rooms, PostFinish(r) PROVE HandlersJoin'
  BY <1>15 DEF PostFinish
<1>16. ASSUME NEW r \in Rooms, PostReturn(r) PROVE HandlersJoin'
  BY <1>16 DEF PostReturn
<1>17. ASSUME NEW r \in Rooms, Stop(r) PROVE HandlersJoin'
  <2>1. \A d \in Registered(r) : ws[d] # "none"
    BY DEF Registered, RoomsKnowTheirOwn
  <2>2. \A d \in Conns : ws'[d] = "none" <=> ws[d] = "none"
    BY <1>17, <2>1 DEF Stop
  <2>3. UNCHANGED <<pc, rt>> /\ run' = [run EXCEPT ![r] = "exit"]
    BY <1>17 DEF Stop
  <2> QED
    BY <2>2, <2>3
<1>18. ASSUME NEW r \in Rooms, Remove(r) PROVE HandlersJoin'
  BY <1>18 DEF Remove
<1>19. ASSUME NEW r \in Rooms, RailsFinish(r) PROVE HandlersJoin'
  BY <1>19 DEF RailsFinish
<1>20. ASSUME NEW r \in Rooms, PostLost(r) PROVE HandlersJoin'
  BY <1>20 DEF PostLost
<1>21. ASSUME Crash PROVE HandlersJoin'
  BY <1>21 DEF Crash
<1>22. CASE UNCHANGED vars
  BY <1>22 DEF vars
<1> QED
  BY <1>1, <1>2, <1>3, <1>4, <1>5, <1>6, <1>7, <1>8, <1>9, <1>10, <1>11, <1>12, <1>13,
     <1>14, <1>15, <1>16, <1>17, <1>18, <1>19, <1>20, <1>21, <1>22
  DEF Next, HandlerStep, RoomStep, ClientStep, RailsStep

LEMMA OwnStep == TypeOK /\ HandlersJoin /\ RoomsKnowTheirOwn /\ [Next]_vars => RoomsKnowTheirOwn'
<1> SUFFICES ASSUME TypeOK, HandlersJoin, RoomsKnowTheirOwn, [Next]_vars PROVE RoomsKnowTheirOwn'
  OBVIOUS
<1> USE ServerAssumption
    DEF RoomsKnowTheirOwn, HandlersJoin, TypeOK, handlerVars, roomVars, Live,
        Joined
<1>1. ASSUME NEW c \in Conns, Request(c) PROVE RoomsKnowTheirOwn'
  BY <1>1 DEF Request, Goto
<1>2. ASSUME NEW c \in Conns, Lookup(c) PROVE RoomsKnowTheirOwn'
  <2>1. rt[c] = None
    BY ONLY <1>2, HandlersJoin DEF Lookup, Goto, Found
  <2>2. UNCHANGED rt \/ rt' = [rt EXCEPT ![c] = registry]
    BY ONLY <1>2 DEF Lookup, Found
  <2>3. \A d \in Conns : rt[d] # None => rt'[d] = rt[d]
    BY ONLY <2>1, <2>2, TypeOK
  <2>4. UNCHANGED <<ws, conns, audience, outbox>>
    BY ONLY <1>2 DEF Lookup
  <2> QED
    BY ONLY <2>3, <2>4, TypeOK, RoomsKnowTheirOwn, ServerAssumption
<1>3. ASSUME NEW c \in Conns, Acquire(c) PROVE RoomsKnowTheirOwn'
  <2>1. rt[c] = None
    BY ONLY <1>3, HandlersJoin DEF Acquire, Goto, Found
  <2>2. UNCHANGED rt \/ rt' = [rt EXCEPT ![c] = registry]
    BY ONLY <1>3 DEF Acquire, Found
  <2>3. \A d \in Conns : rt[d] # None => rt'[d] = rt[d]
    BY ONLY <2>1, <2>2, TypeOK
  <2>4. UNCHANGED <<ws, conns, audience, outbox>>
    BY ONLY <1>3 DEF Acquire
  <2> QED
    BY ONLY <2>3, <2>4, TypeOK, RoomsKnowTheirOwn, ServerAssumption
<1>4. ASSUME NEW c \in Conns, NEW r \in Rooms, FetchOk(c, r) PROVE RoomsKnowTheirOwn'
  <2>1. rt[c] = None
    BY ONLY <1>4, HandlersJoin DEF FetchOk, Goto, Found
  <2>2. UNCHANGED rt \/ rt' = [rt EXCEPT ![c] = r]
    BY ONLY <1>4 DEF FetchOk, Found
  <2>3. \A d \in Conns : rt[d] # None => rt'[d] = rt[d]
    BY ONLY <2>1, <2>2, TypeOK
  <2>4. UNCHANGED <<ws, conns, audience, outbox>>
    BY ONLY <1>4 DEF FetchOk
  <2> QED
    BY ONLY <2>3, <2>4, TypeOK, RoomsKnowTheirOwn, ServerAssumption
<1>5. ASSUME NEW c \in Conns, FetchFail(c) PROVE RoomsKnowTheirOwn'
  BY <1>5 DEF FetchFail, Goto
<1>6. ASSUME NEW c \in Conns, Upgrade(c) PROVE RoomsKnowTheirOwn'
  <2>1. CASE Goto(c, "upgrade", "opened") /\ ws' = [ws EXCEPT ![c] = "open"]
    BY <1>6, <2>1 DEF Upgrade, Goto
  <2>2. CASE Goto(c, "upgrade", "gone") /\ UNCHANGED ws
    BY <1>6, <2>2 DEF Upgrade, Goto
  <2> QED
    BY <1>6, <2>1, <2>2 DEF Upgrade
<1>7. ASSUME NEW c \in Conns, AddConn(c) PROVE RoomsKnowTheirOwn'
  BY <1>7 DEF AddConn, Goto
<1>8. ASSUME NEW c \in Conns, NEW a \in BOOLEAN, SetInput(c, a) PROVE RoomsKnowTheirOwn'
  BY <1>8 DEF SetInput
<1>9. ASSUME NEW c \in Conns, Drop(c) PROVE RoomsKnowTheirOwn'
  BY <1>9 DEF Drop
<1>10. ASSUME NEW c \in Conns, ReadEnd(c) PROVE RoomsKnowTheirOwn'
  BY <1>10 DEF ReadEnd, Goto
<1>11. ASSUME NEW r \in Rooms, NEW w \in Winners \cup {None}, Step(r, w) PROVE RoomsKnowTheirOwn'
  BY <1>11 DEF Step, Registered
<1>12. ASSUME NEW r \in Rooms, NEW c \in Conns, WriteState(r, c) PROVE RoomsKnowTheirOwn'
  BY <1>12 DEF WriteState
<1>13. ASSUME NEW r \in Rooms, EndState(r) PROVE RoomsKnowTheirOwn'
  <2>1. CASE result[r] = None /\ run' = [run EXCEPT ![r] = "tick"] /\ UNCHANGED outbox
    BY <1>13, <2>1 DEF EndState
  <2>2. CASE /\ result[r] # None
             /\ run' = [run EXCEPT ![r] = "fin"]
             /\ outbox' = [outbox EXCEPT ![r] = audience[r]]
    BY <1>13, <2>2 DEF EndState
  <2> QED
    BY <1>13, <2>1, <2>2 DEF EndState
<1>14. ASSUME NEW r \in Rooms, NEW c \in Conns, WriteFinished(r, c) PROVE RoomsKnowTheirOwn'
  BY <1>14 DEF WriteFinished
<1>15. ASSUME NEW r \in Rooms, PostFinish(r) PROVE RoomsKnowTheirOwn'
  BY <1>15 DEF PostFinish
<1>16. ASSUME NEW r \in Rooms, PostReturn(r) PROVE RoomsKnowTheirOwn'
  BY <1>16 DEF PostReturn
<1>17. ASSUME NEW r \in Rooms, Stop(r) PROVE RoomsKnowTheirOwn'
  BY <1>17 DEF Stop, Registered
<1>18. ASSUME NEW r \in Rooms, Remove(r) PROVE RoomsKnowTheirOwn'
  BY <1>18 DEF Remove
<1>19. ASSUME NEW r \in Rooms, RailsFinish(r) PROVE RoomsKnowTheirOwn'
  BY <1>19 DEF RailsFinish
<1>20. ASSUME NEW r \in Rooms, PostLost(r) PROVE RoomsKnowTheirOwn'
  BY <1>20 DEF PostLost
<1>21. ASSUME Crash PROVE RoomsKnowTheirOwn'
  BY <1>21 DEF Crash
<1>22. CASE UNCHANGED vars
  BY <1>22 DEF vars
<1> QED
  BY <1>1, <1>2, <1>3, <1>4, <1>5, <1>6, <1>7, <1>8, <1>9, <1>10, <1>11, <1>12, <1>13,
     <1>14, <1>15, <1>16, <1>17, <1>18, <1>19, <1>20, <1>21, <1>22
  DEF Next, HandlerStep, RoomStep, ClientStep, RailsStep

LEMMA ReachedStep == TypeOK /\ VerdictReached /\ [Next]_vars => VerdictReached'
<1> SUFFICES ASSUME TypeOK, VerdictReached, [Next]_vars PROVE VerdictReached'
  OBVIOUS
<1> USE ServerAssumption
    DEF VerdictReached, TypeOK, handlerVars, roomVars, Live, Joined
<1>1. ASSUME NEW c \in Conns, Request(c) PROVE VerdictReached'
  BY <1>1 DEF Request, Goto
<1>2. ASSUME NEW c \in Conns, Lookup(c) PROVE VerdictReached'
  <2>1. CASE registry # None /\ Found(c, "lookup", registry)
    BY <1>2, <2>1 DEF Lookup, Goto, Found
  <2>2. CASE registry = None /\ Goto(c, "lookup", "wait") /\ UNCHANGED rt
    BY <1>2, <2>2 DEF Lookup, Goto, Found
  <2> QED
    BY <1>2, <2>1, <2>2 DEF Lookup
<1>3. ASSUME NEW c \in Conns, Acquire(c) PROVE VerdictReached'
  <2>1. CASE registry # None /\ Found(c, "wait", registry) /\ UNCHANGED lock
    BY <1>3, <2>1 DEF Acquire, Goto, Found
  <2>2. CASE registry = None /\ Goto(c, "wait", "fetch") /\ UNCHANGED rt /\ lock' = c
    BY <1>3, <2>2 DEF Acquire, Goto, Found
  <2> QED
    BY <1>3, <2>1, <2>2 DEF Acquire
<1>4. ASSUME NEW c \in Conns, NEW r \in Rooms, FetchOk(c, r) PROVE VerdictReached'
  BY <1>4 DEF FetchOk, Goto, Found
<1>5. ASSUME NEW c \in Conns, FetchFail(c) PROVE VerdictReached'
  BY <1>5 DEF FetchFail, Goto
<1>6. ASSUME NEW c \in Conns, Upgrade(c) PROVE VerdictReached'
  <2>1. CASE Goto(c, "upgrade", "opened") /\ ws' = [ws EXCEPT ![c] = "open"]
    BY <1>6, <2>1 DEF Upgrade, Goto
  <2>2. CASE Goto(c, "upgrade", "gone") /\ UNCHANGED ws
    BY <1>6, <2>2 DEF Upgrade, Goto
  <2> QED
    BY <1>6, <2>1, <2>2 DEF Upgrade
<1>7. ASSUME NEW c \in Conns, AddConn(c) PROVE VerdictReached'
  BY <1>7 DEF AddConn, Goto
<1>8. ASSUME NEW c \in Conns, NEW a \in BOOLEAN, SetInput(c, a) PROVE VerdictReached'
  BY <1>8 DEF SetInput
<1>9. ASSUME NEW c \in Conns, Drop(c) PROVE VerdictReached'
  BY <1>9 DEF Drop
<1>10. ASSUME NEW c \in Conns, ReadEnd(c) PROVE VerdictReached'
  BY <1>10 DEF ReadEnd, Goto
<1>11. ASSUME NEW r \in Rooms, NEW w \in Winners \cup {None}, Step(r, w) PROVE VerdictReached'
  BY <1>11 DEF Step, Registered
<1>12. ASSUME NEW r \in Rooms, NEW c \in Conns, WriteState(r, c) PROVE VerdictReached'
  BY <1>12 DEF WriteState
<1>13. ASSUME NEW r \in Rooms, EndState(r) PROVE VerdictReached'
  <2>1. CASE result[r] = None /\ run' = [run EXCEPT ![r] = "tick"] /\ UNCHANGED outbox
    BY <1>13, <2>1 DEF EndState
  <2>2. CASE /\ result[r] # None
             /\ run' = [run EXCEPT ![r] = "fin"]
             /\ outbox' = [outbox EXCEPT ![r] = audience[r]]
    BY <1>13, <2>2 DEF EndState
  <2> QED
    BY <1>13, <2>1, <2>2 DEF EndState
<1>14. ASSUME NEW r \in Rooms, NEW c \in Conns, WriteFinished(r, c) PROVE VerdictReached'
  BY <1>14 DEF WriteFinished
<1>15. ASSUME NEW r \in Rooms, PostFinish(r) PROVE VerdictReached'
  BY <1>15 DEF PostFinish
<1>16. ASSUME NEW r \in Rooms, PostReturn(r) PROVE VerdictReached'
  BY <1>16 DEF PostReturn
<1>17. ASSUME NEW r \in Rooms, Stop(r) PROVE VerdictReached'
  BY <1>17 DEF Stop, Registered
<1>18. ASSUME NEW r \in Rooms, Remove(r) PROVE VerdictReached'
  BY <1>18 DEF Remove
<1>19. ASSUME NEW r \in Rooms, RailsFinish(r) PROVE VerdictReached'
  BY <1>19 DEF RailsFinish
<1>20. ASSUME NEW r \in Rooms, PostLost(r) PROVE VerdictReached'
  BY <1>20 DEF PostLost
<1>21. ASSUME Crash PROVE VerdictReached'
  BY <1>21 DEF Crash
<1>22. CASE UNCHANGED vars
  BY <1>22 DEF vars
<1> QED
  BY <1>1, <1>2, <1>3, <1>4, <1>5, <1>6, <1>7, <1>8, <1>9, <1>10, <1>11, <1>12, <1>13,
     <1>14, <1>15, <1>16, <1>17, <1>18, <1>19, <1>20, <1>21, <1>22
  DEF Next, HandlerStep, RoomStep, ClientStep, RailsStep

LEMMA RoomInvariant == Spec => [](TypeOK /\ RegistryInv /\ RoomInv)
<1>1. Init => RoomInv
  BY ServerAssumption DEF Init, RoomInv, HandlersJoin, RoomsKnowTheirOwn, VerdictReached, Joined
<1> QED
  BY <1>1, JoinStep, OwnStep, ReachedStep, RegistryInvariant, PTL DEF Spec, RoomInv

-----------------------------------------------------------------------------
(* What the players are told *)

\* Whoever was told, was told in the room's last broadcast and off its list.
ToldInBroadcast ==
  \A c \in Conns : told[c] # None =>
    /\ run[rt[c]] \in {"fin", "post", "stop", "exit", "over"}
    /\ run[rt[c]] = "fin" => c \notin outbox[rt[c]]

\* How far the broadcasts of the deciding step have come.
BroadcastProgress ==
  \A r \in Rooms : \A c \in audience[r] : ws[c] # "closed" =>
    /\ run[r] = "state" /\ result[r] # None /\ c \notin outbox[r] => seen[c]
    /\ run[r] \in {"fin", "post", "stop", "exit"} => seen[c]
    /\ run[r] = "fin" /\ c \notin outbox[r] => told[c] = result[r]
    /\ run[r] \in {"post", "stop", "exit"} => told[c] = result[r]

TalkInv == ToldTheTruth /\ ToldInBroadcast /\ BroadcastProgress

LEMMA ProgressStep == TypeOK /\ RoomInv /\ BroadcastProgress /\ [Next]_vars => BroadcastProgress'
<1> SUFFICES ASSUME TypeOK, RoomInv, BroadcastProgress, [Next]_vars PROVE BroadcastProgress'
  OBVIOUS
<1> USE ServerAssumption
    DEF BroadcastProgress, HandlersJoin, RoomsKnowTheirOwn, VerdictReached,
        RoomInv, TypeOK, handlerVars, roomVars, Live, Joined
<1>1. ASSUME NEW c \in Conns, Request(c) PROVE BroadcastProgress'
  BY <1>1 DEF Request, Goto
<1>2. ASSUME NEW c \in Conns, Lookup(c) PROVE BroadcastProgress'
  <2>1. CASE registry # None /\ Found(c, "lookup", registry)
    BY <1>2, <2>1 DEF Lookup, Goto, Found
  <2>2. CASE registry = None /\ Goto(c, "lookup", "wait") /\ UNCHANGED rt
    BY <1>2, <2>2 DEF Lookup, Goto, Found
  <2> QED
    BY <1>2, <2>1, <2>2 DEF Lookup
<1>3. ASSUME NEW c \in Conns, Acquire(c) PROVE BroadcastProgress'
  <2>1. CASE registry # None /\ Found(c, "wait", registry) /\ UNCHANGED lock
    BY <1>3, <2>1 DEF Acquire, Goto, Found
  <2>2. CASE registry = None /\ Goto(c, "wait", "fetch") /\ UNCHANGED rt /\ lock' = c
    BY <1>3, <2>2 DEF Acquire, Goto, Found
  <2> QED
    BY <1>3, <2>1, <2>2 DEF Acquire
<1>4. ASSUME NEW c \in Conns, NEW r \in Rooms, FetchOk(c, r) PROVE BroadcastProgress'
  BY <1>4 DEF FetchOk, Goto, Found
<1>5. ASSUME NEW c \in Conns, FetchFail(c) PROVE BroadcastProgress'
  BY <1>5 DEF FetchFail, Goto
<1>6. ASSUME NEW c \in Conns, Upgrade(c) PROVE BroadcastProgress'
  <2>1. \A q \in Rooms : c \notin audience[q]
    BY <1>6 DEF Upgrade, Goto
  <2>2. \A q \in Rooms : \A d \in audience[q] : ws'[d] = ws[d]
    BY <1>6, <2>1 DEF Upgrade
  <2>3. UNCHANGED <<seen, told, run, result, audience, outbox>>
    BY <1>6 DEF Upgrade
  <2> QED
    BY <2>2, <2>3
<1>7. ASSUME NEW c \in Conns, AddConn(c) PROVE BroadcastProgress'
  BY <1>7 DEF AddConn, Goto
<1>8. ASSUME NEW c \in Conns, NEW a \in BOOLEAN, SetInput(c, a) PROVE BroadcastProgress'
  BY <1>8 DEF SetInput
<1>9. ASSUME NEW c \in Conns, Drop(c) PROVE BroadcastProgress'
  BY <1>9 DEF Drop
<1>10. ASSUME NEW c \in Conns, ReadEnd(c) PROVE BroadcastProgress'
  BY <1>10 DEF ReadEnd, Goto
<1>11. ASSUME NEW r \in Rooms, NEW w \in Winners \cup {None}, Step(r, w) PROVE BroadcastProgress'
  BY <1>11 DEF Step, Registered
<1>12. ASSUME NEW r \in Rooms, NEW c \in Conns, WriteState(r, c) PROVE BroadcastProgress'
  <2>1. UNCHANGED <<ws, told, run, result, audience>>
    BY <1>12 DEF WriteState
  <2>2. run[r] = "state" /\ \A q \in Rooms \ {r} : outbox'[q] = outbox[q]
    BY <1>12 DEF WriteState
  <2>3. outbox'[r] = outbox[r] \ {c} /\ c \in audience[r]
    BY <1>12 DEF WriteState
  <2>4. \A d \in Conns : seen[d] => seen'[d]
    BY <1>12 DEF WriteState
  <2>5. ws[c] = "open" /\ result[r] # None => seen'[c]
    BY ONLY <1>12, TypeOK DEF WriteState
  <2>6. ws[c] # "closed" => ws[c] = "open"
    BY <2>3
  <2>7. \A q \in Rooms : audience[q] \subseteq Conns
  OBVIOUS
  <2> QED
    BY <2>1, <2>2, <2>3, <2>4, <2>5, <2>6, <2>7
<1>13. ASSUME NEW r \in Rooms, EndState(r) PROVE BroadcastProgress'
  <2>1. CASE result[r] = None /\ run' = [run EXCEPT ![r] = "tick"] /\ UNCHANGED outbox
    BY <1>13, <2>1 DEF EndState
  <2>2. CASE /\ result[r] # None
             /\ run' = [run EXCEPT ![r] = "fin"]
             /\ outbox' = [outbox EXCEPT ![r] = audience[r]]
    BY <1>13, <2>2 DEF EndState
  <2> QED
    BY <1>13, <2>1, <2>2 DEF EndState
<1>14. ASSUME NEW r \in Rooms, NEW c \in Conns, WriteFinished(r, c) PROVE BroadcastProgress'
  BY <1>14 DEF WriteFinished
<1>15. ASSUME NEW r \in Rooms, PostFinish(r) PROVE BroadcastProgress'
  BY <1>15 DEF PostFinish
<1>16. ASSUME NEW r \in Rooms, PostReturn(r) PROVE BroadcastProgress'
  BY <1>16 DEF PostReturn
<1>17. ASSUME NEW r \in Rooms, Stop(r) PROVE BroadcastProgress'
  BY <1>17 DEF Stop, Registered
<1>18. ASSUME NEW r \in Rooms, Remove(r) PROVE BroadcastProgress'
  BY <1>18 DEF Remove
<1>19. ASSUME NEW r \in Rooms, RailsFinish(r) PROVE BroadcastProgress'
  BY <1>19 DEF RailsFinish
<1>20. ASSUME NEW r \in Rooms, PostLost(r) PROVE BroadcastProgress'
  BY <1>20 DEF PostLost
<1>21. ASSUME Crash PROVE BroadcastProgress'
  BY <1>21 DEF Crash
<1>22. CASE UNCHANGED vars
  BY <1>22 DEF vars
<1> QED
  BY <1>1, <1>2, <1>3, <1>4, <1>5, <1>6, <1>7, <1>8, <1>9, <1>10, <1>11, <1>12, <1>13,
     <1>14, <1>15, <1>16, <1>17, <1>18, <1>19, <1>20, <1>21, <1>22
  DEF Next, HandlerStep, RoomStep, ClientStep, RailsStep

LEMMA ToldStep == TypeOK /\ RoomInv /\ TalkInv /\ [Next]_vars => ToldTheTruth' /\ ToldInBroadcast'
<1> SUFFICES ASSUME TypeOK, RoomInv, TalkInv, [Next]_vars PROVE ToldTheTruth' /\ ToldInBroadcast'
  OBVIOUS
<1> USE ServerAssumption
    DEF TalkInv, ToldTheTruth, ToldInBroadcast, BroadcastProgress,
        HandlersJoin, RoomsKnowTheirOwn, VerdictReached, RoomInv, TypeOK,
        handlerVars, roomVars, Live, Joined
<1>1. ASSUME NEW c \in Conns, Request(c)
      PROVE  ToldTheTruth' /\ ToldInBroadcast'
  BY <1>1 DEF Request, Goto
<1>2. ASSUME NEW c \in Conns, Lookup(c)
      PROVE  ToldTheTruth' /\ ToldInBroadcast'
  <2>1. CASE registry # None /\ Found(c, "lookup", registry)
    BY <1>2, <2>1 DEF Lookup, Goto, Found
  <2>2. CASE registry = None /\ Goto(c, "lookup", "wait") /\ UNCHANGED rt
    BY <1>2, <2>2 DEF Lookup, Goto, Found
  <2> QED
    BY <1>2, <2>1, <2>2 DEF Lookup
<1>3. ASSUME NEW c \in Conns, Acquire(c)
      PROVE  ToldTheTruth' /\ ToldInBroadcast'
  <2>1. CASE registry # None /\ Found(c, "wait", registry) /\ UNCHANGED lock
    BY <1>3, <2>1 DEF Acquire, Goto, Found
  <2>2. CASE registry = None /\ Goto(c, "wait", "fetch") /\ UNCHANGED rt /\ lock' = c
    BY <1>3, <2>2 DEF Acquire, Goto, Found
  <2> QED
    BY <1>3, <2>1, <2>2 DEF Acquire
<1>4. ASSUME NEW c \in Conns, NEW r \in Rooms, FetchOk(c, r)
      PROVE  ToldTheTruth' /\ ToldInBroadcast'
  BY <1>4 DEF FetchOk, Goto, Found
<1>5. ASSUME NEW c \in Conns, FetchFail(c)
      PROVE  ToldTheTruth' /\ ToldInBroadcast'
  BY <1>5 DEF FetchFail, Goto
<1>6. ASSUME NEW c \in Conns, Upgrade(c)
      PROVE  ToldTheTruth' /\ ToldInBroadcast'
  <2>1. CASE Goto(c, "upgrade", "opened") /\ ws' = [ws EXCEPT ![c] = "open"]
    BY <1>6, <2>1 DEF Upgrade, Goto
  <2>2. CASE Goto(c, "upgrade", "gone") /\ UNCHANGED ws
    BY <1>6, <2>2 DEF Upgrade, Goto
  <2> QED
    BY <1>6, <2>1, <2>2 DEF Upgrade
<1>7. ASSUME NEW c \in Conns, AddConn(c)
      PROVE  ToldTheTruth' /\ ToldInBroadcast'
  BY <1>7 DEF AddConn, Goto
<1>8. ASSUME NEW c \in Conns, NEW a \in BOOLEAN, SetInput(c, a)
      PROVE  ToldTheTruth' /\ ToldInBroadcast'
  BY <1>8 DEF SetInput
<1>9. ASSUME NEW c \in Conns, Drop(c)
      PROVE  ToldTheTruth' /\ ToldInBroadcast'
  BY <1>9 DEF Drop
<1>10. ASSUME NEW c \in Conns, ReadEnd(c)
      PROVE  ToldTheTruth' /\ ToldInBroadcast'
  BY <1>10 DEF ReadEnd, Goto
<1>11. ASSUME NEW r \in Rooms, NEW w \in Winners \cup {None}, Step(r, w)
      PROVE  ToldTheTruth' /\ ToldInBroadcast'
  BY <1>11 DEF Step, Registered
<1>12. ASSUME NEW r \in Rooms, NEW c \in Conns, WriteState(r, c)
      PROVE  ToldTheTruth' /\ ToldInBroadcast'
  BY <1>12 DEF WriteState
<1>13. ASSUME NEW r \in Rooms, EndState(r)
      PROVE  ToldTheTruth' /\ ToldInBroadcast'
  <2>1. CASE result[r] = None /\ run' = [run EXCEPT ![r] = "tick"] /\ UNCHANGED outbox
    BY <1>13, <2>1 DEF EndState
  <2>2. CASE /\ result[r] # None
             /\ run' = [run EXCEPT ![r] = "fin"]
             /\ outbox' = [outbox EXCEPT ![r] = audience[r]]
    BY <1>13, <2>2 DEF EndState
  <2> QED
    BY <1>13, <2>1, <2>2 DEF EndState
<1>14. ASSUME NEW r \in Rooms, NEW c \in Conns, WriteFinished(r, c)
      PROVE  ToldTheTruth' /\ ToldInBroadcast'
  BY <1>14 DEF WriteFinished
<1>15. ASSUME NEW r \in Rooms, PostFinish(r)
      PROVE  ToldTheTruth' /\ ToldInBroadcast'
  BY <1>15 DEF PostFinish
<1>16. ASSUME NEW r \in Rooms, PostReturn(r)
      PROVE  ToldTheTruth' /\ ToldInBroadcast'
  BY <1>16 DEF PostReturn
<1>17. ASSUME NEW r \in Rooms, Stop(r)
      PROVE  ToldTheTruth' /\ ToldInBroadcast'
  BY <1>17 DEF Stop, Registered
<1>18. ASSUME NEW r \in Rooms, Remove(r)
      PROVE  ToldTheTruth' /\ ToldInBroadcast'
  BY <1>18 DEF Remove
<1>19. ASSUME NEW r \in Rooms, RailsFinish(r)
      PROVE  ToldTheTruth' /\ ToldInBroadcast'
  BY <1>19 DEF RailsFinish
<1>20. ASSUME NEW r \in Rooms, PostLost(r)
      PROVE  ToldTheTruth' /\ ToldInBroadcast'
  BY <1>20 DEF PostLost
<1>21. ASSUME Crash
      PROVE  ToldTheTruth' /\ ToldInBroadcast'
  BY <1>21 DEF Crash
<1>22. CASE UNCHANGED vars
  BY <1>22 DEF vars
<1> QED
  BY <1>1, <1>2, <1>3, <1>4, <1>5, <1>6, <1>7, <1>8, <1>9, <1>10, <1>11, <1>12, <1>13,
     <1>14, <1>15, <1>16, <1>17, <1>18, <1>19, <1>20, <1>21, <1>22
  DEF Next, HandlerStep, RoomStep, ClientStep, RailsStep

LEMMA TalkInvariant == Spec => [](TypeOK /\ RoomInv /\ TalkInv)
<1>1. Init => TalkInv
  BY ServerAssumption DEF Init, TalkInv, ToldTheTruth, ToldInBroadcast, BroadcastProgress
<1>2. TypeOK /\ RoomInv /\ TalkInv /\ [Next]_vars => TalkInv'
  BY ProgressStep, ToldStep DEF TalkInv
<1> QED
  BY <1>1, <1>2, RoomInvariant, PTL DEF Spec

\* A finished message carries the verdict of the connection's own room, after
\* the state that shows it.
THEOREM PlayersToldTheTruth == Spec => []ToldTheTruth
<1> QED
  BY TalkInvariant, PTL DEF TalkInv

\* Whoever was connected at the deciding tick hears the verdict before the
\* result is posted, or has lost its connection.
THEOREM AudienceAlwaysHears == Spec => []AudienceHears
<1>1. TypeOK /\ RoomInv /\ TalkInv => AudienceHears
  BY DEF TalkInv, BroadcastProgress, AudienceHears
<1> QED
  BY <1>1, TalkInvariant, PTL

-----------------------------------------------------------------------------
(* The outcome: BattleServer implements BattleRecord *)

LEMMA RecordStep == TypeOK /\ RegistryInv /\ RoomInv /\ TalkInv /\ [Next]_vars => [B!Next]_(B!vars)
<1> SUFFICES ASSUME TypeOK, RegistryInv, RoomInv, TalkInv, [Next]_vars PROVE [B!Next]_(B!vars)
  OBVIOUS
<1> USE ServerAssumption
<1>1. ASSUME NEW c \in Conns, NEW r \in Rooms, rt[c] = None, rt' = [rt EXCEPT ![c] = r],
             UNCHANGED <<result, told, recorded>>
      PROVE  B!Next
  BY <1>1 DEF B!Next, B!Join
<1>2. ASSUME NEW c \in Conns, Lookup(c) \/ Acquire(c) PROVE [B!Next]_(B!vars)
  <2>1. rt[c] = None /\ UNCHANGED <<result, told, recorded>>
    BY <1>2 DEF Lookup, Acquire, Goto, Found, RoomInv, HandlersJoin, Joined, roomVars, TypeOK
  <2>2. UNCHANGED rt \/ (registry \in Rooms /\ rt' = [rt EXCEPT ![c] = registry])
    BY <1>2 DEF Lookup, Acquire, Found, TypeOK
  <2> QED
    BY <1>1, <2>1, <2>2 DEF B!vars
<1>3. ASSUME NEW c \in Conns, NEW r \in Rooms, FetchOk(c, r) PROVE B!Next
  <2>1. rt[c] = None /\ UNCHANGED <<result, told, recorded>>
    BY <1>3 DEF FetchOk, Goto, Found, RoomInv, HandlersJoin, Joined, TypeOK
  <2> QED
    BY <1>1, <1>3, <2>1 DEF FetchOk, Found
<1>4. ASSUME NEW r \in Rooms, NEW w \in Winners \cup {None}, Step(r, w)
      PROVE  [B!Next]_(B!vars)
  <2>1. result[r] = None /\ result' = [result EXCEPT ![r] = w]
        /\ UNCHANGED <<rt, told, recorded>>
    BY <1>4 DEF Step, RoomInv, VerdictReached, handlerVars
  <2>2. CASE w = None
    BY <2>1, <2>2 DEF B!vars, TypeOK
  <2>3. CASE w \in Winners
    BY <2>1, <2>3 DEF B!Next, B!Reach
  <2> QED
    BY <2>2, <2>3
<1>5. ASSUME NEW r \in Rooms, NEW c \in Conns, WriteFinished(r, c) PROVE [B!Next]_(B!vars)
  <2>1. rt[c] = r /\ told[c] = None /\ result[r] # None
    BY <1>5 DEF WriteFinished, RoomInv, RoomsKnowTheirOwn, VerdictReached, TalkInv,
                ToldInBroadcast, TypeOK
  <2>2. UNCHANGED <<rt, result, recorded>>
    BY <1>5 DEF WriteFinished
  <2>3. told' = told \/ told' = [told EXCEPT ![c] = result[r]]
    BY <1>5 DEF WriteFinished
  <2> QED
    BY <2>1, <2>2, <2>3 DEF B!vars, B!Next, B!Tell, TypeOK
<1>6. ASSUME NEW r \in Rooms, RailsFinish(r) PROVE [B!Next]_(B!vars)
  <2>1. result[r] # None /\ UNCHANGED <<rt, result, told>>
    BY <1>6 DEF RailsFinish, RoomInv, VerdictReached, handlerVars, roomVars
  <2> QED
    BY <1>6, <2>1 DEF RailsFinish, B!vars, B!Next, B!Record
<1>7. ASSUME UNCHANGED <<rt, result, told, recorded>> PROVE UNCHANGED B!vars
  BY <1>7 DEF B!vars
<1>8. ASSUME NEW c \in Conns,
             \/ Request(c) \/ FetchFail(c) \/ Upgrade(c) \/ AddConn(c) \/ Drop(c) \/ ReadEnd(c)
             \/ \E a \in BOOLEAN : SetInput(c, a)
      PROVE  UNCHANGED B!vars
  BY <1>7, <1>8 DEF Request, FetchFail, Upgrade, AddConn, Drop, ReadEnd, SetInput,
                    handlerVars, roomVars
<1>9. ASSUME NEW r \in Rooms,
             \/ EndState(r) \/ PostFinish(r) \/ PostReturn(r) \/ Stop(r) \/ Remove(r) \/ PostLost(r)
             \/ \E c \in Conns : WriteState(r, c)
      PROVE  UNCHANGED B!vars
  BY <1>7, <1>9 DEF EndState, PostFinish, PostReturn, Stop, Remove, PostLost, WriteState,
                    handlerVars, roomVars
<1>10. CASE Crash \/ UNCHANGED vars
  BY <1>7, <1>10 DEF Crash, vars, handlerVars, roomVars
<1> QED
  BY <1>2, <1>3, <1>4, <1>5, <1>6, <1>8, <1>9, <1>10
  DEF Next, HandlerStep, RoomStep, ClientStep, RailsStep

\* Whatever rooms, reconnections, lost posts and crashes a battle goes
\* through, its outcome is kept as BattleRecord promises.
THEOREM ServerKeepsRecord == Spec => Record
<1>1. Init => B!Init
  BY DEF Init, B!Init
<1>2. Spec => [](TypeOK /\ RegistryInv /\ RoomInv /\ TalkInv)
  BY RoomInvariant, TalkInvariant, PTL
<1> QED
  BY <1>1, <1>2, RecordStep, PTL DEF Spec, Record, B!Spec
-----------------------------------------------------------------------------
(* How a room ends *)

\* Where the goroutine of a decided room goes from where it stands.
After == [fresh |-> {}, tick |-> {}, state |-> {"fin"}, fin |-> {"post"}, post |-> {"stop"},
          stop |-> {"exit"}, exit |-> {}, over |-> {}]

\* The verdict stays; the goroutine goes on, its process dies, or the broadcast
\* it is at has fewer connections left.
MovesOn(r) ==
  /\ result'[r] = result[r]
  /\ \/ run'[r] \in After[run[r]] \cup {"over"}
     \/ run'[r] = run[r] /\ outbox'[r] \subseteq outbox[r]

\* The goroutine of a decided room makes no step that leaves as much to do.
LEMMA DecidedProgress ==
  ASSUME TypeOK, RoomInv, NEW r \in Rooms, result[r] # None, RoomStep(r)
  PROVE  run'[r] # run[r] \/ outbox'[r] # outbox[r]
<1> USE DEF TypeOK, Live
<1>1. run[r] # "tick"
  BY DEF RoomInv, VerdictReached
<1>2. ASSUME NEW w \in Winners \cup {None}, Step(r, w) PROVE FALSE
  BY <1>1, <1>2 DEF Step
<1>3. ASSUME NEW c \in Conns, WriteState(r, c) \/ WriteFinished(r, c)
      PROVE  outbox'[r] # outbox[r]
  BY <1>3 DEF WriteState, WriteFinished
<1>4. CASE EndState(r)
  BY <1>4 DEF EndState
<1>5. CASE PostFinish(r) \/ PostReturn(r) \/ Stop(r) \/ Remove(r)
  BY <1>5 DEF PostFinish, PostReturn, Stop, Remove
<1> QED
  BY <1>2, <1>3, <1>4, <1>5 DEF RoomStep

LEMMA DecidedStep ==
  ASSUME TypeOK, RoomInv, [Next]_vars, NEW r \in Rooms, result[r] # None
  PROVE  MovesOn(r)
<1> USE DEF TypeOK, Live, MovesOn, handlerVars, roomVars
<1>1. run[r] \notin {"fresh", "tick"}
  BY DEF RoomInv, VerdictReached
<1>2. ASSUME UNCHANGED <<run, result, outbox>> PROVE MovesOn(r)
  BY <1>2
<1>3. ASSUME NEW c \in Conns,
             (HandlerStep(c) /\ ~(\E q \in Rooms : FetchOk(c, q))) \/ ClientStep(c)
      PROVE  MovesOn(r)
  BY <1>2, <1>3 DEF HandlerStep, Lookup, Acquire, FetchFail, Upgrade, AddConn, ReadEnd,
                    ClientStep, Request, Drop, SetInput
<1>4. ASSUME NEW c \in Conns, NEW q \in Rooms, FetchOk(c, q) PROVE MovesOn(r)
  BY <1>1, <1>4 DEF FetchOk
<1>5. ASSUME NEW q \in Rooms, NEW w \in Winners \cup {None}, Step(q, w) PROVE MovesOn(r)
  BY <1>1, <1>5 DEF Step
<1>6. ASSUME NEW q \in Rooms, NEW c \in Conns, WriteState(q, c) \/ WriteFinished(q, c)
      PROVE  MovesOn(r)
  <2>1. UNCHANGED <<run, result>> /\ outbox' = [outbox EXCEPT ![q] = @ \ {c}]
    BY <1>6 DEF WriteState, WriteFinished
  <2> QED
    BY <2>1
<1>7. ASSUME NEW q \in Rooms, EndState(q) PROVE MovesOn(r)
  <2>1. UNCHANGED result
    BY <1>7 DEF EndState
  <2>2. CASE q = r
    BY <1>7, <2>1, <2>2 DEF EndState, After
  <2>3. CASE q # r
    BY <1>7, <2>1, <2>3 DEF EndState
  <2> QED
    BY <2>2, <2>3
<1>8. ASSUME NEW q \in Rooms, PostFinish(q) \/ PostReturn(q) \/ Stop(q) \/ Remove(q)
      PROVE  MovesOn(r)
  <2>1. UNCHANGED <<result, outbox>>
    BY <1>8 DEF PostFinish, PostReturn, Stop, Remove
  <2>2. run'[q] \in After[run[q]] \cup {"over"} /\ \A p \in Rooms \ {q} : run'[p] = run[p]
    BY <1>8 DEF PostFinish, PostReturn, Stop, Remove, After
  <2> QED
    BY <2>1, <2>2
<1>9. ASSUME NEW q \in Rooms, RailsStep(q) PROVE MovesOn(r)
  BY <1>2, <1>9 DEF RailsStep, RailsFinish, PostLost
<1>10. CASE Crash
  BY <1>1, <1>10 DEF Crash
<1>11. CASE UNCHANGED vars
  BY <1>2, <1>11 DEF vars
<1> QED
  BY <1>3, <1>4, <1>5, <1>6, <1>7, <1>8, <1>9, <1>10, <1>11
  DEF Next, HandlerStep, RoomStep, ClientStep

\* A decided room only moves towards its end, and every step of its goroutine
\* is one: with finitely many connections it has finitely many to go, however
\* the clients, Rails and the other rooms behave.
THEOREM DecidedRoomMovesOn ==
  Spec => [][\A r \in Rooms : result[r] # None =>
               /\ MovesOn(r)
               /\ RoomStep(r) => run'[r] # run[r] \/ outbox'[r] # outbox[r]]_vars
<1>1. TypeOK /\ RoomInv /\ [Next]_vars =>
        [\A r \in Rooms : result[r] # None =>
           /\ MovesOn(r)
           /\ RoomStep(r) => run'[r] # run[r] \/ outbox'[r] # outbox[r]]_vars
  BY DecidedStep, DecidedProgress
<1> QED
  BY <1>1, RoomInvariant, PTL DEF Spec

\* The registry's lock is never forgotten: whoever holds it is fetching the
\* start data, its next step gives the lock back whatever Rails answers, and no
\* room has to wait for it to be removed.
THEOREM LockNeverForgotten ==
  Spec => [](/\ \A c \in Conns : lock = c <=> pc[c] = "fetch"
             /\ lock # None => \A r \in Rooms : run[r] \notin Live)
<1>1. TypeOK /\ RegistryInv =>
        /\ \A c \in Conns : lock = c <=> pc[c] = "fetch"
        /\ lock # None => \A r \in Rooms : run[r] \notin Live
  BY ServerAssumption DEF RegistryInv, LockHeld, OneLoop
<1> QED
  BY <1>1, RegistryInvariant, PTL

-----------------------------------------------------------------------------
(* Who survives the end of a room *)

\* Connections are registered once, each in its user's slot, and a slot once
\* taken is never free again.
SlotsTaken ==
  \A r \in Rooms :
    /\ \A u \in Users : conns[r][u] # None =>
         pc[conns[r][u]] \in {"reading", "gone"} /\ UserOf[conns[r][u]] = u
    /\ \A c \in audience[r] : pc[c] \in {"reading", "gone"} /\ conns[r][UserOf[c]] # None

\* Of those connected at the deciding step, a room that has stopped leaves open
\* only a connection that a newer one of its user displaced.
OnlyDisplacedStay ==
  \A r \in Rooms : run[r] \in {"exit", "over"} =>
    \A c \in audience[r] : ws[c] = "closed" \/ conns[r][UserOf[c]] \notin {c, None}

LEMMA SlotStep ==
  ASSUME TypeOK, RoomInv, SlotsTaken, OnlyDisplacedStay, [Next]_vars
  PROVE  SlotsTaken' /\ OnlyDisplacedStay'
<1> USE ServerAssumption
    DEF SlotsTaken, OnlyDisplacedStay, TypeOK, Live, Joined, handlerVars, roomVars
<1>g. ASSUME UNCHANGED <<conns, audience>>,
             \A c \in Conns : pc[c] \in {"reading", "gone"} => pc'[c] \in {"reading", "gone"},
             \A c \in Conns : pc[c] \in {"reading", "gone"} /\ ws[c] = "closed" => ws'[c] = "closed",
             \A r \in Rooms : run'[r] \in {"exit", "over"} => run[r] \in {"exit", "over"}
      PROVE  SlotsTaken' /\ OnlyDisplacedStay'
  <2>1. \A r \in Rooms : audience[r] \subseteq Conns
    OBVIOUS
  <2>2. \A r \in Rooms, u \in Users : conns[r][u] # None => conns[r][u] \in Conns
    OBVIOUS
  <2>3. \A r \in Rooms : \A c \in audience[r] : pc[c] \in {"reading", "gone"}
    OBVIOUS
  <2>4. SlotsTaken'
    BY ONLY <1>g, <2>1, <2>2, SlotsTaken DEF SlotsTaken
  <2>5. OnlyDisplacedStay'
    BY ONLY <1>g, <2>1, <2>3, OnlyDisplacedStay DEF OnlyDisplacedStay
  <2> QED
    BY <2>4, <2>5
<1>1. ASSUME NEW c \in Conns, HandlerStep(c), ~AddConn(c) PROVE SlotsTaken' /\ OnlyDisplacedStay'
  <2>1. /\ UNCHANGED <<conns, audience>>
        /\ \A r \in Rooms : run'[r] = run[r] \/ run'[r] = "tick"
    BY <1>1 DEF HandlerStep, Lookup, Acquire, FetchFail, Upgrade, ReadEnd, FetchOk
  <2>2. /\ \A d \in Conns \ {c} : pc'[d] = pc[d] /\ ws'[d] = ws[d]
        /\ pc[c] \notin {"reading", "gone"} \/ (pc'[c] = "gone" /\ ws'[c] = ws[c])
    BY <1>1 DEF HandlerStep, Lookup, Acquire, FetchFail, Upgrade, ReadEnd, FetchOk, Found, Goto
  <2> QED
    BY <1>g, <2>1, <2>2
<1>2. ASSUME NEW c \in Conns, AddConn(c) PROVE SlotsTaken' /\ OnlyDisplacedStay'
  <2> DEFINE r == rt[c]
  <2>1. /\ UNCHANGED <<ws, run, audience>> /\ pc[c] = "opened" /\ pc' = [pc EXCEPT ![c] = "reading"]
        /\ conns' = [conns EXCEPT ![r][UserOf[c]] = c]
    BY <1>2 DEF AddConn, Goto
  <2>2. r \in Rooms /\ UserOf[c] \in Users
    BY <2>1 DEF RoomInv, HandlersJoin
  <2> HIDE DEF r
  <2>3. /\ \A q \in Rooms, u \in Users :
             conns'[q][u] = IF q = r /\ u = UserOf[c] THEN c ELSE conns[q][u]
    BY <2>1, <2>2
  <2>4. \A q \in Rooms : c \notin audience[q]
    BY <2>1
  <2>5. \A d \in Conns : pc[d] \in {"reading", "gone"} => pc'[d] \in {"reading", "gone"}
    BY <2>1
  <2>6. pc'[c] = "reading" /\ c # None
    BY <2>1
  <2>7. SlotsTaken'
    BY <2>1, <2>3, <2>5, <2>6
  <2>8. OnlyDisplacedStay'
    BY <2>1, <2>3, <2>4, <2>6
  <2> QED
    BY <2>7, <2>8
<1>3. ASSUME NEW c \in Conns, ClientStep(c) PROVE SlotsTaken' /\ OnlyDisplacedStay'
  <2>1. /\ UNCHANGED <<conns, audience, run>>
        /\ \A d \in Conns : pc'[d] = pc[d] \/ pc[d] = "idle"
        /\ \A d \in Conns : ws'[d] = ws[d] \/ ws'[d] = "closed"
    BY <1>3 DEF ClientStep, Request, Drop, SetInput, Goto
  <2> QED
    BY <1>g, <2>1
<1>4. ASSUME NEW r \in Rooms, NEW w \in Winners \cup {None}, Step(r, w)
      PROVE  SlotsTaken' /\ OnlyDisplacedStay'
  <2>1. /\ UNCHANGED <<pc, ws, conns>> /\ run' = [run EXCEPT ![r] = "state"]
        /\ audience' = [audience EXCEPT ![r] = Registered(r)]
    BY <1>4 DEF Step
  <2>2. \A c \in Registered(r) :
          c \in Conns /\ pc[c] \in {"reading", "gone"} /\ conns[r][UserOf[c]] = c
    BY DEF Registered
  <2>3. SlotsTaken'
    BY <2>1, <2>2
  <2>4. OnlyDisplacedStay'
    BY <2>1
  <2> QED
    BY <2>3, <2>4
<1>5. ASSUME NEW r \in Rooms, Stop(r) PROVE SlotsTaken' /\ OnlyDisplacedStay'
  <2>1. /\ UNCHANGED <<pc, conns, audience>> /\ run' = [run EXCEPT ![r] = "exit"]
        /\ ws' = [c \in Conns |-> IF c \in Registered(r) THEN "closed" ELSE ws[c]]
    BY <1>5 DEF Stop
  <2>2. \A c \in audience[r] : UserOf[c] \in Users /\ conns[r][UserOf[c]] # None
    OBVIOUS
  <2>3. \A c \in audience[r] : ws'[c] = "closed" \/ conns[r][UserOf[c]] # c
    BY <2>1, <2>2 DEF Registered
  <2>4. \A q \in Rooms \ {r} : run'[q] = run[q]
    BY <2>1
  <2>5. \A c \in Conns : ws[c] = "closed" => ws'[c] = "closed"
    BY <2>1
  <2>6. \A q \in Rooms : audience[q] \subseteq Conns
    OBVIOUS
  <2>7. OnlyDisplacedStay'
    BY ONLY <2>1, <2>2, <2>3, <2>4, <2>5, <2>6, OnlyDisplacedStay DEF OnlyDisplacedStay
  <2>8. SlotsTaken'
    BY ONLY <2>1, SlotsTaken DEF SlotsTaken
  <2> QED
    BY <2>7, <2>8
<1>6. ASSUME NEW r \in Rooms, Remove(r) PROVE SlotsTaken' /\ OnlyDisplacedStay'
  <2>1. /\ UNCHANGED <<pc, ws, conns, audience>> /\ run[r] = "exit"
        /\ run' = [run EXCEPT ![r] = "over"]
    BY <1>6 DEF Remove
  <2> QED
    BY <1>g, <2>1
<1>7. ASSUME NEW r \in Rooms, RoomStep(r), ~Stop(r), ~Remove(r),
             ~(\E w \in Winners \cup {None} : Step(r, w))
      PROVE  SlotsTaken' /\ OnlyDisplacedStay'
  <2>1. /\ UNCHANGED <<pc, ws, conns, audience>>
        /\ \A q \in Rooms : run'[q] = run[q] \/ run'[q] \in {"tick", "fin", "post", "stop"}
    BY <1>7 DEF RoomStep, WriteState, WriteFinished, EndState, PostFinish, PostReturn
  <2> QED
    BY <1>g, <2>1
<1>8. ASSUME NEW r \in Rooms, RailsStep(r) PROVE SlotsTaken' /\ OnlyDisplacedStay'
  BY <1>8, <1>g DEF RailsStep, RailsFinish, PostLost
<1>9. CASE Crash
  <2>1. /\ UNCHANGED <<conns, audience>>
        /\ \A c \in Conns : pc[c] \in {"reading", "gone"} => pc'[c] = "gone"
        /\ \A c \in Conns : ws[c] # "none" => ws'[c] = "closed"
    BY <1>9 DEF Crash
  <2>2. \A r \in Rooms : \A c \in audience[r] : c \in Conns /\ ws[c] # "none"
    BY DEF RoomInv, RoomsKnowTheirOwn
  <2> QED
    BY <2>1, <2>2
<1>10. CASE UNCHANGED vars
  BY <1>10, <1>g DEF vars
<1> QED
  BY <1>1, <1>2, <1>3, <1>4, <1>5, <1>6, <1>7, <1>8, <1>9, <1>10 DEF Next

\* stop reaches everyone it should: a player who was connected when the battle
\* was decided, and is on no newer connection, is not left connected to a room
\* that is gone.  (Those who join later may be: ClosedWhenOver.)
THEOREM StopReachesAudience ==
  Spec => [](\A r \in Rooms : run[r] \in {"exit", "over"} =>
               \A c \in audience[r] : ws[c] = "closed" \/ conns[r][UserOf[c]] \notin {c, None})
<1>1. Init => SlotsTaken /\ OnlyDisplacedStay
  BY ServerAssumption DEF Init, SlotsTaken, OnlyDisplacedStay
<1>2. TypeOK /\ RoomInv /\ SlotsTaken /\ OnlyDisplacedStay /\ [Next]_vars
        => SlotsTaken' /\ OnlyDisplacedStay'
  BY SlotStep
<1> QED
  BY <1>1, <1>2, RoomInvariant, PTL DEF Spec, OnlyDisplacedStay
=============================================================================
