--------------------------- MODULE ClientTheorems ---------------------------
(***************************************************************************)
(* What holds of BattleClient for every number of battles, sockets, rooms, *)
(* ticks, tokens and messages on the way.                                  *)
(***************************************************************************)
EXTENDS BattleClient, SequenceTheorems, TLAPS

-----------------------------------------------------------------------------
(* Types *)

(* A page that shows a battle shows one of this player. *)
LEMMA PageType ==
  ASSUME route \in Page
  PROVE /\ route.at \in {"battle", "result"} => route.of \in Battles
        /\ route.at \in {"away", "battle", "result"}
BY DEF Page

(* No socket is a socket's end without mail. *)
LEMMA NoSockType == NoSock \in Sock
BY EmptySeq DEF NoSock, Sock

(* The parts of a socket's end. *)
LEMMA SockType ==
  ASSUME sock \in [Socks -> Sock], NEW s \in Socks
  PROVE /\ sock[s] \in Sock
        /\ sock[s].of \in Battles \cup {None}
        /\ sock[s].inbox \in Seq(Message)
        /\ sock[s].up \in {"none", "connecting", "open", "closed"}
BY DEF Sock

(* What writes to a socket's end keep. *)
LEMMA SockEdits ==
  ASSUME NEW k \in Sock, NEW u \in {"none", "connecting", "open", "closed"}, NEW q \in Seq(Message)
  PROVE  /\ [k EXCEPT !.up = u] \in Sock /\ [k EXCEPT !.inbox = q] \in Sock
         /\ [k EXCEPT !.inbox = q, !.up = u] \in Sock /\ [k EXCEPT !.up = u, !.inbox = q] \in Sock
BY DEF Sock

(* The socket effect and its cleanup keep the sockets' types. *)
LEMMA CleanupType ==
  ASSUME sock \in [Socks -> Sock], ws \in Socks \cup {None}
  PROVE Cleanup(sock) \in [Socks -> Sock]
BY NoSockType DEF Cleanup

LEMMA ConnectType ==
  ASSUME NEW b \in Battles, NEW socks \in [Socks -> Sock], Connect(b, socks)
  PROVE ws' \in Socks /\ sock' \in [Socks -> Sock]
<1>1. [of |-> b, up |-> "connecting", inbox |-> <<>>] \in Sock
  BY EmptySeq DEF Sock
<1> QED BY <1>1 DEF Connect

LEMMA UnmountType ==
  ASSUME TypeOK, UnmountScreen
  PROVE /\ screen' = FALSE /\ trigger' \in Battles \cup {None}
        /\ ws' \in Socks \cup {None} /\ sock' \in [Socks -> Sock]
        /\ mic' \in {"off", "starting", "on", "ended", "stopping"}
BY CleanupType DEF UnmountScreen, Stopped, TypeOK

(* A fetch leaves a query a query. *)
LEMMA RefetchType ==
  ASSUME NEW t \in Token
  PROVE Refetch(t) \subseteq Token
BY DEF Refetch, Token, Fetching

(* Every message that a broadcast sends is one the client can parse. *)
LEMMA BroadcastType ==
  ASSUME sock \in [Socks -> Sock], NEW b \in Battles, NEW ms \in Seq(Message), Broadcast(b, ms)
  PROVE sock' \in [Socks -> Sock]
<1>1. ASSUME NEW s \in Socks PROVE sock'[s] \in Sock
  <2>1. CASE s \in Listening(b)
    <3>1. sock[s].inbox \o ms \in Seq(Message) BY SockType, ConcatProperties
    <3>2. sock'[s] = [sock[s] EXCEPT !.inbox = sock[s].inbox \o ms] BY <2>1 DEF Broadcast
    <3> QED BY <3>1, <3>2, SockType DEF Sock
  <2>2. CASE s \notin Listening(b) BY <2>2, SockType DEF Broadcast
  <2> QED BY <2>1, <2>2
<1> QED BY <1>1 DEF Broadcast

(* The verdicts of a battle are verdicts. *)
LEMMA VerdictType == \A b \in Battles : Verdicts(b) \subseteq Verdict
BY DEF Verdict

(* What rooms send can be parsed. *)
LEMMA MessageType ==
  /\ \A b \in Battles : \A t \in 0..MaxTick :
       /\ StateOf(b, t) \in Message /\ <<StateOf(b, t)>> \in Seq(Message)
       /\ \A v \in Verdicts(b) : <<StateOf(b, t), FinishedOf(b, v)>> \in Seq(Message)
  /\ <<[type |-> "close"]>> \in Seq(Message)
<1>1. \A b \in Battles : \A t \in 0..MaxTick : StateOf(b, t) \in Message BY DEF StateOf, Message
<1>2. \A b \in Battles : \A v \in Verdicts(b) : FinishedOf(b, v) \in Message
  BY VerdictType DEF FinishedOf, Message
<1>3. [type |-> "close"] \in Message BY DEF Message
<1> QED BY <1>1, <1>2, <1>3

(* What the game server and Rails know of the battles. *)
Rooms == [up : BOOLEAN, tick : 0..MaxTick, count : 0..MaxRooms,
          verdict : Verdict \cup {None}, reached : SUBSET Verdict]

(* The bounds are numbers. *)
LEMMA Bounds == MaxSocks \in Nat /\ MaxTick \in Nat /\ MaxRooms \in Nat /\ MaxInbox \in Nat
BY ClientAssumption

(* A room's parts have their types. *)
LEMMA RoomType ==
  ASSUME TypeOK, NEW b \in Battles
  PROVE  /\ room \in [Battles -> Rooms] /\ room[b] \in Rooms
         /\ room[b].tick \in Nat /\ room[b].tick + 1 \in Nat /\ room[b].count \in Nat
         /\ room[b].verdict \in Verdict \cup {None}
BY Bounds DEF TypeOK, Rooms

(* What the server's steps write to a room keeps them. *)
LEMMA RoomEdits ==
  ASSUME NEW k \in Rooms, NEW t \in 0..MaxTick
  PROVE  /\ [k EXCEPT !.tick = t] \in Rooms /\ [k EXCEPT !.up = FALSE] \in Rooms
         /\ \A v \in Verdict :
              [k EXCEPT !.tick = t, !.verdict = v, !.reached = @ \cup {v}] \in Rooms
         /\ \A c \in 0..MaxRooms :
              [k EXCEPT !.up = TRUE, !.tick = t, !.verdict = None, !.count = c] \in Rooms
BY DEF Rooms

(* What a message is, by its type. *)
LEMMA MessageCases ==
  ASSUME NEW m \in Message
  PROVE /\ m.type \in {"state", "finished", "close"}
        /\ m.type = "state" => m \in [type : {"state"}, of : Battles, tick : 0..MaxTick]
        /\ m.type = "finished" => m \in [type : {"finished"}, of : Battles, verdict : Verdict]
BY DEF Message

(* Every callback keeps the types. *)
LEMMA TypeStep ==
  ASSUME TypeOK, [Next]_vars
  PROVE TypeOK'
<1>0. /\ sock \in [Socks -> Sock] /\ ws \in Socks \cup {None}
      /\ token \in [Battles -> Token] /\ route \in Page
  BY DEF TypeOK
<1>t. \A b \in Battles : Refetch(token[b]) \subseteq Token BY <1>0, RefetchType
<1>p. \A b \in Battles : BattlePage(b).at = "battle" BY DEF BattlePage
<1>1. ASSUME NEW b \in Battles, Enter(b) PROVE TypeOK'
  <2>1. /\ screen' \in BOOLEAN /\ (screen' => route'.at = "battle")
        /\ ws' \in Socks \cup {None} /\ sock' \in [Socks -> Sock]
    <3>0. route'.at = "battle" BY <1>1, <1>p DEF Enter
    <3>1. CASE screen' = TRUE /\ Connect(b, sock) BY <1>0, <3>0, <3>1, ConnectType
    <3>2. CASE UNCHANGED <<screen, ws, sock>> BY <3>0, <3>2 DEF TypeOK
    <3> QED BY <1>1, <3>1, <3>2 DEF Enter
  <2>2. token' \in [Battles -> Token] BY <1>0, <1>1, <1>t DEF Enter
  <2>3. route' \in Page BY <1>1 DEF Enter, Page, BattlePage
  <2> QED BY <1>1, <2>1, <2>2, <2>3 DEF Enter, TypeOK, server, initialState
<1>2. ASSUME NEW b \in Battles, TokenArrives(b) PROVE TypeOK'
  <2>1. /\ screen' \in BOOLEAN /\ (screen' => route'.at = "battle")
        /\ ws' \in Socks \cup {None} /\ sock' \in [Socks -> Sock]
    <3>1. CASE route = BattlePage(b) /\ screen' = TRUE /\ Connect(b, Cleanup(sock))
      <4>1. Cleanup(sock) \in [Socks -> Sock] BY <1>0, CleanupType
      <4>2. route'.at = "battle" BY <1>2, <1>p, <3>1 DEF TokenArrives
      <4> QED BY <3>1, <4>1, <4>2, ConnectType
    <3>2. CASE UNCHANGED <<screen, ws, sock>> BY <1>2, <3>2 DEF TypeOK, TokenArrives
    <3> QED BY <1>2, <3>1, <3>2 DEF TokenArrives
  <2>2. token' \in [Battles -> Token] BY <1>0, <1>2 DEF TokenArrives, Token
  <2> QED BY <1>2, <2>1, <2>2 DEF TokenArrives, TypeOK, server
<1>3. ASSUME NEW b \in Battles, TokenFails(b) PROVE TypeOK'
  <2>1. token' \in [Battles -> Token] BY <1>0, <1>3 DEF TokenFails, Token
  <2>2. /\ screen' \in BOOLEAN /\ (screen' => route'.at = "battle")
        /\ trigger' \in Battles \cup {None}
        /\ ws' \in Socks \cup {None} /\ sock' \in [Socks -> Sock]
        /\ mic' \in {"off", "starting", "on", "ended", "stopping"}
    <3>1. CASE UnmountScreen BY <3>1, UnmountType
    <3>2. CASE UNCHANGED <<screen, ws, sock, trigger, mic>> BY <1>3, <3>2 DEF TypeOK, TokenFails
    <3> QED BY <1>3, <3>1, <3>2 DEF TokenFails
  <2> QED BY <1>3, <2>1, <2>2 DEF TokenFails, TypeOK, server
<1>4. CASE Focus
  <2>1. token' \in [Battles -> Token] BY <1>0, <1>4, <1>t, PageType DEF Focus
  <2> QED BY <1>4, <2>1 DEF Focus, TypeOK, server
<1>5. ASSUME NEW to \in Page, Leave(to) PROVE TypeOK'
  <2>1. /\ screen' = FALSE /\ trigger' \in Battles \cup {None}
        /\ ws' \in Socks \cup {None} /\ sock' \in [Socks -> Sock]
        /\ mic' \in {"off", "starting", "on", "ended", "stopping"}
    BY <1>5, UnmountType DEF Leave
  <2> QED BY <1>5, <2>1 DEF Leave, TypeOK, server
<1>6. CASE ResultArrives
  <2>1. Result(route.of) \in Verdict \cup {None, Nobody}
    BY <1>0, <1>6, PageType DEF ResultArrives, Result, TypeOK
  <2>2. shown' \in [Battles -> Verdict \cup {None, Nobody}]
    BY <1>6, <2>1 DEF ResultArrives, TypeOK
  <2> QED BY <1>6, <2>2 DEF ResultArrives, TypeOK, page, server
<1>7. CASE Back
  <2>1. shown' \in [Battles -> Verdict \cup {None, Nobody}] BY <1>7 DEF Back, TypeOK
  <2> QED BY <1>7, <2>1 DEF Back, TypeOK, server, Page, Away
<1>15. ASSUME NEW b \in Battles, OpenResult(b) PROVE TypeOK'
  <2>1. ~screen BY <1>15 DEF OpenResult, TypeOK, Away
  <2>2. route' \in Page BY <1>15 DEF OpenResult, Page, ResultPage
  <2> QED BY <1>15, <2>1, <2>2 DEF OpenResult, TypeOK, server
<1>8. ASSUME NEW s \in Socks, Deliver(s) PROVE TypeOK'
  <2> DEFINE m == Head(sock[s].inbox)
  <2>1. m \in Message /\ Tail(sock[s].inbox) \in Seq(Message)
    BY <1>0, <1>8, SockType, HeadTailProperties DEF Deliver
  <2>2. sock' \in [Socks -> Sock]
    <3> DEFINE up == IF m.type = "close" THEN "closed" ELSE sock[s].up
    <3>0. sock[s] \in Sock /\ up \in {"none", "connecting", "open", "closed"} BY <1>0, SockType
    <3>1. [sock[s] EXCEPT !.inbox = Tail(@), !.up = up] \in Sock BY <2>1, <3>0, SockEdits
    <3>2. sock' = [sock EXCEPT ![s] = [sock[s] EXCEPT !.inbox = Tail(@), !.up = up]]
      BY <1>0, <1>8 DEF Deliver
    <3> HIDE DEF up
    <3> QED BY <1>0, <3>1, <3>2
  <2>3. store' = IF m.type = "close" THEN store
                 ELSE IF m.type = "state" THEN applyState(m) ELSE applyFinished(m)
    BY <1>8 DEF Deliver
  <2> HIDE DEF m
  <2>4. /\ m.type = "state" => m \in [type : {"state"}, of : Battles, tick : 0..MaxTick]
        /\ m.type \notin {"state", "close"} => m \in [type : {"finished"}, of : Battles, verdict : Verdict]
    BY <2>1, MessageCases
  <2>5. store' \in [state : {None} \cup [type : {"state"}, of : Battles, tick : 0..MaxTick],
                    finished : {None} \cup [type : {"finished"}, of : Battles, verdict : Verdict]]
    BY <2>3, <2>4 DEF applyState, applyFinished, TypeOK
  <2> QED BY <1>8, <2>2, <2>5 DEF Deliver, TypeOK, page, server
<1>9. CASE Press \/ SendInput \/ Voice
  <2>1. CASE SendInput BY <2>1 DEF SendInput, TypeOK, page, server
  <2>2. ASSUME SetTrigger, route.at = "battle", UNCHANGED <<page, sock, store, mic, server, shown>>
        PROVE  TypeOK'
    BY <1>0, <2>2, PageType DEF SetTrigger, TypeOK, page, server
  <2>3. CASE Press \/ VoiceHears BY <2>2, <2>3 DEF Press, VoiceHears, Enabled, TypeOK
  <2>4. CASE VoiceEffect \/ VoiceStarts \/ VoiceEnds \/ onend \/ MicReleased
    BY <2>4 DEF VoiceEffect, Stopped, VoiceStarts, VoiceEnds, onend, MicReleased, TypeOK, page, server
  <2> QED BY <1>9, <2>1, <2>3, <2>4 DEF Voice
<1>10. ASSUME NEW s \in Socks, Accept(s) PROVE TypeOK'
  <2>1. sock' \in [Socks -> Sock]
    <3>1. [sock[s] EXCEPT !.up = "open"] \in Sock BY <1>0, SockType, SockEdits
    <3>2. sock' = [sock EXCEPT ![s] = [sock[s] EXCEPT !.up = "open"]] BY <1>0, <1>10 DEF Accept
    <3> QED BY <1>0, <3>1, <3>2
  <2>2. room' \in [Battles -> Rooms]
    <3> DEFINE b == sock[s].of
    <3>1. CASE UNCHANGED room BY <3>1 DEF TypeOK, Rooms
    <3>2. CASE /\ room[b].count < MaxRooms
               /\ room' = [room EXCEPT ![b].up = TRUE, ![b].tick = 0, ![b].verdict = None,
                                       ![b].count = @ + 1]
      <4> HIDE DEF b
      <4>0. room \in [Battles -> Rooms] BY DEF TypeOK, Rooms
      <4>1. CASE b \in Battles
        <5> DEFINE k == [room[b] EXCEPT !.up = TRUE, !.tick = 0, !.verdict = None, !.count = @ + 1]
        <5>1. room[b].count \in Nat /\ room[b] \in Rooms BY <4>1, RoomType
        <5>2. room[b].count + 1 \in 0..MaxRooms /\ 0 \in 0..MaxTick BY <3>2, <5>1, Bounds
        <5>3. k \in Rooms BY <5>1, <5>2, RoomEdits
        <5>4. room' = [room EXCEPT ![b] = k] BY <3>2, <4>0, <4>1
        <5> HIDE DEF k
        <5> QED BY <4>0, <5>3, <5>4
      <4>2. CASE b \notin Battles BY <3>2, <4>0, <4>2
      <4> QED BY <4>1, <4>2
    <3> QED BY <1>10, <3>1, <3>2 DEF Accept
  <2> QED BY <1>10, <2>1, <2>2 DEF Accept, Rooms, TypeOK, page
<1>11. ASSUME NEW s \in Socks, Lose(s) PROVE TypeOK'
  <2>1. sock' \in [Socks -> Sock]
    <3>0. <<>> \in Seq(Message) BY EmptySeq
    <3>1. [sock[s] EXCEPT !.up = "closed", !.inbox = <<>>] \in Sock BY <1>0, <3>0, SockType, SockEdits
    <3>2. sock' = [sock EXCEPT ![s] = [sock[s] EXCEPT !.up = "closed", !.inbox = <<>>]]
      BY <1>0, <1>11 DEF Lose
    <3> QED BY <1>0, <3>1, <3>2
  <2> QED BY <1>11, <2>1 DEF Lose, TypeOK, page, server
<1>12. ASSUME NEW b \in Battles, RoomTicks(b) PROVE TypeOK'
  <2> DEFINE t == room[b].tick + 1
  <2>a. room[b].tick \in Nat /\ room[b] \in Rooms /\ room \in [Battles -> Rooms] BY RoomType
  <2>b. t <= MaxTick BY <1>12 DEF RoomTicks
  <2>0. t \in 0..MaxTick BY <2>a, <2>b, Bounds
  <2>1. CASE Broadcast(b, <<StateOf(b, t)>>) /\ room' = [room EXCEPT ![b].tick = t]
    <3>1. sock' \in [Socks -> Sock] BY <1>0, <2>0, <2>1, MessageType, BroadcastType
    <3> HIDE DEF t
    <3>2. room' = [room EXCEPT ![b] = [room[b] EXCEPT !.tick = t]] BY <2>a, <2>1
    <3>3. room' \in [Battles -> Rooms] BY <2>0, <2>a, <3>2, RoomEdits
    <3> QED BY <1>12, <3>1, <3>3 DEF Rooms, RoomTicks, TypeOK, page
  <2>2. ASSUME NEW v \in Verdicts(b), Broadcast(b, <<StateOf(b, t), FinishedOf(b, v)>>),
               room' = [room EXCEPT ![b].tick = t, ![b].verdict = v, ![b].reached = @ \cup {v}]
        PROVE TypeOK'
    <3>1. sock' \in [Socks -> Sock] BY <1>0, <2>0, <2>2, MessageType, BroadcastType
    <3>2. v \in Verdict BY VerdictType
    <3> HIDE DEF t
    <3> DEFINE k == [room[b] EXCEPT !.tick = t, !.verdict = v, !.reached = @ \cup {v}]
    <3>3. k \in Rooms BY <2>0, <2>a, <3>2, RoomEdits
    <3>4. room' = [room EXCEPT ![b] = k] BY <2>a, <2>2
    <3> HIDE DEF k
    <3>5. room' \in [Battles -> Rooms] BY <2>a, <3>3, <3>4
    <3> QED BY <1>12, <3>1, <3>5 DEF Rooms, RoomTicks, TypeOK, page
  <2> QED BY <1>12, <2>1, <2>2 DEF RoomTicks
<1>13. ASSUME NEW b \in Battles, RoomCloses(b) PROVE TypeOK'
  <2>1. sock' \in [Socks -> Sock] BY <1>0, <1>13, MessageType, BroadcastType DEF RoomCloses
  <2>2. room[b] \in Rooms /\ room \in [Battles -> Rooms] /\ room[b].verdict \in Verdict
    BY <1>13, RoomType DEF RoomCloses
  <2>3. room' = [room EXCEPT ![b] = [room[b] EXCEPT !.up = FALSE]] BY <1>13, <2>2 DEF RoomCloses
  <2>4. 0 \in 0..MaxTick BY Bounds
  <2>5. room' \in [Battles -> Rooms] BY <2>2, <2>3, <2>4, RoomEdits
  <2>6. recorded' \in [Battles -> Verdict \cup {None}] BY <1>13, <2>2 DEF RoomCloses, TypeOK
  <2> QED BY <1>13, <2>1, <2>5, <2>6 DEF Rooms, RoomCloses, TypeOK, page
<1>14. CASE UNCHANGED vars BY <1>14 DEF vars, TypeOK
<1> QED
  BY <1>1, <1>2, <1>3, <1>4, <1>5, <1>6, <1>7, <1>8, <1>9, <1>10, <1>11, <1>12, <1>13, <1>14,
    <1>15
  DEF Next, Server

(* A page that shows nothing is well-typed. *)
LEMMA TypeInit == Init => TypeOK
<1> SUFFICES ASSUME Init PROVE TypeOK OBVIOUS
<1>1. /\ token \in [Battles -> Token] /\ sock \in [Socks -> Sock]
  BY NoSockType DEF Init, Token
<1>2. [up |-> FALSE, tick |-> 0, count |-> 0, verdict |-> None, reached |-> {}] \in Rooms
  BY Bounds DEF Rooms
<1>3. room \in [Battles -> Rooms] BY <1>2 DEF Init
<1>4. route \in Page BY DEF Init, Page, Away
<1> QED BY <1>1, <1>3, <1>4 DEF Init, TypeOK, initialState, Rooms

(* The pages, queries, sockets and rooms have their types in every         *)
(* reachable state.                                                        *)
THEOREM ClientTypeCorrect == Spec => []TypeOK
BY TypeInit, TypeStep, PTL DEF Spec

-----------------------------------------------------------------------------
(* The invariant: only wsRef's socket has handlers, and it is of the page's *)
(* battle; what is on its way there and in the store comes from that        *)
(* battle's rooms; a verdict comes after a state; and the answers of the    *)
(* result pages are of their battles.                                       *)
Handled == \A s \in Socks :
  IF sock[s].of = None THEN sock[s] = NoSock ELSE s = ws /\ route = BattlePage(sock[s].of)

(* q, on its way to a page of b whose rooms reached r, is true; told: the   *)
(* page has a state.                                                        *)
Honest(q, b, r, told) == \A i \in 1..Len(q) :
  /\ q[i].type # "close" => q[i].of = b
  /\ q[i].type = "finished" =>
       /\ q[i].verdict \in r
       /\ told \/ \E j \in 1..(i - 1) : q[j].type = "state"

MailHonest == \A s \in Socks : sock[s].of # None =>
  Honest(sock[s].inbox, sock[s].of, room[sock[s].of].reached, store.state # None)

RoomsSound == \A b \in Battles :
  /\ room[b].reached \subseteq Verdicts(b)
  /\ room[b].verdict # None => room[b].verdict \in room[b].reached
  /\ recorded[b] # None => recorded[b] \in room[b].reached

StoreSound == route.at = "battle" =>
  /\ store.state # None => store.state.of = route.of
  /\ store.finished # None =>
       store.state # None /\ store.finished.verdict \in room[route.of].reached

ShownSound == \A b \in Battles : shown[b] \in room[b].reached \cup {None, Nobody}

ClientInv ==
  Handled /\ MailHonest /\ RoomsSound /\ StoreSound /\ ShownSound

(* Nothing on the way is true. *)
LEMMA HonestEmpty == ASSUME NEW b, NEW r, NEW told PROVE Honest(<<>>, b, r, told)
BY DEF Honest

(* The rooms' verdicts and what the page was told only grow. *)
LEMMA HonestStays ==
  ASSUME NEW q, NEW b, NEW r, NEW told \in BOOLEAN, NEW rr, NEW ttold \in BOOLEAN,
         Honest(q, b, r, told), r \subseteq rr, told => ttold
  PROVE  Honest(q, b, rr, ttold)
BY DEF Honest

(* What is delivered is true, and what comes after it stays true. *)
LEMMA HonestTail ==
  ASSUME NEW q \in Seq(Message), q # <<>>, NEW b, NEW r, NEW told \in BOOLEAN, Honest(q, b, r, told)
  PROVE  /\ Head(q).type # "close" => Head(q).of = b
         /\ Head(q).type = "finished" => Head(q).verdict \in r /\ told
         /\ Honest(Tail(q), b, r, told \/ Head(q).type = "state")
<1>1. Len(q) \in Nat \ {0} /\ Head(q) = q[1] /\ Len(Tail(q)) = Len(q) - 1
      /\ \A i \in 1..Len(Tail(q)) : Tail(q)[i] = q[i + 1]
  BY EmptySeq, HeadTailProperties
<1>2. /\ Head(q).type # "close" => Head(q).of = b
      /\ Head(q).type = "finished" => Head(q).verdict \in r /\ told
  BY <1>1 DEF Honest
<1>3. ASSUME NEW i \in 1..Len(Tail(q))
      PROVE  /\ Tail(q)[i].type # "close" => Tail(q)[i].of = b
             /\ Tail(q)[i].type = "finished" =>
                  /\ Tail(q)[i].verdict \in r
                  /\ (told \/ Head(q).type = "state") \/ \E j \in 1..(i - 1) : Tail(q)[j].type = "state"
  <2>1. i + 1 \in 1..Len(q) /\ Tail(q)[i] = q[i + 1] BY <1>1
  <2>2. ASSUME NEW j \in 1..((i + 1) - 1), q[j].type = "state"
        PROVE  Head(q).type = "state" \/ \E l \in 1..(i - 1) : Tail(q)[l].type = "state"
    <3>1. CASE j = 1 BY <1>1, <2>2, <3>1
    <3>2. CASE j # 1
      <4>1. j - 1 \in 1..(i - 1) /\ j - 1 \in 1..Len(Tail(q)) /\ (j - 1) + 1 = j BY <1>1, <3>2
      <4>2. Tail(q)[j - 1] = q[j] BY <1>1, <4>1
      <4> QED BY <2>2, <4>1, <4>2
    <3> QED BY <3>1, <3>2
  <2>3. q[i + 1].type # "close" => q[i + 1].of = b BY <2>1 DEF Honest
  <2>4. q[i + 1].type = "finished" => q[i + 1].verdict \in r
          /\ (told \/ \E j \in 1..((i + 1) - 1) : q[j].type = "state")
    BY <2>1 DEF Honest
  <2> QED BY <2>1, <2>2, <2>3, <2>4
<1> QED BY <1>2, <1>3 DEF Honest

(* So is what a room sends: its states, a verdict after one, its end. *)
LEMMA HonestMore ==
  ASSUME NEW q \in Seq(Message), NEW ms \in Seq(Message), NEW b, NEW r, NEW told \in BOOLEAN,
         Honest(q, b, r, told), Honest(ms, b, r, FALSE)
  PROVE  Honest(q \o ms, b, r, told)
<1>1. /\ Len(q) \in Nat /\ Len(ms) \in Nat /\ Len(q \o ms) = Len(q) + Len(ms)
      /\ \A i \in 1..Len(q) + Len(ms) : (q \o ms)[i] = IF i <= Len(q) THEN q[i] ELSE ms[i - Len(q)]
  BY ConcatProperties, LenProperties
<1>2. SUFFICES ASSUME NEW i \in 1..(Len(q) + Len(ms))
      PROVE  /\ (q \o ms)[i].type # "close" => (q \o ms)[i].of = b
             /\ (q \o ms)[i].type = "finished" =>
                  /\ (q \o ms)[i].verdict \in r
                  /\ told \/ \E j \in 1..(i - 1) : (q \o ms)[j].type = "state"
  BY <1>1 DEF Honest
<1>3. CASE i <= Len(q)
  <2>1. i \in 1..Len(q) /\ (q \o ms)[i] = q[i] BY <1>1, <1>3
  <2>2. \A j \in 1..(i - 1) : (q \o ms)[j] = q[j] BY <1>1, <1>3
  <2> QED BY <2>1, <2>2 DEF Honest
<1>4. CASE i > Len(q)
  <2> DEFINE k == i - Len(q)
  <2>1. k \in 1..Len(ms) /\ (q \o ms)[i] = ms[k] BY <1>1, <1>4
  <2>2. \A j \in 1..(k - 1) : Len(q) + j \in 1..(i - 1) /\ (q \o ms)[Len(q) + j] = ms[j]
    <3> TAKE j \in 1..(k - 1)
    <3>1. Len(q) + j \in 1..(i - 1) /\ Len(q) + j \in 1..(Len(q) + Len(ms)) /\ Len(q) + j > Len(q)
          /\ (Len(q) + j) - Len(q) = j
      BY <1>1, <2>1
    <3> QED BY <1>1, <3>1
  <2> HIDE DEF k
  <2>3. /\ ms[k].type # "close" => ms[k].of = b
        /\ ms[k].type = "finished" => ms[k].verdict \in r /\ \E j \in 1..(k - 1) : ms[j].type = "state"
    BY <2>1 DEF Honest
  <2>4. ASSUME NEW j \in 1..(k - 1), ms[j].type = "state"
        PROVE  \E l \in 1..(i - 1) : (q \o ms)[l].type = "state"
    BY <2>2, <2>4
  <2> QED BY <2>1, <2>3, <2>4
<1> QED BY <1>1, <1>3, <1>4

(* A state, a verdict after one, and the end are honest. *)
LEMMA RoomsTalk ==
  ASSUME NEW b \in Battles, NEW t, NEW r
  PROVE  /\ Honest(<<StateOf(b, t)>>, b, r, FALSE)
         /\ \A v \in r : Honest(<<StateOf(b, t), FinishedOf(b, v)>>, b, r, FALSE)
         /\ Honest(<<[type |-> "close"]>>, b, r, FALSE)
<1>1. Honest(<<StateOf(b, t)>>, b, r, FALSE) BY DEF Honest, StateOf
<1>2. Honest(<<[type |-> "close"]>>, b, r, FALSE) BY DEF Honest
<1>3. ASSUME NEW v \in r PROVE Honest(<<StateOf(b, t), FinishedOf(b, v)>>, b, r, FALSE)
  <2> DEFINE q == <<StateOf(b, t), FinishedOf(b, v)>>
  <2> SUFFICES Honest(q, b, r, FALSE) OBVIOUS
  <2>1. /\ Len(q) = 2 /\ q[1].type = "state" /\ q[1].of = b
        /\ q[2].type = "finished" /\ q[2].of = b /\ q[2].verdict = v
    BY DEF StateOf, FinishedOf
  <2> HIDE DEF q
  <2>2. ASSUME NEW i \in 1..Len(q)
        PROVE  /\ q[i].type # "close" => q[i].of = b
               /\ q[i].type = "finished" =>
                    q[i].verdict \in r /\ (FALSE \/ \E j \in 1..(i - 1) : q[j].type = "state")
    <3>1. CASE i = 1 BY <2>1, <3>1
    <3>2. CASE i = 2
      <4>1. 1 \in 1..(i - 1) BY <3>2
      <4> QED BY <2>1, <3>2, <4>1
    <3> QED BY <2>1, <3>1, <3>2
  <2> QED BY <2>2 DEF Honest
<1> QED BY <1>1, <1>2, <1>3

(* What the cleanup leaves: no handler anywhere. *)
LEMMA CleanedUp ==
  ASSUME TypeOK, Handled
  PROVE \A s \in Socks : Cleanup(sock)[s] = NoSock
<1>1. sock \in [Socks -> Sock] /\ ws \in Socks \cup {None} BY DEF TypeOK
<1>2. \A s \in Socks : s # None BY ClientAssumption DEF Socks
<1> QED BY <1>1, <1>2 DEF Cleanup, Handled

(* No mail, no lies. *)
LEMMA NoMail ==
  ASSUME \A s \in Socks : sock'[s].inbox = <<>>
  PROVE MailHonest'
BY HonestEmpty DEF MailHonest

(* The page with a new socket, and without one. *)
LEMMA Connected ==
  ASSUME NEW b \in Battles, NEW socks \in [Socks -> Sock], Connect(b, socks),
         \A s \in Socks : socks[s] = NoSock, route' = BattlePage(b)
  PROVE  Handled' /\ MailHonest'
<1>1. \A s \in Socks :
        sock'[s] = IF s = ws' THEN [of |-> b, up |-> "connecting", inbox |-> <<>>] ELSE NoSock
  BY DEF Connect
<1>2. MailHonest' BY <1>1, NoMail DEF NoSock
<1>3. Handled' BY <1>1, ClientAssumption DEF Handled, NoSock
<1> QED BY <1>2, <1>3

(* A page without its screen has no handlers, and none to be lied to. *)
LEMMA Unmounted ==
  ASSUME TypeOK, Handled, UnmountScreen
  PROVE  Handled' /\ MailHonest' /\ ~screen'
<1>1. \A s \in Socks : sock'[s] = NoSock BY CleanedUp DEF UnmountScreen
<1>2. MailHonest' BY <1>1, NoMail DEF NoSock
<1> QED BY <1>1, <1>2 DEF Handled, NoSock, UnmountScreen

(* Where nothing of this moves. *)
LEMMA ClientStays ==
  ASSUME ClientInv, UNCHANGED <<route, screen, ws, sock, store, room, recorded, shown>>
  PROVE ClientInv'
BY DEF ClientInv, Handled, MailHonest, RoomsSound, StoreSound, ShownSound

(* The battle page shows one battle. *)
LEMMA AtBattle ==
  ASSUME TypeOK
  PROVE /\ \A b \in Battles : route = BattlePage(b) => route.at = "battle" /\ route.of = b
        /\ route.at = "battle" => route.of \in Battles /\ route = BattlePage(route.of)
BY DEF TypeOK, Page, BattlePage

(* A room that ticks or closes tells its listeners the truth. *)
LEMMA Told ==
  ASSUME TypeOK, ClientInv, NEW b \in Battles, NEW ms \in Seq(Message), Broadcast(b, ms),
         Honest(ms, b, room'[b].reached, FALSE), room[b].reached \subseteq room'[b].reached,
         \A c \in Battles \ {b} : room'[c].reached = room[c].reached,
         UNCHANGED <<route, ws, store>>
  PROVE  Handled' /\ MailHonest'
<1>0. sock \in [Socks -> Sock] BY DEF TypeOK
<1>1. \A s \in Socks : IF s \in Listening(b)
        THEN sock'[s].of = b /\ sock'[s].inbox = sock[s].inbox \o ms /\ sock[s].of = b ELSE sock'[s] = sock[s]
  BY <1>0, SockType DEF Broadcast, Listening, Sock
<1>n. None \notin Battles /\ NoSock.of = None BY ClientAssumption DEF NoSock
<1>2. Handled' BY <1>1, <1>n DEF Handled, ClientInv
<1>3. ASSUME NEW s \in Socks, sock'[s].of # None
      PROVE Honest(sock'[s].inbox, sock'[s].of, room'[sock'[s].of].reached, store'.state # None)
  <2> DEFINE told == store.state # None
  <2>0. store'.state # None <=> told OBVIOUS
  <2>1. CASE s \in Listening(b)
    <3>1. sock[s].of = b /\ sock'[s].of = b /\ sock'[s].inbox = sock[s].inbox \o ms BY <1>1, <2>1
    <3>2. Honest(sock[s].inbox, b, room[b].reached, told)
      BY <1>n, <3>1 DEF ClientInv, MailHonest
    <3>3. sock[s].inbox \in Seq(Message) BY <1>0, SockType
    <3>4. told \in BOOLEAN OBVIOUS
    <3> HIDE DEF told
    <3>5. Honest(sock[s].inbox, b, room'[b].reached, told) BY <3>2, <3>4, HonestStays
    <3>6. Honest(sock[s].inbox \o ms, b, room'[b].reached, told) BY <3>3, <3>4, <3>5, HonestMore
    <3> QED BY <2>0, <3>1, <3>6
  <2>2. CASE s \notin Listening(b)
    <3>1. sock'[s] = sock[s] /\ sock[s].of \in Battles BY <1>0, <1>1, <1>3, <2>2, SockType
    <3>2. Honest(sock[s].inbox, sock[s].of, room[sock[s].of].reached, told)
      BY <1>3, <3>1 DEF ClientInv, MailHonest
    <3>3. told \in BOOLEAN OBVIOUS
    <3>4. room[sock[s].of].reached \subseteq room'[sock[s].of].reached BY <3>1
    <3> HIDE DEF told
    <3>5. Honest(sock[s].inbox, sock[s].of, room'[sock[s].of].reached, told)
      BY <3>2, <3>3, <3>4, HonestStays
    <3> QED BY <2>0, <3>1, <3>5
  <2> QED BY <2>1, <2>2
<1>4. MailHonest' BY <1>3 DEF MailHonest
<1> QED BY <1>2, <1>4

(* Only the page's battle has handlers to deliver to. *)
LEMMA HandlersOnPage ==
  ASSUME TypeOK, ClientInv, NEW s \in Socks, Deliver(s)
  PROVE  sock[s].of \in Battles /\ s = ws /\ route = BattlePage(sock[s].of)
         /\ route.at = "battle" /\ route.of = sock[s].of /\ route.of \in Battles
<1>1. sock[s].of # None /\ s = ws /\ route = BattlePage(sock[s].of)
  BY DEF Deliver, ClientInv, Handled, NoSock
<1>2. sock[s].of \in Battles BY <1>1, SockType DEF TypeOK
<1> QED BY <1>1, <1>2, AtBattle

(* What the browser gets is what the room said. *)
LEMMA Delivered ==
  ASSUME TypeOK, ClientInv, NEW s \in Socks, Deliver(s)
  PROVE  ClientInv'
<1> DEFINE b == sock[s].of
           q == sock[s].inbox
           m == Head(q)
           told == store.state # None
<1>0. sock \in [Socks -> Sock] /\ q \in Seq(Message) /\ q # <<>> BY SockType DEF Deliver, TypeOK
<1>n. None \notin Battles /\ NoSock.of = None /\ NoSock.inbox = <<>> BY ClientAssumption DEF NoSock
<1>1. b # None /\ s = ws /\ route = BattlePage(b) BY <1>n, HandlersOnPage
<1>2. b \in Battles /\ route.at = "battle" /\ route.of = b BY HandlersOnPage
<1>3. Honest(q, b, room[b].reached, told) BY <1>1 DEF ClientInv, MailHonest
<1>4. /\ store' = IF m.type = "close" THEN store
                  ELSE IF m.type = "state" THEN applyState(m) ELSE applyFinished(m)
      /\ UNCHANGED <<route, screen, ws, room, recorded, shown>>
  BY DEF Deliver, page, server
<1>5. /\ sock'[s].of = b /\ sock'[s].inbox = Tail(q)
      /\ \A r \in Socks \ {s} : sock'[r] = sock[r]
  BY <1>0, SockType DEF Deliver, Sock
<1>6. m \in Message /\ told \in BOOLEAN BY <1>0, HeadTailProperties
<1>7. /\ store \in [state : {None} \cup [type : {"state"}, of : Battles, tick : 0..MaxTick],
                    finished : {None} \cup [type : {"finished"}, of : Battles, verdict : Verdict]]
      /\ store.state # None => store.state.of = b
      /\ store.finished # None => told /\ store.finished.verdict \in room[b].reached
  BY <1>2 DEF TypeOK, ClientInv, StoreSound
<1>8. Handled'
  <2>1. ASSUME NEW r \in Socks PROVE IF sock'[r].of = None THEN sock'[r] = NoSock
                                    ELSE r = ws' /\ route' = BattlePage(sock'[r].of)
    <3>1. CASE r = s BY <1>1, <1>4, <1>5, <3>1
    <3>2. CASE r # s BY <1>4, <1>5, <3>2 DEF ClientInv, Handled
    <3> QED BY <3>1, <3>2
  <2> QED BY <2>1 DEF Handled
<1>9. \A r \in Socks \ {s} : sock'[r].of = None
  BY <1>1, <1>5, <1>n DEF ClientInv, Handled
<1> HIDE DEF b, q, m, told
<1>10. /\ m.type # "close" => m.of = b
       /\ m.type = "finished" => m.verdict \in room[b].reached /\ told
       /\ Honest(Tail(q), b, room[b].reached, told \/ m.type = "state")
  BY <1>0, <1>3, <1>6, HonestTail DEF m
<1>11. /\ m.type \in {"state", "finished", "close"}
       /\ m.type = "state" => m \in [type : {"state"}, of : Battles, tick : 0..MaxTick]
  BY <1>6, MessageCases
<1>12. /\ store'.state # None <=> told \/ m.type = "state"
       /\ store'.state # None => store'.state.of = b
       /\ store'.finished # None => store'.state # None /\ store'.finished.verdict \in room[b].reached
  <2>n. m # None BY <1>6, NoMessage
  <2>1. CASE m.type = "close" BY <1>4, <1>7, <2>1 DEF told
  <2>2. CASE m.type = "state"
    <3>1. store'.finished = store.finished /\ (store'.state = m \/ (store'.state = store.state /\ told))
      BY <1>4, <1>7, <2>2 DEF applyState, told
    <3> QED BY <1>7, <1>10, <2>n, <2>2, <3>1 DEF told
  <2>3. CASE m.type = "finished"
    <3>1. store'.state = store.state /\ store'.finished = m BY <1>4, <1>7, <2>3 DEF applyFinished
    <3> QED BY <1>7, <1>10, <2>3, <3>1 DEF told
  <2> QED BY <1>11, <2>1, <2>2, <2>3
<1>13. MailHonest'
  <2>1. ASSUME NEW r \in Socks, sock'[r].of # None
        PROVE Honest(sock'[r].inbox, sock'[r].of, room'[sock'[r].of].reached, store'.state # None)
    <3>1. r = s BY <1>9, <2>1
    <3>2. (store'.state # None) = (told \/ m.type = "state") BY <1>12
    <3> QED BY <1>4, <1>5, <1>10, <3>1, <3>2
  <2> QED BY <2>1 DEF MailHonest
<1>14. StoreSound' BY <1>2, <1>4, <1>12 DEF StoreSound
<1> QED BY <1>4, <1>8, <1>13, <1>14 DEF ClientInv, RoomsSound, ShownSound

(* Every callback of the browser and every step of the server keeps it. *)
LEMMA ClientStep ==
  ASSUME TypeOK, ClientInv, [Next]_vars
  PROVE ClientInv'
<1>0. /\ sock \in [Socks -> Sock] /\ ws \in Socks \cup {None} /\ route \in Page
      /\ Handled /\ MailHonest /\ RoomsSound
  BY DEF TypeOK, ClientInv
<1>n. None \notin Battles /\ NoSock.of = None /\ NoSock.inbox = <<>> /\ NoSock.up = "none"
  BY ClientAssumption DEF NoSock
<1>1. ASSUME NEW b \in Battles, Enter(b) PROVE ClientInv'
  <2>1. \A s \in Socks : sock[s] = NoSock BY <1>0, <1>1 DEF Handled, Enter, Away, BattlePage
  <2>2. route' = BattlePage(b) /\ BattlePage(b).at = "battle" BY <1>1 DEF Enter, BattlePage
  <2>3. Handled' /\ MailHonest'
    <3>1. CASE Connect(b, sock) BY <1>0, <2>1, <2>2, <3>1, Connected
    <3>2. CASE UNCHANGED sock BY <1>n, <2>1, <3>2, NoMail DEF Handled
    <3> QED BY <1>1, <3>1, <3>2 DEF Enter
  <2> QED BY <1>0, <1>1, <2>2, <2>3
    DEF Enter, initialState, server, ClientInv, RoomsSound, StoreSound, ShownSound
<1>2. ASSUME NEW b \in Battles, TokenArrives(b) PROVE ClientInv'
  <2>1. CASE route = BattlePage(b)
    <3>1. Cleanup(sock) \in [Socks -> Sock] /\ \A s \in Socks : Cleanup(sock)[s] = NoSock
      BY <1>0, CleanupType, CleanedUp
    <3>2. Handled' /\ MailHonest' BY <1>2, <2>1, <3>1, Connected DEF TokenArrives
    <3>3. route'.at = "battle" BY <1>2, <2>1, AtBattle DEF TokenArrives
    <3> QED BY <1>0, <1>2, <3>2, <3>3
      DEF TokenArrives, server, ClientInv, RoomsSound, StoreSound, ShownSound
  <2>2. CASE route # BattlePage(b) BY <1>2, <2>2, ClientStays DEF TokenArrives, server
  <2> QED BY <2>1, <2>2
<1>3. ASSUME NEW b \in Battles, TokenFails(b) PROVE ClientInv'
  <2>1. CASE route = BattlePage(b)
    <3>1. Handled' /\ MailHonest' /\ ~screen' BY <1>0, <1>3, <2>1, Unmounted DEF TokenFails
    <3> QED BY <1>0, <1>3, <3>1
      DEF TokenFails, server, ClientInv, RoomsSound, StoreSound, ShownSound
  <2>2. CASE route # BattlePage(b) BY <1>3, <2>2, ClientStays DEF TokenFails, server
  <2> QED BY <2>1, <2>2
<1>4. ASSUME NEW to \in Page, Leave(to) PROVE ClientInv'
  <2>1. Handled' /\ MailHonest' /\ ~screen' BY <1>0, <1>4, Unmounted DEF Leave
  <2>2. route'.at # "battle" BY <1>4 DEF Leave, Away, ResultPage
  <2> QED BY <1>0, <1>4, <2>1, <2>2 DEF Leave, server, ClientInv, RoomsSound, StoreSound, ShownSound
<1>5. CASE ResultArrives
  <2>1. \A b \in Battles : Result(b) \in room[b].reached \cup {Nobody}
    BY <1>0 DEF Result, RoomsSound
  <2>2. ShownSound'
    <3>1. shown' = [shown EXCEPT ![route.of] = Result(route.of)] /\ UNCHANGED room
      BY <1>5 DEF ResultArrives, server
    <3>2. \A b \in Battles : shown'[b] \in {shown[b], Result(b)} BY <3>1 DEF TypeOK
    <3> QED BY <2>1, <3>1, <3>2 DEF ClientInv, ShownSound
  <2> QED BY <1>0, <1>5, <2>2 DEF ResultArrives, page, server, ClientInv, Handled, MailHonest,
        RoomsSound, StoreSound
<1>f. ASSUME route.at # "battle", route'.at # "battle", UNCHANGED <<sock, store, room, recorded>>
      PROVE  Handled' /\ MailHonest' /\ RoomsSound' /\ StoreSound'
  <2>1. \A s \in Socks : sock[s] = NoSock BY <1>0, <1>f DEF Handled, BattlePage
  <2>2. Handled' /\ MailHonest' BY <1>f, <1>n, <2>1, NoMail DEF Handled
  <2> QED BY <1>0, <1>f, <2>2 DEF RoomsSound, StoreSound
<1>6. CASE Back
  <2>1. route.at # "battle" /\ route'.at # "battle" BY <1>6 DEF Back, Away
  <2>2. ShownSound'
    <3>1. UNCHANGED room /\ \A b \in Battles : shown'[b] \in {shown[b], None}
      BY <1>6 DEF Back, server, TypeOK
    <3> QED BY <3>1 DEF ClientInv, ShownSound
  <2> QED BY <1>6, <1>f, <2>1, <2>2 DEF Back, server, ClientInv
<1>13. ASSUME NEW b \in Battles, OpenResult(b) PROVE ClientInv'
  <2>1. route.at # "battle" /\ route'.at # "battle" BY <1>13 DEF OpenResult, Away, ResultPage
  <2> QED BY <1>13, <1>f, <2>1 DEF OpenResult, server, ClientInv, ShownSound
<1>7. CASE Focus \/ Press \/ SendInput \/ Voice \/ UNCHANGED vars
  BY <1>7, ClientStays DEF Focus, Press, SendInput, Voice, VoiceEffect, VoiceStarts, VoiceHears,
      VoiceEnds, onend, MicReleased, vars, page, server
<1>8. ASSUME NEW s \in Socks, Accept(s) PROVE ClientInv'
  <2>1. sock[s].of \in Battles BY <1>0, <1>8, <1>n, SockType DEF Accept, Handled
  <2>2. /\ sock'[s].of = sock[s].of /\ sock'[s].inbox = sock[s].inbox
        /\ \A r \in Socks \ {s} : sock'[r] = sock[r]
    BY <1>0, <1>8, SockType DEF Accept, Sock
  <2>3. \A b \in Battles : room'[b].reached = room[b].reached
                            /\ (room'[b].verdict = room[b].verdict \/ room'[b].verdict = None)
    BY <1>8, <2>1, RoomType DEF Accept, Rooms
  <2>4. UNCHANGED <<route, screen, ws, store, recorded, shown>> BY <1>8 DEF Accept, page
  <2>5. Handled' BY <1>0, <1>n, <2>1, <2>2, <2>4 DEF Handled
  <2>6. MailHonest'
    <3>1. \A r \in Socks : sock'[r].of = sock[r].of /\ sock'[r].inbox = sock[r].inbox
            /\ (sock[r].of # None => sock[r].of \in Battles)
      BY <1>0, <2>2, SockType
    <3> QED BY <1>0, <2>3, <2>4, <3>1 DEF MailHonest
  <2>7. RoomsSound' BY <1>0, <2>3, <2>4 DEF RoomsSound
  <2>8. StoreSound' /\ ShownSound'
    BY <1>0, <2>3, <2>4, PageType DEF ClientInv, StoreSound, ShownSound
  <2> QED BY <2>4, <2>5, <2>6, <2>7, <2>8 DEF ClientInv
<1>9. ASSUME NEW s \in Socks, Lose(s) PROVE ClientInv'
  <2>1. sock[s].of \in Battles BY <1>0, <1>9, <1>n, SockType DEF Lose, Handled
  <2>2. /\ sock'[s].of = sock[s].of /\ sock'[s].inbox = <<>>
        /\ \A r \in Socks \ {s} : sock'[r] = sock[r]
    BY <1>0, <1>9, SockType DEF Lose, Sock
  <2>4. UNCHANGED <<route, screen, ws, store, room, recorded, shown>> BY <1>9 DEF Lose, page, server
  <2>5. Handled' BY <1>0, <1>n, <2>1, <2>2, <2>4 DEF Handled
  <2>6. MailHonest' BY <1>0, <2>2, <2>4, HonestEmpty DEF MailHonest
  <2> QED BY <2>4, <2>5, <2>6 DEF ClientInv, RoomsSound, StoreSound, ShownSound
<1>10. ASSUME NEW b \in Battles, RoomTicks(b) PROVE ClientInv'
  <2> DEFINE t == room[b].tick + 1
  <2>0. room \in [Battles -> Rooms] /\ room[b] \in Rooms /\ t \in 0..MaxTick
    <3>1. t <= MaxTick BY <1>10 DEF RoomTicks
    <3> QED BY <3>1, RoomType, Bounds
  <2>1. UNCHANGED <<route, screen, ws, store, recorded, shown>> BY <1>10 DEF RoomTicks, page
  <2>2. CASE Broadcast(b, <<StateOf(b, t)>>) /\ room' = [room EXCEPT ![b].tick = t]
    <3>1. \A c \in Battles : room'[c].reached = room[c].reached /\ room'[c].verdict = room[c].verdict
      BY <2>0, <2>2 DEF Rooms
    <3>2. <<StateOf(b, t)>> \in Seq(Message) /\ Honest(<<StateOf(b, t)>>, b, room'[b].reached, FALSE)
      BY <2>0, MessageType, RoomsTalk
    <3> HIDE DEF t
    <3>3. Handled' /\ MailHonest' BY <2>1, <2>2, <3>1, <3>2, Told
    <3>4. RoomsSound' BY <1>0, <2>1, <3>1 DEF RoomsSound
    <3>5. StoreSound' /\ ShownSound'
      BY <1>0, <2>1, <3>1, PageType DEF ClientInv, StoreSound, ShownSound
    <3> QED BY <2>1, <3>3, <3>4, <3>5 DEF ClientInv
  <2>3. ASSUME NEW v \in Verdicts(b), Broadcast(b, <<StateOf(b, t), FinishedOf(b, v)>>),
               room' = [room EXCEPT ![b].tick = t, ![b].verdict = v, ![b].reached = @ \cup {v}]
        PROVE ClientInv'
    <3>1. /\ \A c \in Battles \ {b} : room'[c] = room[c]
          /\ room'[b].reached = room[b].reached \cup {v} /\ room'[b].verdict = v
      BY <2>0, <2>3 DEF Rooms
    <3>2. /\ <<StateOf(b, t), FinishedOf(b, v)>> \in Seq(Message)
          /\ Honest(<<StateOf(b, t), FinishedOf(b, v)>>, b, room'[b].reached, FALSE)
      BY <2>0, <3>1, MessageType, RoomsTalk
    <3> HIDE DEF t
    <3>3. Handled' /\ MailHonest' BY <2>1, <2>3, <3>1, <3>2, Told
    <3>4. RoomsSound' BY <1>0, <2>1, <3>1 DEF RoomsSound
    <3>5. StoreSound' /\ ShownSound'
      BY <1>0, <2>1, <3>1, PageType DEF ClientInv, StoreSound, ShownSound
    <3> QED BY <2>1, <3>3, <3>4, <3>5 DEF ClientInv
  <2> QED BY <1>10, <2>2, <2>3 DEF RoomTicks
<1>11. ASSUME NEW b \in Battles, RoomCloses(b) PROVE ClientInv'
  <2>0. room \in [Battles -> Rooms] BY RoomType
  <2>1. UNCHANGED <<route, screen, ws, store, shown>> BY <1>11 DEF RoomCloses, page
  <2>2. \A c \in Battles : room'[c].reached = room[c].reached /\ room'[c].verdict = room[c].verdict
    BY <1>11, <2>0 DEF RoomCloses, Rooms
  <2>3. Handled' /\ MailHonest'
    <3>1. <<[type |-> "close"]>> \in Seq(Message)
            /\ Honest(<<[type |-> "close"]>>, b, room'[b].reached, FALSE)
      BY MessageType, RoomsTalk
    <3> QED BY <1>11, <2>1, <2>2, <3>1, Told DEF RoomCloses
  <2>4. RoomsSound'
    <3>1. \A c \in Battles :
               recorded'[c] = recorded[c] \/ (recorded'[c] = room[c].verdict /\ room[c].verdict # None)
      <4>1. recorded' = [recorded EXCEPT ![b] = IF @ = None THEN room[b].verdict ELSE @]
              \/ recorded' = recorded
        BY <1>11 DEF RoomCloses
      <4>2. room[b].verdict # None /\ recorded \in [Battles -> Verdict \cup {None}]
        BY <1>11 DEF RoomCloses, TypeOK
      <4>3. ASSUME NEW c \in Battles
            PROVE  recorded'[c] = recorded[c] \/ (recorded'[c] = room[c].verdict /\ room[c].verdict # None)
        <5>1. CASE c = b BY <4>1, <4>2, <5>1
        <5>2. CASE c # b BY <4>1, <4>2, <5>2
        <5> QED BY <5>1, <5>2
      <4> QED BY <4>3
    <3> QED BY <1>0, <2>2, <3>1 DEF RoomsSound
  <2>5. StoreSound' /\ ShownSound'
    BY <1>0, <2>1, <2>2, PageType DEF ClientInv, StoreSound, ShownSound
  <2> QED BY <2>1, <2>3, <2>4, <2>5 DEF ClientInv
<1>12. ASSUME NEW s \in Socks, Deliver(s) PROVE ClientInv' BY <1>12, Delivered
<1> QED
  BY <1>1, <1>2, <1>3, <1>4, <1>5, <1>6, <1>7, <1>8, <1>9, <1>10, <1>11, <1>12, <1>13
  DEF Next, Server

(* A page that shows nothing says nothing false. *)
LEMMA ClientStart == Init => ClientInv
<1> SUFFICES ASSUME Init PROVE ClientInv OBVIOUS
<1>1. Handled /\ MailHonest BY DEF Init, Handled, MailHonest, NoSock
<1>2. RoomsSound /\ StoreSound /\ ShownSound BY DEF Init, RoomsSound, StoreSound, ShownSound, Away
<1> QED BY <1>1, <1>2 DEF ClientInv, Init

(* The invariant holds in every reachable state. *)
LEMMA ClientHolds == Spec => []ClientInv
BY ClientStart, ClientStep, ClientTypeCorrect, PTL DEF Spec

(* Who is on the side of a verdict. *)
LEMMA VerdictSides ==
  ASSUME NEW b \in Battles, NEW v \in Verdicts(b)
  PROVE  /\ MySide(v) <=> IF b \in Teamed THEN v.team = "us" ELSE v.id = "me"
         /\ IF b \in Teamed THEN v.team = "" => v.id = "" ELSE v.team = ""
         /\ v.id = "me" => MySide(v)
<1>1. CASE b \in Teamed
  <2>1. \/ v = [team |-> "us", id |-> "me"] \/ v = [team |-> "us", id |-> "mate"]
        \/ v = [team |-> "them", id |-> "foe"] \/ v = [team |-> "", id |-> ""]
    BY <1>1, Zenon DEF Verdicts, Nobody
  <2>2. CASE v = [team |-> "us", id |-> "me"] BY <1>1, <2>2 DEF MySide
  <2>3. CASE v = [team |-> "us", id |-> "mate"] BY <1>1, <2>3 DEF MySide
  <2>4. CASE v = [team |-> "them", id |-> "foe"] BY <1>1, <2>4 DEF MySide
  <2>5. CASE v = [team |-> "", id |-> ""] BY <1>1, <2>5 DEF MySide
  <2> QED BY <2>1, <2>2, <2>3, <2>4, <2>5
<1>2. CASE b \notin Teamed
  <2>1. v = [team |-> "", id |-> "me"] \/ v = [team |-> "", id |-> "foe"]
    BY <1>2, Zenon DEF Verdicts
  <2>2. CASE v = [team |-> "", id |-> "me"] BY <1>2, <2>2 DEF MySide
  <2>3. CASE v = [team |-> "", id |-> "foe"] BY <1>2, <2>3 DEF MySide
  <2> QED BY <2>1, <2>2, <2>3
<1> QED BY <1>1, <1>2

(* Whatever sockets, tokens and battles the page went through, the result  *)
(* screen says WIN exactly to the winners' side.                           *)
THEOREM OutcomeCorrect == Spec => []OutcomeIsVerdict
<1>1. TypeOK /\ ClientInv => OutcomeIsVerdict
  <2> SUFFICES ASSUME TypeOK, ClientInv, screen, store.finished # None
               PROVE outcome = "win" <=> MySide(store.finished.verdict)
    BY DEF OutcomeIsVerdict
  <2> DEFINE v == store.finished.verdict
  <2>1. /\ route.of \in Battles /\ store.state # None /\ store.state.of = route.of
        /\ v \in Verdicts(route.of)
    <3>1. route.at = "battle" BY DEF TypeOK
    <3> QED BY <3>1, AtBattle DEF ClientInv, StoreSound, RoomsSound
  <2>2. outcome = IF (MyTeam # "" /\ v.team # "" /\ v.team = MyTeam) \/ (v.team = "" /\ v.id = "me")
                  THEN "win" ELSE "lose"
    BY DEF outcome
  <2> HIDE DEF v
  <2>3. MyTeam = IF route.of \in Teamed THEN "us" ELSE "" BY <2>1 DEF MyTeam
  <2>4. MySide(v) <=> IF route.of \in Teamed THEN v.team = "us" ELSE v.id = "me"
    BY <2>1, VerdictSides
  <2>5. IF route.of \in Teamed THEN v.team = "" => v.id = "" ELSE v.team = ""
    BY <2>1, VerdictSides
  <2> QED BY <2>2, <2>3, <2>4, <2>5 DEF v
<1> QED BY <1>1, ClientHolds, ClientTypeCorrect, PTL

LEMMA NobodysId == Nobody.id = ""
BY DEF Nobody

(* The result page of a battle shows a verdict of one of its rooms, or     *)
(* nobody, WIN to no loser, and, in a battle without teams, LOSE to nobody *)
(* whom the answer names.                                                  *)
THEOREM ResultPageCorrect == Spec => []ResultPageSound
<1>1. TypeOK /\ ClientInv => ResultPageSound
  <2> DEFINE v == shown[route.of]
  <2> SUFFICES ASSUME TypeOK, ClientInv, route.at = "result", v # None
               PROVE /\ v \in room[route.of].reached \cup {Nobody}
                     /\ pageOutcome = "win" => MySide(v)
                     /\ route.of \notin Teamed /\ MySide(v) => pageOutcome = "win"
    BY DEF ResultPageSound
  <2>1. v \in room[route.of].reached \cup {Nobody} /\ v \in Verdicts(route.of) \cup {Nobody}
    BY PageType DEF TypeOK, ClientInv, ShownSound, RoomsSound
  <2>2. CASE v = Nobody
    <3>1. v.id = "" BY <2>2, NobodysId
    <3>2. pageOutcome = IF v.id = "me" THEN "win" ELSE "lose" BY DEF pageOutcome
    <3> HIDE DEF v
    <3>3. pageOutcome = "lose" /\ ~MySide(v) BY <3>1, <3>2 DEF MySide
    <3> QED BY <2>1, <3>3
  <2>3. CASE v \in Verdicts(route.of)
    BY <2>1, <2>3, VerdictSides, PageType DEF pageOutcome, TypeOK
  <2> QED BY <2>1, <2>2, <2>3
<1> QED BY <1>1, ClientHolds, ClientTypeCorrect, PTL

(* A trigger is of the screen that is shown. *)
TriggerAtHome == trigger # None => screen /\ trigger = route.of

(* What is triggered on the screen of a battle goes to no other battle,    *)
(* whatever tokens, sockets and pages come and go before it is sent.       *)
THEOREM TriggersGoHome == Spec => []SentToItsBattle
<1>1. Init => TriggerAtHome BY DEF Init, TriggerAtHome
<1>2. ASSUME TypeOK, TriggerAtHome, [Next]_vars PROVE TriggerAtHome'
  <2>1. CASE trigger' = None BY <2>1 DEF TriggerAtHome
  <2>2. CASE SetTrigger /\ screen /\ UNCHANGED <<route, screen>>
    BY <2>2 DEF SetTrigger, TriggerAtHome
  <2>3. CASE UNCHANGED <<route, screen, trigger>> BY <1>2, <2>3 DEF TriggerAtHome
  <2>4. ASSUME NEW b \in Battles, Enter(b) PROVE TriggerAtHome'
    BY <1>2, <2>4 DEF Enter, Away, TypeOK, TriggerAtHome
  <2>5. ASSUME NEW b \in Battles, TokenArrives(b) PROVE TriggerAtHome'
    BY <1>2, <2>5 DEF TokenArrives, TriggerAtHome
  <2>6. ASSUME NEW b \in Battles, OpenResult(b) PROVE TriggerAtHome'
    BY <1>2, <2>6 DEF OpenResult, Away, TypeOK, TriggerAtHome
  <2>7. CASE Back BY <1>2, <2>7 DEF Back, TypeOK, TriggerAtHome
  <2>8. CASE Press \/ VoiceHears BY <2>2, <2>8 DEF Press, VoiceHears, Enabled, page
  <2> QED
    BY <1>2, <2>1, <2>3, <2>4, <2>5, <2>6, <2>7, <2>8
    DEF Next, Server, Voice, TokenFails, Focus, Leave, ResultArrives, Deliver, SendInput,
      UnmountScreen, VoiceEffect, VoiceStarts, VoiceEnds, onend, MicReleased, Accept, Lose,
      RoomTicks, RoomCloses, page, vars
<1>3. TypeOK /\ ClientInv /\ TriggerAtHome => SentToItsBattle
  <2> SUFFICES ASSUME TypeOK, ClientInv, TriggerAtHome, screen, Open, trigger # None
               PROVE  sock[ws].of = trigger
    BY DEF SentToItsBattle
  <2>1. ws \in Socks /\ sock[ws].up = "open" BY DEF Open, TypeOK
  <2>2. sock[ws].of # None BY <2>1 DEF ClientInv, Handled, NoSock
  <2>3. route = BattlePage(sock[ws].of) BY <2>1, <2>2 DEF ClientInv, Handled
  <2> QED BY <2>3 DEF TriggerAtHome, BattlePage
<1> QED BY <1>1, <1>2, <1>3, ClientHolds, ClientTypeCorrect, PTL DEF Spec

-----------------------------------------------------------------------------
(* BattleClient implements BattleView. *)

(* At first the page shows no battle. *)
LEMMA ViewStart == Init => View!Init
BY DEF Init, View!Init, Away

(* Enter opens, Deliver sees and tells, Leave shuts, RoomTicks reaches; the
   rest stutters. *)
LEMMA ViewStep ==
  ASSUME TypeOK, ClientInv, ClientInv', [Next]_vars
  PROVE [View!Next]_View!vars
<1> DEFINE at == IF route.at = "battle" THEN route.of ELSE None
           seen == route.at = "battle" /\ store.state # None
           told == IF route.at # "battle" \/ store.finished = None THEN None
                   ELSE store.finished.verdict
           reached == [b \in Battles |-> room[b].reached]
<1>0. route \in Page /\ \A b \in Battles : b # None BY ClientAssumption DEF TypeOK
<1>s. ASSUME UNCHANGED <<route, store>>, reached' = reached PROVE UNCHANGED View!vars
  BY <1>s DEF View!vars
<1>r. ASSUME UNCHANGED room PROVE reached' = reached BY <1>r
<1>1. ASSUME NEW b \in Battles, Enter(b) PROVE View!Open(b)
  BY <1>1 DEF Enter, View!Open, BattlePage, Away, initialState, server
<1>2. ASSUME NEW to \in Page, Leave(to) PROVE View!Shut
  <2>1. at # None BY <1>0, <1>2, PageType DEF Leave
  <2>2. route'.at # "battle" BY <1>2 DEF Leave, Away, ResultPage
  <2> QED BY <1>2, <2>1, <2>2 DEF Leave, View!Shut, server
<1>3. CASE Back
  <2>1. route.at # "battle" /\ route'.at # "battle" /\ UNCHANGED room
    BY <1>3 DEF Back, Away, server
  <2> QED BY <2>1 DEF View!vars
<1>9. ASSUME NEW b \in Battles, OpenResult(b) PROVE UNCHANGED View!vars
  <2>1. route.at # "battle" /\ route'.at # "battle" /\ UNCHANGED room
    BY <1>9 DEF OpenResult, Away, ResultPage, server
  <2> QED BY <2>1 DEF View!vars
<1>4. ASSUME NEW s \in Socks, Deliver(s) PROVE View!See \/ View!Tell \/ UNCHANGED View!vars
  <2> DEFINE m == Head(sock[s].inbox)
  <2>1. route.at = "battle" /\ route.of \in Battles BY <1>0, <1>4, HandlersOnPage
  <2>2. m \in Message
    BY <1>4, SockType, HeadTailProperties DEF Deliver, TypeOK
  <2>3. /\ store' = IF m.type = "close" THEN store
                    ELSE IF m.type = "state" THEN applyState(m) ELSE applyFinished(m)
        /\ UNCHANGED <<route, room>>
    BY <1>4 DEF Deliver, page, server
  <2> HIDE DEF m
  <2>4. m \notin {None} /\ m.type \in {"state", "finished", "close"} BY <2>2, NoMessage, MessageCases
  <2>5. CASE m.type = "close" BY <1>s, <2>3, <2>5
  <2>6. CASE m.type = "state"
    <3>1. store'.finished = store.finished /\ (store' = store \/ store'.state = m)
      BY <2>3, <2>6 DEF applyState, TypeOK
    <3>2. CASE store' = store BY <1>s, <2>3, <3>2
    <3>3. CASE store'.state = m BY <2>1, <2>3, <2>4, <3>1, <3>3, <1>0 DEF View!See
    <3> QED BY <3>1, <3>2, <3>3
  <2>7. CASE m.type = "finished"
    <3>1. store'.state = store.state /\ store'.finished = m BY <2>3, <2>7 DEF applyFinished, TypeOK
    <3>2. store'.state # None /\ store'.finished.verdict \in room'[route'.of].reached
      BY <2>1, <2>3, <2>4, <3>1 DEF ClientInv, StoreSound
    <3> QED BY <1>0, <2>1, <2>3, <2>4, <3>1, <3>2 DEF View!Tell
  <2> QED BY <2>4, <2>5, <2>6, <2>7
<1>5. ASSUME NEW b \in Battles, RoomTicks(b)
      PROVE (\E v \in Verdict : View!Reach(b, v)) \/ UNCHANGED View!vars
  <2>0. room \in [Battles -> Rooms] /\ UNCHANGED <<route, store>>
    BY <1>5, RoomType DEF RoomTicks, page
  <2>1. ASSUME NEW t, room' = [room EXCEPT ![b].tick = t] PROVE UNCHANGED View!vars
    <3>1. \A c \in Battles : room'[c].reached = room[c].reached BY <2>0, <2>1 DEF Rooms
    <3> QED BY <1>s, <2>0, <3>1
  <2>2. ASSUME NEW t, NEW v \in Verdicts(b),
               room' = [room EXCEPT ![b].tick = t, ![b].verdict = v, ![b].reached = @ \cup {v}]
        PROVE \E u \in Verdict : View!Reach(b, u)
    <3>1. /\ \A c \in Battles \ {b} : room'[c].reached = room[c].reached
          /\ room'[b].reached = room[b].reached \cup {v}
      BY <2>0, <2>2 DEF Rooms
    <3>2. reached' = [reached EXCEPT ![b] = @ \cup {v}] BY <3>1
    <3>3. View!Reach(b, v) BY <2>0, <3>2 DEF View!Reach
    <3> QED BY <3>3, VerdictType
  <2> QED BY <1>5, <2>1, <2>2 DEF RoomTicks
<1>6. ASSUME \/ \E s \in Socks : Accept(s)
             \/ \E b \in Battles : RoomCloses(b)
      PROVE UNCHANGED View!vars
  <2>0. room \in [Battles -> Rooms] BY RoomType DEF TypeOK, Rooms
  <2>1. \A b \in Battles : room'[b].reached = room[b].reached
    <3>1. ASSUME NEW s \in Socks, Accept(s) PROVE \A b \in Battles : room'[b].reached = room[b].reached
      BY <2>0, <3>1 DEF Accept, Rooms
    <3>2. ASSUME NEW c \in Battles, RoomCloses(c) PROVE \A b \in Battles : room'[b].reached = room[b].reached
      BY <2>0, <3>2 DEF RoomCloses, Rooms
    <3> QED BY <1>6, <3>1, <3>2
  <2>2. UNCHANGED <<route, store>> BY <1>6 DEF Accept, RoomCloses, page
  <2> QED BY <1>s, <2>1, <2>2
<1>7. ASSUME \/ \E b \in Battles : TokenArrives(b) \/ TokenFails(b)
             \/ \E s \in Socks : Lose(s)
             \/ Focus \/ ResultArrives \/ Press \/ SendInput \/ Voice \/ UNCHANGED vars
      PROVE UNCHANGED <<route, store, room>>
  BY <1>7 DEF TokenArrives, TokenFails, Lose, Focus, ResultArrives, Press, SendInput, Voice,
      VoiceEffect, VoiceStarts, VoiceHears, VoiceEnds, onend, MicReleased, vars, page, server
<1>8. ASSUME UNCHANGED <<route, store, room>> PROVE UNCHANGED View!vars BY <1>8, <1>s, <1>r
<1> HIDE DEF at, seen, told, reached
<1> QED
  BY <1>1, <1>2, <1>3, <1>4, <1>5, <1>6, <1>7, <1>8, <1>9 DEF Next, Server, View!Next

(* From opening it to leaving it, the page shows one battle: its states,   *)
(* and after one of them a verdict that a room of this battle reached.     *)
THEOREM ClientShowsOneBattle == Spec => ShowsOneBattle
<1>1. TypeOK /\ ClientInv /\ ClientInv' /\ [Next]_vars => [View!Next]_View!vars BY ViewStep
<1> QED BY <1>1, ViewStart, ClientHolds, ClientTypeCorrect, PTL DEF Spec, ShowsOneBattle, View!Spec
=============================================================================
