--------------------------- MODULE BattleClient ---------------------------
(***************************************************************************)
(* A player's browser during battles: the battle page and its token, the   *)
(* socket, the store, the triggers and the voice that sets one, and the    *)
(* result page afterwards (frontend/src/lib/battle, components/battle,     *)
(* app/(dashboard)/wars).  The game server is an environment that does     *)
(* what BattleServer is shown to do: whoever hears a verdict has got the   *)
(* state of that tick first, and the first result Rails gets stays.        *)
(*                                                                         *)
(* The browser runs one callback at a time, and one action is a callback   *)
(* with the renders and effects it causes; the voice effect alone, whose   *)
(* recogniser has callbacks of its own, is an action apart.                *)
(***************************************************************************)
EXTENDS Naturals, Sequences

CONSTANTS
  Battles,                          \* ids of battles of this player
  Teamed,                           \* those between classes
  None,
  MaxSocks, MaxTick, MaxRooms, MaxInbox,   \* bounds
  MaxTokens                                \* a bound for each battle

ASSUME ClientAssumption ==
  /\ Teamed \subseteq Battles
  /\ None \notin Battles \cup Nat
  /\ {MaxSocks, MaxTick, MaxRooms, MaxInbox} \subseteq Nat
  /\ MaxTokens \in [Battles -> Nat]

VARIABLES
  route,        \* the page shown
  token,        \* useWsToken's query, per battle
  screen,       \* BattleScreen is mounted
  ws,           \* wsRef
  sock,         \* the WebSocket objects with handlers, and what is on its way to them
  store,        \* battleStore
  trigger,      \* attackRef and summonRef, which differ in name only: the battle
                \* on whose screen the one was set, or none
  mic,          \* the recogniser of useVoiceSummon
  room,         \* external: the game server's room of each battle; reached keeps
                \* the verdicts of its rooms so far
  recorded,     \* external: the result Rails has of each battle
  shown         \* the result page's query, per battle

vars == <<route, token, screen, ws, sock, store, trigger, mic, room, recorded, shown>>

page == <<route, token, screen, ws>>
server == <<room, recorded>>

-----------------------------------------------------------------------------
(* A verdict names the winners' team and one of the winners; the player's  *)
(* own side is "us" and "me" or "mate".  Without teams the team is empty,  *)
(* and so is all of a draw.                                                *)
Nobody == [team |-> "", id |-> ""]

Verdicts(b) ==
  IF b \in Teamed
  THEN {[team |-> "us", id |-> "me"], [team |-> "us", id |-> "mate"],
        [team |-> "them", id |-> "foe"], Nobody}
  ELSE {[team |-> "", id |-> "me"], [team |-> "", id |-> "foe"]}

Verdict == UNION {Verdicts(b) : b \in Battles}

MySide(v) == v.id \in {"me", "mate"}

(* wsSchema: what parseServerMessage lets through, and the socket's end. *)
Message == [type : {"state"}, of : Battles, tick : 0..MaxTick]
             \cup [type : {"finished"}, of : Battles, verdict : Verdict]
             \cup [type : {"close"}]

ASSUME NoMessage == None \notin Message

StateOf(b, t) == [type |-> "state", of |-> b, tick |-> t]
FinishedOf(b, v) == [type |-> "finished", of |-> b, verdict |-> v]

Sock == [of : Battles \cup {None}, up : {"none", "connecting", "open", "closed"},
         inbox : Seq(Message)]

NoSock == [of |-> None, up |-> "none", inbox |-> <<>>]

Socks == 1..MaxSocks

Page == [at : {"away"}] \cup [at : {"battle", "result"}, of : Battles]
Away == [at |-> "away"]
BattlePage(b) == [at |-> "battle", of |-> b]
ResultPage(b) == [at |-> "result", of |-> b]

(* A query: the version of its data, and what it is doing.  failed: the    *)
(* last fetch was in vain; retrying: in vain, and fetching again.          *)
Token == [version : Nat, status : {"idle", "fetching", "failed", "retrying"}]

Usable(t) == t.version > 0 /\ t.status \in {"idle", "fetching"}
Fetching(t) == t.status \in {"fetching", "retrying"}

initialState == [state |-> None, finished |-> None]

Enabled == screen /\ store.state # None /\ store.finished = None

-----------------------------------------------------------------------------
(* The socket effect: a new socket for the page's battle, and the cleanup  *)
(* that closes the old one and takes its handlers off, so that it matters  *)
(* no more what else arrives there.                                        *)

(* Mutant: the old socket is closed with its handlers on. *)
CleanupBound(socks) ==
  IF ws = None THEN socks ELSE [socks EXCEPT ![ws].up = "closed"]

Cleanup(socks) ==
  IF ws = None THEN socks ELSE [socks EXCEPT ![ws] = NoSock]

Connect(b, socks) ==
  \E s \in Socks :
    /\ socks[s] = NoSock
    /\ \A r \in 1..(s - 1) : socks[r] # NoSock
    /\ ws' = s
    /\ sock' = [socks EXCEPT ![s] = [of |-> b, up |-> "connecting", inbox |-> <<>>]]

(* The recogniser is stopped, its handlers taken off. *)
Stopped == IF mic = "off" THEN "off" ELSE "stopping"

(* Mutant: the triggers are kept outside of the screen, as the store is. *)
TriggersKept ==
  /\ screen' = FALSE /\ ws' = None /\ sock' = Cleanup(sock)
  /\ mic' = Stopped /\ UNCHANGED trigger

(* BattleScreen goes: its refs with it, its effects cleaned up. *)
UnmountScreen ==
  /\ screen' = FALSE /\ ws' = None /\ sock' = Cleanup(sock)
  /\ trigger' = None /\ mic' = Stopped

-----------------------------------------------------------------------------
Init ==
  /\ route = Away
  /\ token = [b \in Battles |-> [version |-> 0, status |-> "idle"]]
  /\ screen = FALSE
  /\ ws = None
  /\ sock = [s \in Socks |-> NoSock]
  /\ store = initialState
  /\ trigger = None
  /\ mic = "off"
  /\ room = [b \in Battles |-> [up |-> FALSE, tick |-> 0, count |-> 0, verdict |-> None,
                                reached |-> {}]]
  /\ recorded = [b \in Battles |-> None]
  /\ shown = [b \in Battles |-> None]

(* A fetch begins for want of a token, after a failure, or once staleTime  *)
(* has passed, which it may have at any time.                              *)
Refetch(t) ==
  IF Fetching(t) THEN {t}
  ELSE {[t EXCEPT !.status = IF t.status = "failed" /\ t.version > 0 THEN "retrying" ELSE "fetching"]}
         \cup (IF Usable(t) THEN {t} ELSE {})

(* The battle page is opened.  With a token the screen mounts and          *)
(* connects; the page's own effect, which runs after its children's,       *)
(* resets the store.                                                       *)
Enter(b) ==
  /\ route = Away
  /\ route' = BattlePage(b)
  /\ \E t \in Refetch(token[b]) : token' = [token EXCEPT ![b] = t]
  /\ store' = initialState
  /\ IF Usable(token[b])
     THEN screen' = TRUE /\ Connect(b, sock)
     ELSE UNCHANGED <<screen, ws, sock>>
  /\ UNCHANGED <<trigger, mic, server, shown>>

(* Rails issues a token, never the same twice: the expiry is part of it.   *)
(* The page shows the screen, or its socket effect runs again.             *)
TokenArrives(b) ==
  /\ Fetching(token[b])
  /\ token[b].version < MaxTokens[b]
  /\ token' = [token EXCEPT ![b] = [version |-> @.version + 1, status |-> "idle"]]
  /\ IF route = BattlePage(b)
     THEN screen' = TRUE /\ Connect(b, Cleanup(sock))
     ELSE UNCHANGED <<screen, ws, sock>>
  /\ UNCHANGED <<route, store, trigger, mic, server, shown>>

(* Without a retry the query is in error, data or not, and the page says   *)
(* that the battle cannot be joined.                                       *)
TokenFails(b) ==
  /\ Fetching(token[b])
  /\ token' = [token EXCEPT ![b].status = "failed"]
  /\ IF route = BattlePage(b) THEN UnmountScreen
     ELSE UNCHANGED <<screen, ws, sock, trigger, mic>>
  /\ UNCHANGED <<route, store, server, shown>>

(* The window gets the focus: a stale or failed query fetches again. *)
Focus ==
  /\ route.at = "battle"
  /\ \E t \in Refetch(token[route.of]) \ {token[route.of]} :
       t.version < MaxTokens[route.of] /\ token' = [token EXCEPT ![route.of] = t]
  /\ UNCHANGED <<route, screen, ws, sock, store, trigger, mic, server, shown>>

(* The player leaves the page; the result screen leads to the result page. *)
Leave(to) ==
  /\ route.at = "battle"
  /\ to = Away \/ (to = ResultPage(route.of) /\ screen /\ store.finished # None)
  /\ route' = to
  /\ UnmountScreen
  /\ UNCHANGED <<token, store, server, shown>>

(* The records list the battles that are finished, each with its result. *)
OpenResult(b) ==
  /\ route = Away /\ recorded[b] # None
  /\ route' = ResultPage(b)
  /\ UNCHANGED <<token, screen, ws, sock, store, trigger, mic, server, shown>>

(* Rails answers with the result, or, while it has none, with nobody for   *)
(* the winner, as after a draw.                                            *)
Result(b) == IF recorded[b] = None THEN Nobody ELSE recorded[b]

(* Mutant: the query's key has no battle in it. *)
OneForAll ==
  /\ route.at = "result"
  /\ shown' = [b \in Battles |-> Result(route.of)]
  /\ UNCHANGED <<page, sock, store, trigger, mic, server>>

(* The result page asks when it opens, unless an earlier answer is fresh,  *)
(* and again when the window gets the focus and the answer is stale.       *)
ResultArrives ==
  /\ route.at = "result"
  /\ shown' = [shown EXCEPT ![route.of] = Result(route.of)]
  /\ UNCHANGED <<page, sock, store, trigger, mic, server>>

(* From the result it goes back to the wars.  The answer stays, until the  *)
(* cache collects it.                                                      *)
Back ==
  /\ route.at = "result"
  /\ route' = Away
  /\ shown' \in {shown, [shown EXCEPT ![route.of] = None]}
  /\ UNCHANGED <<token, screen, ws, sock, store, trigger, mic, server>>

-----------------------------------------------------------------------------
(* ws.onmessage and ws.onclose. *)

applyState(m) ==
  IF store.state # None /\ m.tick < store.state.tick THEN store
  ELSE [store EXCEPT !.state = m]

(* Mutant: a verdict is taken for a state. *)
TakenForState(m) == [store EXCEPT !.state = m]

applyFinished(m) == [store EXCEPT !.finished = m]

Deliver(s) ==
  LET m == Head(sock[s].inbox)
  IN  /\ sock[s].inbox # <<>>
      /\ sock' = [sock EXCEPT ![s].inbox = Tail(@),
                              ![s].up = IF m.type = "close" THEN "closed" ELSE @]
      /\ store' = IF m.type = "close" THEN store
                  ELSE IF m.type = "state" THEN applyState(m) ELSE applyFinished(m)
      /\ UNCHANGED <<page, trigger, mic, server, shown>>

-----------------------------------------------------------------------------
(* handleAttack and handleSummon: the HUD's buttons, which are there once  *)
(* the player is in a state, and a keyword in the words heard, interim     *)
(* ones included.                                                          *)
SetTrigger == trigger' = route.of

Press ==
  /\ Enabled
  /\ SetTrigger
  /\ UNCHANGED <<page, sock, store, mic, server, shown>>

VoiceHears ==
  /\ mic = "on"
  /\ screen
  /\ SetTrigger
  /\ UNCHANGED <<page, sock, store, mic, server, shown>>

Open == ws # None /\ sock[ws].up = "open"

(* 30 times a second, on the result screen as well: the triggers go out,   *)
(* if the socket is open, and are consumed in any case.                    *)
SendInput ==
  /\ screen
  /\ trigger' = None
  /\ UNCHANGED <<page, sock, store, mic, server, shown>>

-----------------------------------------------------------------------------
(* useVoiceSummon.  mic: off; the recogniser is starting, on, or ended; or *)
(* it was stopped, without handlers, and still holds the microphone.       *)

(* Mutant: the cleanup is not returned, and the recogniser never stopped. *)
NeverStopped ==
  /\ Enabled /\ mic \in {"off", "stopping"} /\ mic' = "starting"
  /\ UNCHANGED <<page, sock, store, trigger, server, shown>>

VoiceEffect ==
  /\ \/ Enabled /\ mic \in {"off", "stopping"} /\ mic' = "starting"
     \/ ~Enabled /\ mic \in {"starting", "on", "ended"} /\ mic' = Stopped
  /\ UNCHANGED <<page, sock, store, trigger, server, shown>>

VoiceStarts ==
  /\ mic = "starting"
  /\ mic' = "on"
  /\ UNCHANGED <<page, sock, store, trigger, server, shown>>

(* Silence, or an error: the browser ends the recognition. *)
VoiceEnds ==
  /\ mic = "on"
  /\ mic' = "ended"
  /\ UNCHANGED <<page, sock, store, trigger, server, shown>>

(* Mutant: nothing restarts it. *)
EndedForGood == mic = "ended" /\ UNCHANGED vars

onend ==
  /\ mic = "ended"
  /\ mic' = "starting"
  /\ UNCHANGED <<page, sock, store, trigger, server, shown>>

(* The browser lets go of the microphone of a recogniser that was stopped. *)
MicReleased ==
  /\ mic = "stopping"
  /\ mic' = "off"
  /\ UNCHANGED <<page, sock, store, trigger, server, shown>>

-----------------------------------------------------------------------------
(* The game server, as the client sees it (BattleServer). *)

Listening(b) == {s \in Socks : sock[s].of = b /\ sock[s].up = "open"}

Broadcast(b, ms) ==
  /\ \A s \in Listening(b) : Len(sock[s].inbox) + Len(ms) <= MaxInbox
  /\ sock' = [s \in Socks |-> IF s \in Listening(b)
                              THEN [sock[s] EXCEPT !.inbox = @ \o ms] ELSE sock[s]]

(* The upgrade: the battle has a room, or gets one. *)
Accept(s) ==
  LET b == sock[s].of
  IN  /\ sock[s].up = "connecting"
      /\ sock' = [sock EXCEPT ![s].up = "open"]
      /\ IF room[b].up THEN UNCHANGED room
         ELSE /\ room[b].count < MaxRooms
              /\ room' = [room EXCEPT ![b].up = TRUE, ![b].tick = 0, ![b].verdict = None,
                                      ![b].count = @ + 1]
      /\ UNCHANGED <<page, store, trigger, mic, recorded, shown>>

(* The handshake fails or the connection is lost. *)
Lose(s) ==
  /\ sock[s].up \in {"connecting", "open"}
  /\ sock' = [sock EXCEPT ![s].up = "closed", ![s].inbox = <<>>]
  /\ UNCHANGED <<page, store, trigger, mic, server, shown>>

RoomTicks(b) ==
  LET t == room[b].tick + 1
  IN  /\ room[b].up /\ room[b].verdict = None /\ t <= MaxTick
      /\ \/ /\ Broadcast(b, <<StateOf(b, t)>>)
            /\ room' = [room EXCEPT ![b].tick = t]
         \/ \E v \in Verdicts(b) :
              /\ Broadcast(b, <<StateOf(b, t), FinishedOf(b, v)>>)
              /\ room' = [room EXCEPT ![b].tick = t, ![b].verdict = v,
                                       ![b].reached = @ \cup {v}]
      /\ UNCHANGED <<page, store, trigger, mic, recorded, shown>>

(* The room posts its result, which may be lost, and closes. *)
RoomCloses(b) ==
  /\ room[b].up /\ room[b].verdict # None
  /\ room' = [room EXCEPT ![b].up = FALSE]
  /\ \/ recorded' = [recorded EXCEPT ![b] = IF @ = None THEN room[b].verdict ELSE @]
     \/ UNCHANGED recorded
  /\ Broadcast(b, <<[type |-> "close"]>>)
  /\ UNCHANGED <<page, store, trigger, mic, shown>>

-----------------------------------------------------------------------------
(* BattleScreen's outcome, and the result page's. *)

MyTeam == IF store.state # None /\ store.state.of \in Teamed THEN "us" ELSE ""

(* Mutant: the representative alone wins. *)
OutcomeById == IF store.finished.verdict.id = "me" THEN "win" ELSE "lose"

outcome ==
  LET v         == store.finished.verdict
      wonByTeam == MyTeam # "" /\ v.team # "" /\ v.team = MyTeam
  IN  IF wonByTeam \/ (v.team = "" /\ v.id = "me") THEN "win" ELSE "lose"

pageOutcome == IF shown[route.of].id = "me" THEN "win" ELSE "lose"

-----------------------------------------------------------------------------
Voice ==
  VoiceEffect \/ VoiceStarts \/ VoiceHears \/ VoiceEnds \/ onend \/ MicReleased

Server ==
  \/ \E s \in Socks : Accept(s) \/ Lose(s)
  \/ \E b \in Battles : RoomTicks(b) \/ RoomCloses(b)

Next ==
  \/ \E b \in Battles : Enter(b) \/ TokenArrives(b) \/ TokenFails(b) \/ OpenResult(b)
  \/ Focus
  \/ \E to \in Page : Leave(to)
  \/ ResultArrives
  \/ Back
  \/ \E s \in Socks : Deliver(s)
  \/ Press
  \/ SendInput
  \/ Voice
  \/ Server

Spec == Init /\ [][Next]_vars

(* The browser runs effects and callbacks, lets go of a stopped            *)
(* microphone, and starts a recogniser it is asked for again and again.    *)
FairSpec ==
  Spec /\ WF_vars(VoiceEffect) /\ WF_vars(onend) /\ WF_vars(MicReleased) /\ SF_vars(VoiceStarts)

-----------------------------------------------------------------------------
TypeOK ==
  /\ route \in Page
  /\ token \in [Battles -> Token]
  /\ screen \in BOOLEAN /\ (screen => route.at = "battle")
  /\ trigger \in Battles \cup {None}
  /\ ws \in Socks \cup {None}
  /\ sock \in [Socks -> Sock]
  /\ store \in [state : {None} \cup [type : {"state"}, of : Battles, tick : 0..MaxTick],
               finished : {None} \cup [type : {"finished"}, of : Battles, verdict : Verdict]]
  /\ mic \in {"off", "starting", "on", "ended", "stopping"}
  /\ room \in [Battles -> [up : BOOLEAN, tick : 0..MaxTick, count : 0..MaxRooms,
                           verdict : Verdict \cup {None}, reached : SUBSET Verdict]]
  /\ recorded \in [Battles -> Verdict \cup {None}]
  /\ shown \in [Battles -> Verdict \cup {None, Nobody}]

(* The result screen says WIN exactly to the winners' side, whichever of   *)
(* them the verdict names, and whatever sockets, tokens and battles the    *)
(* page went through before.                                               *)
OutcomeIsVerdict ==
  screen /\ store.finished # None =>
    (outcome = "win" <=> MySide(store.finished.verdict))

(* What a button or a word has triggered on the screen of a battle goes    *)
(* out, if at all, to the rooms of that battle, however the send loop, new *)
(* tokens, reconnections and changes of the page interleave.               *)
SentToItsBattle == screen /\ Open /\ trigger # None => sock[ws].of = trigger

(* Whenever voice is wanted, the recogniser listens again, whatever ended  *)
(* it; when it is not, the microphone is given back.                       *)
VoiceListens == Enabled ~> (mic = "on" \/ ~Enabled)

MicGivenBack == ~Enabled ~> (mic = "off" \/ Enabled)

(* The page shows one battle: the states of its rooms and then a verdict   *)
(* one of them reached; nothing of a battle, or socket, it had before.     *)
View == INSTANCE BattleView WITH
  at      <- IF route.at = "battle" THEN route.of ELSE None,
  seen    <- route.at = "battle" /\ store.state # None,
  told    <- IF route.at # "battle" \/ store.finished = None THEN None
             ELSE store.finished.verdict,
  reached <- [b \in Battles |-> room[b].reached]

ShowsOneBattle == View!Spec

(* Whatever result pages were open before, at whatever time they asked: the *)
(* page of a battle shows a verdict a room of that battle reached, or       *)
(* nobody, says WIN to nobody who lost and, in a battle without teams, LOSE *)
(* to nobody whom the answer it has names as the winner.                   *)
ResultPageSound ==
  route.at = "result" /\ shown[route.of] # None =>
    /\ shown[route.of] \in room[route.of].reached \cup {Nobody}
    /\ pageOutcome = "win" => MySide(shown[route.of])
    /\ route.of \notin Teamed /\ MySide(shown[route.of]) => pageOutcome = "win"
=============================================================================
