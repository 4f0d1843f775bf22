----------------------------- MODULE ChatServer -----------------------------
(***************************************************************************)
(* ChattingServer: the callbacks of the network library turn every join,   *)
(* packet and leave of a session into a MSG on m_MsgQ and set m_hEvent;    *)
(* the update thread wakes up, empties the queue, and disconnects the      *)
(* players silent for dfHEARTBEADT_MAXTIME.  Only the update thread        *)
(* touches the players, the player map and the sectors.  The callbacks     *)
(* come as SessionEvents promises them, which NetSession implements: one   *)
(* join before the packets of a session, one leave after them, and each    *)
(* callback done before the next of that session.                          *)
(***************************************************************************)
EXTENDS Integers, Sequences, FiniteSets

CONSTANTS
    Sessions,   \* session ids; the library never gives one out twice
    Players,    \* the PLAYER objects of m_PlayerPool
    NoPlayer,   \* nullptr
    Packets,    \* what clients send, see PacketTypes
    Max,        \* dfSECTOR_MAX_X and dfSECTOR_MAX_Y, and the 50 of SectorUpdate
    MaxTime,    \* dfHEARTBEADT_MAXTIME, in units of the clock
    Wrap,       \* timeGetTime() counts modulo Wrap (2^32 milliseconds)
    Wraps,      \* whether the server runs until the clock wraps around
    MaxQueue    \* bound: messages on m_MsgQ

\* acc: the account number; pos: the coordinates of a move; ok: the packet is as long as
\* its type (a move) or its own header (the text of a chat) says.
PacketTypes == [kind : {"login", "move", "chat", "heartbeat", "other"},
                acc : Int, pos : Int \X Int, ok : BOOLEAN]

ASSUME PoolIsEnough == /\ IsFiniteSet(Players) /\ NoPlayer \notin Players
                       /\ IsFiniteSet(Sessions) /\ Cardinality(Players) >= Cardinality(Sessions)
ASSUME InputTypes   == Packets \subseteq PacketTypes
ASSUME Bounds       == /\ Max \in Nat \ {0} /\ MaxTime \in Nat
                       /\ Wrap \in Nat \ {0} /\ Wraps \in BOOLEAN /\ MaxQueue \in Nat
                       /\ MaxTime <= Wrap      \* two minutes, and 2^32 milliseconds

Cells   == (0 .. Max - 1) \X (0 .. Max - 1)
Nowhere == <<-1, -1>>                        \* CurrentSector before the first move

VARIABLES
    net,        \* what the library has told of each session: "new", "joined", "gone"
    signal,     \* sessions whose callback is between Enqueue and SetEvent
    queue,      \* m_MsgQ
    event,      \* m_hEvent, an auto-reset event
    pc,         \* where the update thread is
    playerMap,  \* m_PlayerMap, NoPlayer where it has no entry
    used,       \* the objects handed out by m_PlayerPool
    player,     \* the PLAYER objects
    sector,     \* m_Sector: for each cell the pairs <<session, object>>
    kicked,     \* sessions passed to Disconnect
    clock,      \* timeGetTime()
    swept,      \* whether the update thread checked the players since the last tick
    silence,    \* history: ticks, up to Wrap, since a message of a player was handled
    chat        \* history: the chat relayed by the last message, or NoChat

netVars    == <<net, signal>>
playerVars == <<playerMap, used, player, sector>>
timeVars   == <<clock, swept>>
vars       == <<netVars, queue, event, pc, playerVars, kicked, timeVars, silence, chat>>

NoChat == [from |-> Nowhere, to |-> [s \in Sessions |-> 0]]

\* The objects come out of the pool with what their last user left in them; CreatePlayer
\* sets every field the server reads.
Init ==
    /\ net = [s \in Sessions |-> "new"]
    /\ signal = {}
    /\ queue = <<>>
    /\ event = FALSE
    /\ pc = "wait"
    /\ playerMap = [s \in Sessions |-> NoPlayer]
    /\ used = {}
    /\ player = [o \in Players |-> [bLogined |-> FALSE, acc |-> 0, sec |-> Nowhere, recv |-> 0]]
    /\ sector = [c \in Cells |-> {}]
    /\ kicked = {}
    /\ clock = 0
    /\ swept = TRUE
    /\ silence = [s \in Sessions |-> 0]
    /\ chat = NoChat

-----------------------------------------------------------------------------
(* The callbacks, on the threads of the library.                           *)

\* Faulty variant: the newest message is handled first.
EnqueueFront(m) ==
    /\ Len(queue) < MaxQueue
    /\ queue' = <<m>> \o queue

Enqueue(m) ==
    /\ Len(queue) < MaxQueue
    /\ queue' = Append(queue, m)

\* Faulty variant: the event is never set.
CallbackSilent(s, m) ==
    /\ s \notin signal
    /\ Enqueue(m)
    /\ UNCHANGED <<signal, event, pc, playerVars, kicked, timeVars, silence, chat>>

Callback(s, m) ==
    /\ s \notin signal
    /\ Enqueue(m)
    /\ signal' = signal \cup {s}
    /\ UNCHANGED <<event, pc, playerVars, kicked, timeVars, silence, chat>>

OnClientJoin(s) ==
    /\ net[s] = "new"
    /\ Callback(s, [type |-> "connection", sid |-> s])
    /\ net' = [net EXCEPT ![s] = "joined"]

OnRecv(s, p) ==
    /\ net[s] = "joined"
    /\ Callback(s, [type |-> "packet", sid |-> s, packet |-> p])
    /\ UNCHANGED net

\* Faulty variant: the leave of a session that has no player yet is not queued.
OnClientLeaveUnseen(s) ==
    /\ net[s] \in {"new", "joined"}
    /\ IF playerMap[s] = NoPlayer
       THEN s \notin signal /\ UNCHANGED <<signal, queue, event, pc, playerVars, kicked,
                                           timeVars, silence, chat>>
       ELSE Callback(s, [type |-> "disconnection", sid |-> s])
    /\ net' = [net EXCEPT ![s] = "gone"]

\* Also for a session that never joined: its association with the port failed.
OnClientLeave(s) ==
    /\ net[s] \in {"new", "joined"}
    /\ Callback(s, [type |-> "disconnection", sid |-> s])
    /\ net' = [net EXCEPT ![s] = "gone"]

\* The end of each callback.
Signal(s) ==
    /\ s \in signal
    /\ signal' = signal \ {s}
    /\ event' = TRUE
    /\ UNCHANGED <<net, queue, pc, playerVars, kicked, timeVars, silence, chat>>

\* Faulty variant: the monitoring thread does not set the event.
HeartBeatLost ==
    /\ event' = event
    /\ UNCHANGED <<netVars, queue, pc, playerVars, kicked, timeVars, silence, chat>>

\* The monitoring thread, about once a second.
HeartBeat ==
    /\ event' = TRUE
    /\ UNCHANGED <<netVars, queue, pc, playerVars, kicked, timeVars, silence, chat>>

\* Time passes; an update thread with an empty queue looks at the players in every unit.
Tick ==
    /\ swept \/ (pc = "check" /\ queue # <<>>)
    /\ Wraps \/ clock + 1 < Wrap
    /\ clock' = (clock + 1) % Wrap
    /\ swept' = FALSE
    /\ silence' = [s \in Sessions |-> IF playerMap[s] # NoPlayer /\ silence[s] < Wrap
                                      THEN silence[s] + 1 ELSE silence[s]]
    /\ UNCHANGED <<netVars, queue, event, pc, playerVars, kicked, chat>>

-----------------------------------------------------------------------------
(* Packets.  m_AccountNoMap is always empty (its only insert is commented  *)
(* out), so the test for a second login never succeeds.                    *)

\* Disconnect of a session the library still knows.
Disconnect(S) == kicked' = kicked \cup {s \in S : net[s] = "joined"}

\* Faulty variant: one row and one column too many are accepted.
ValidSectorWide(c) == c[1] \in 0 .. Max /\ c[2] \in 0 .. Max

\* A negative short becomes a large WORD.
ValidSector(c) == c[1] \in 0 .. Max - 1 /\ c[2] \in 0 .. Max - 1

SectorUpdate(s, c) ==
    LET o   == playerMap[s]
        old == player[o].sec
    IN  sector' = IF old = c THEN sector
                  ELSE [d \in Cells |->
                          IF d = old THEN {e \in sector[d] : e[1] # s}
                          ELSE IF d = c /\ ~\E e \in sector[d] : e[1] = s
                               THEN sector[d] \cup {<<s, o>>}
                               ELSE sector[d]]

Packet_Proc_REQ_Login(s, p) ==
    /\ p.kind = "login"
    /\ IF playerMap[s] = NoPlayer
       THEN Disconnect({s}) /\ UNCHANGED player
       ELSE /\ player' = [player EXCEPT ![playerMap[s]].bLogined = TRUE,
                                        ![playerMap[s]].acc = p.acc,
                                        ![playerMap[s]].recv = clock]
            /\ UNCHANGED kicked
    /\ chat' = NoChat
    /\ UNCHANGED <<playerMap, used, sector>>

Packet_Proc_REQ_SectorMove(s, p) ==
    LET o        == playerMap[s]
        loggedIn == o # NoPlayer /\ player[o].bLogined
        moves    == loggedIn /\ p.ok /\ p.acc = player[o].acc /\ ValidSector(p.pos)
    IN  /\ p.kind = "move"
        /\ player' = IF loggedIn
                     THEN [player EXCEPT ![o].recv = clock,
                                         ![o].sec = IF moves THEN p.pos ELSE @]
                     ELSE player
        /\ IF moves THEN SectorUpdate(s, p.pos) /\ UNCHANGED kicked
                    ELSE Disconnect({s}) /\ UNCHANGED sector
        /\ chat' = NoChat
        /\ UNCHANGED <<playerMap, used>>

\* Faulty variant: the last row and column around the player are missed.
AroundShort(c) ==
    {d \in {<<c[1] - 1 + i, c[2] - 1 + j>> : i \in 0 .. 1, j \in 0 .. 1} :
        d[1] >= 0 /\ d[1] < Max /\ d[2] >= 0 /\ d[2] < Max}

GetSectorAround(c) ==
    {d \in {<<c[1] - 1 + i, c[2] - 1 + j>> : i \in 0 .. 2, j \in 0 .. 2} :
        d[1] >= 0 /\ d[1] < Max /\ d[2] >= 0 /\ d[2] < Max}

\* How many copies of a message for the cells around c each session is sent.
SendPacket_Around(c) ==
    [s \in Sessions |->
        Cardinality({d \in GetSectorAround(c) : \E e \in sector[d] : e[1] = s})]

\* The test of bDisconnected is left out: nothing sets it.
Packet_Proc_REQ_Chat(s, p) ==
    LET o      == playerMap[s]
        known  == o # NoPlayer /\ p.acc = player[o].acc
        speaks == known /\ player[o].bLogined /\ p.ok
    IN  /\ p.kind = "chat"
        /\ player' = IF known THEN [player EXCEPT ![o].recv = clock] ELSE player
        /\ IF speaks
           THEN /\ chat' = [from |-> player[o].sec, to |-> SendPacket_Around(player[o].sec)]
                /\ UNCHANGED kicked
           ELSE Disconnect({s}) /\ chat' = NoChat
        /\ UNCHANGED <<playerMap, used, sector>>

\* Faulty variant: the time of the last message is left as it was.
HeartbeatIgnored(s, p) ==
    /\ p.kind = "heartbeat"
    /\ chat' = NoChat
    /\ UNCHANGED <<playerVars, kicked>>

Packet_Proc_REQ_HEARTBEAT(s, p) ==
    /\ p.kind = "heartbeat"
    /\ IF playerMap[s] = NoPlayer
       THEN Disconnect({s}) /\ UNCHANGED player
       ELSE player' = [player EXCEPT ![playerMap[s]].recv = clock] /\ UNCHANGED kicked
    /\ chat' = NoChat
    /\ UNCHANGED <<playerMap, used, sector>>

UnknownPacket(s, p) ==
    /\ p.kind = "other"
    /\ Disconnect({s})
    /\ chat' = NoChat
    /\ UNCHANGED playerVars

CompletePacket(s, p) ==
    \/ Packet_Proc_REQ_Login(s, p) \/ Packet_Proc_REQ_SectorMove(s, p)
    \/ Packet_Proc_REQ_Chat(s, p) \/ Packet_Proc_REQ_HEARTBEAT(s, p)
    \/ UnknownPacket(s, p)

-----------------------------------------------------------------------------
(* The update thread.                                                      *)

CreatePlayer(s) ==
    \E o \in Players \ used :
        /\ used' = used \cup {o}
        /\ player' = [player EXCEPT ![o] = [bLogined |-> FALSE, acc |-> 0, sec |-> Nowhere,
                                            recv |-> clock]]
        /\ playerMap' = IF playerMap[s] = NoPlayer THEN [playerMap EXCEPT ![s] = o] ELSE playerMap
        /\ chat' = NoChat
        /\ UNCHANGED <<sector, kicked>>

\* Faulty variant: the player stays in its sector.
DeletePlayerOnly(s) ==
    /\ chat' = NoChat
    /\ IF playerMap[s] = NoPlayer
       THEN UNCHANGED playerVars
       ELSE /\ used' = used \ {playerMap[s]}
            /\ playerMap' = [playerMap EXCEPT ![s] = NoPlayer]
            /\ player' = [player EXCEPT ![playerMap[s]].acc = 0]
            /\ UNCHANGED sector
    /\ UNCHANGED kicked

\* Faulty variant: the object is freed and its entry in the map stays.
DeletePlayerKeepEntry(s) ==
    /\ chat' = NoChat
    /\ IF playerMap[s] = NoPlayer
       THEN UNCHANGED playerVars
       ELSE /\ used' = used \ {playerMap[s]}
            /\ player' = [player EXCEPT ![playerMap[s]].acc = 0]
            /\ sector' = [c \in Cells |-> {e \in sector[c] : c # player[playerMap[s]].sec \/ e[1] # s}]
            /\ UNCHANGED playerMap
    /\ UNCHANGED kicked

DeletePlayer(s) ==
    /\ chat' = NoChat
    /\ IF playerMap[s] = NoPlayer
       THEN UNCHANGED playerVars
       ELSE /\ used' = used \ {playerMap[s]}
            /\ playerMap' = [playerMap EXCEPT ![s] = NoPlayer]
            /\ player' = [player EXCEPT ![playerMap[s]].acc = 0]
            /\ sector' = [c \in Cells |-> {e \in sector[c] : c # player[playerMap[s]].sec \/ e[1] # s}]
    /\ UNCHANGED kicked

CompleteMsg(m) ==
    \/ m.type = "connection" /\ CreatePlayer(m.sid)
    \/ m.type = "packet" /\ CompletePacket(m.sid, m.packet)
    \/ m.type = "disconnection" /\ DeletePlayer(m.sid)

Wake ==
    /\ pc = "wait" /\ event
    /\ event' = FALSE
    /\ pc' = "check"
    /\ UNCHANGED <<netVars, queue, playerVars, kicked, timeVars, silence, chat>>

HandleMsg ==
    /\ pc = "check" /\ queue # <<>>
    /\ queue' = Tail(queue)
    /\ CompleteMsg(Head(queue))
    /\ silence' = [silence EXCEPT ![Head(queue).sid] = 0]
    /\ UNCHANGED <<netVars, event, pc, timeVars>>

QueueEmpty ==
    /\ pc = "check" /\ queue = <<>>
    /\ pc' = "sweep"
    /\ chat' = NoChat
    /\ UNCHANGED <<netVars, queue, event, playerVars, kicked, timeVars, silence>>

\* recvTime has twice the width of the clock, and so has the difference.
Expired(s) ==
    /\ playerMap[s] # NoPlayer
    /\ (clock - player[playerMap[s]].recv) % (Wrap * Wrap) >= MaxTime

Sweep ==
    /\ pc = "sweep"
    /\ Disconnect({s \in Sessions : Expired(s)})
    /\ swept' = TRUE
    /\ pc' = "wait"
    /\ UNCHANGED <<netVars, queue, event, playerVars, clock, silence, chat>>

UpdateThread == Wake \/ HandleMsg \/ QueueEmpty \/ Sweep

-----------------------------------------------------------------------------
Receive(s) == \E p \in Packets : OnRecv(s, p)

Next ==
    \/ \E s \in Sessions :
          OnClientJoin(s) \/ Receive(s) \/ OnClientLeave(s) \/ Signal(s)
    \/ UpdateThread \/ HeartBeat \/ Tick

Spec == Init /\ [][Next]_vars

\* The threads are scheduled, time passes, and the library ends the sessions it is told
\* to disconnect (DeadIsReleased of NetSession).
FairSpec ==
    /\ Spec
    /\ WF_vars(UpdateThread) /\ WF_vars(HeartBeat) /\ WF_vars(Tick)
    /\ \A s \in Sessions : WF_vars(Signal(s)) /\ SF_vars(s \in kicked /\ OnClientLeave(s))

-----------------------------------------------------------------------------
(* Properties.                                                             *)

Messages == [type : {"connection", "disconnection"}, sid : Sessions]
            \cup [type : {"packet"}, sid : Sessions, packet : Packets]

\* Every variable keeps its type; in particular no player is in a sector off the map.
TypeOK ==
    /\ net \in [Sessions -> {"new", "joined", "gone"}]
    /\ signal \subseteq Sessions
    /\ queue \in Seq(Messages)
    /\ event \in BOOLEAN
    /\ pc \in {"wait", "check", "sweep"}
    /\ playerMap \in [Sessions -> Players \cup {NoPlayer}]
    /\ used \subseteq Players
    /\ player \in [Players -> [bLogined : BOOLEAN, acc : {0} \cup {p.acc : p \in Packets},
                               sec : Cells \cup {Nowhere}, recv : 0 .. Wrap - 1]]
    /\ sector \in [Cells -> SUBSET (Sessions \X Players)]
    /\ kicked \subseteq Sessions
    /\ clock \in 0 .. Wrap - 1
    /\ swept \in BOOLEAN
    /\ silence \in [Sessions -> 0 .. Wrap]
    /\ chat \in [from : Cells \cup {Nowhere}, to : [Sessions -> Nat]]

\* A cell of m_Sector holds exactly the players whose CurrentSector it is, under the
\* objects the map has for them, and they have logged in: no entry outlives its player, and
\* no packet puts one there before the login.
SectorsExact ==
    \A c \in Cells :
        /\ sector[c] = {<<s, playerMap[s]>> : s \in {x \in Sessions :
                           playerMap[x] # NoPlayer /\ player[playerMap[x]].sec = c}}
        /\ \A e \in sector[c] : player[e[2]].bLogined

\* Every object out of the pool belongs to one player of the map, and the map holds no
\* object that is back in the pool.
PlayersOwned ==
    /\ used = {playerMap[s] : s \in Sessions} \ {NoPlayer}
    /\ \A s, u \in Sessions : playerMap[s] = playerMap[u] /\ s # u => playerMap[s] = NoPlayer

\* A packet is handled while its session has a player: the null tests never succeed.
PacketHasPlayer ==
    pc = "check" /\ queue # <<>> /\ Head(queue).type = "packet"
        => playerMap[Head(queue).sid] # NoPlayer

\* A chat reaches each player at most one cell away once, and nobody else.
Near(c, d) == c[1] - d[1] \in -1 .. 1 /\ c[2] - d[2] \in -1 .. 1

ChatReachesAround ==
    chat # NoChat => \A s \in Sessions :
        chat.to[s] = IF /\ playerMap[s] # NoPlayer
                        /\ player[playerMap[s]].sec # Nowhere
                        /\ Near(player[playerMap[s]].sec, chat.from)
                     THEN 1 ELSE 0

\* The update thread never sleeps on a message nobody will wake it for: the second's
\* wait for the monitoring thread is never what saves it.
NoLostWakeup ==
    pc = "wait" /\ queue # <<>> => event \/ signal # {}

\* The check of the players disconnects those not heard of for MaxTime and nobody else,
\* unless timeGetTime() has wrapped around since: then a player is cut however soon it was
\* heard of.  Nothing is said of one silent for a whole turn of the clock under a queue that
\* was never empty.
SweepExact ==
    [][pc = "sweep" /\ pc' = "wait" =>
        \A s \in Sessions :
            LET wrapped == player[playerMap[s]].recv > clock
            IN  net[s] = "joined" /\ playerMap[s] # NoPlayer /\ silence[s] < Wrap =>
                    (s \in kicked' <=> s \in kicked \/ silence[s] >= MaxTime \/ wrapped)]_vars

\* A session that is over loses its player, whatever was still on the queue.
GoneIsDeleted ==
    \A s \in Sessions : net[s] = "gone" ~> playerMap[s] = NoPlayer /\ [](playerMap[s] = NoPlayer)

\* Once the clients have fallen silent for good, every player is disconnected and deleted.
SilentAreDropped ==
    <>[][\A s \in Sessions : ~Receive(s)]_vars =>
        \A s \in Sessions : []<>(playerMap[s] = NoPlayer)
=============================================================================
