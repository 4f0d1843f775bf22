--------------------------- MODULE ChatServerProofs ---------------------------
(***************************************************************************)
(* Proofs about ChattingServer, for every number of sessions, packets and  *)
(* cells, every time limit and every width of the clock.                   *)
(***************************************************************************)
EXTENDS ChatServer, FiniteSetTheorems, TLAPS

-----------------------------------------------------------------------------
(* Type correctness.                                                       *)

LEMMA NowhereFacts == Nowhere \notin Cells /\ Max \in Nat /\ Max # 0
  BY Bounds DEF Nowhere, Cells

LEMMA MessageFacts ==
    ASSUME NEW m \in Messages
    PROVE  /\ m.sid \in Sessions
           /\ m.type \in {"connection", "packet", "disconnection"}
           /\ m.type = "packet" => m.packet \in Packets
  BY DEF Messages

LEMMA QueueFacts ==
    ASSUME queue \in Seq(Messages), queue # <<>>
    PROVE  /\ Head(queue) \in Messages
           /\ Head(queue) = queue[1]
           /\ Tail(queue) \in Seq(Messages)
           /\ Len(queue) \in Nat \ {0}
           /\ Len(Tail(queue)) = Len(queue) - 1
           /\ \A i \in 1 .. Len(queue) - 1 : Tail(queue)[i] = queue[i + 1]
  OBVIOUS

Accounts   == {0} \cup {p.acc : p \in Packets}
PlayerType == [bLogined : BOOLEAN, acc : Accounts, sec : Cells \cup {Nowhere}, recv : 0 .. Wrap - 1]
ChatType   == [from : Cells \cup {Nowhere}, to : [Sessions -> Nat]]

\* The part of TypeOK the update thread changes.
WorldType ==
    /\ playerMap \in [Sessions -> Players \cup {NoPlayer}]
    /\ used \subseteq Players
    /\ player \in [Players -> PlayerType]
    /\ sector \in [Cells -> SUBSET (Sessions \X Players)]
    /\ kicked \subseteq Sessions
    /\ chat \in ChatType

OtherType ==
    /\ net \in [Sessions -> {"new", "joined", "gone"}]
    /\ signal \subseteq Sessions
    /\ queue \in Seq(Messages)
    /\ event \in BOOLEAN
    /\ pc \in {"wait", "check", "sweep"}
    /\ clock \in 0 .. Wrap - 1
    /\ swept \in BOOLEAN
    /\ silence \in [Sessions -> 0 .. Wrap]

LEMMA TypeParts == TypeOK <=> WorldType /\ OtherType
  BY DEF TypeOK, WorldType, OtherType, PlayerType, Accounts, ChatType

LEMMA NoChatType == NoChat \in ChatType
  BY DEF NoChat, ChatType

LEMMA InitType == Init => TypeOK
  <1> SUFFICES ASSUME Init PROVE TypeOK
    OBVIOUS
  <1>0. 0 \in 0 .. Wrap - 1 /\ 0 \in 0 .. Wrap
    BY Bounds
  <1>1. OtherType
    <2>1. queue \in Seq(Messages)
      BY DEF Init
    <2> QED
      BY <1>0, <2>1 DEF Init, OtherType
  <1>2. WorldType
    <2>1. player \in [Players -> PlayerType]
      BY Bounds DEF Init, PlayerType, Accounts
    <2> QED
      BY <2>1, NoChatType DEF Init, WorldType
  <1> QED
    BY <1>1, <1>2, TypeParts

\* The cells around a position are cells of the map.
LEMMA AroundCells ==
    ASSUME NEW c \in Cells \cup {Nowhere}
    PROVE  GetSectorAround(c) \subseteq Cells
  <1> SUFFICES ASSUME NEW d \in GetSectorAround(c) PROVE d \in Cells
    OBVIOUS
  <1>1. c[1] \in Int /\ c[2] \in Int
    BY Bounds DEF Cells, Nowhere
  <1>2. PICK i \in 0 .. 2, j \in 0 .. 2 : d = <<c[1] - 1 + i, c[2] - 1 + j>>
    BY DEF GetSectorAround
  <1>3. d[1] >= 0 /\ d[1] < Max /\ d[2] >= 0 /\ d[2] < Max
    BY DEF GetSectorAround
  <1>4. d[1] \in Int /\ d[2] \in Int /\ d = <<d[1], d[2]>>
    BY <1>1, <1>2
  <1>5. d[1] \in 0 .. Max - 1 /\ d[2] \in 0 .. Max - 1
    BY <1>3, <1>4, NowhereFacts
  <1> QED
    BY <1>4, <1>5 DEF Cells

\* There are finitely many cells, so the copies a chat makes can be counted.
LEMMA CellsFinite == IsFiniteSet(Cells)
  <1>1. IsFiniteSet(0 .. Max - 1)
    BY FS_Interval, NowhereFacts
  <1> QED
    BY <1>1, FS_Product DEF Cells

LEMMA AroundType ==
    ASSUME NEW c \in Cells \cup {Nowhere}
    PROVE  SendPacket_Around(c) \in [Sessions -> Nat]
  <1> SUFFICES ASSUME NEW s \in Sessions
               PROVE  Cardinality({d \in GetSectorAround(c) : \E e \in sector[d] : e[1] = s}) \in Nat
    BY DEF SendPacket_Around
  <1> DEFINE D == {d \in GetSectorAround(c) : \E e \in sector[d] : e[1] = s}
  <1>1. D \subseteq Cells
    BY AroundCells
  <1>2. IsFiniteSet(D)
    BY <1>1, CellsFinite, FS_Subset
  <1> QED
    BY <1>2, FS_CardinalityType

-----------------------------------------------------------------------------
(* What the handlers do to the players.                                    *)

\* A packet of session s changes no player but its own, takes no login back, and leaves the
\* player heard of now or the session told to disconnect.
PacketEffect(s) ==
    /\ playerMap' = playerMap /\ used' = used
    /\ player' \in [Players -> PlayerType]
    /\ kicked' \subseteq Sessions /\ kicked \subseteq kicked'
    /\ \A x \in Players : x # playerMap[s] => player'[x] = player[x]
    /\ \A x \in Players : player[x].bLogined => player'[x].bLogined
    /\ net[s] = "joined" /\ playerMap[s] # NoPlayer
          => s \in kicked' \/ player'[playerMap[s]].recv = clock

\* Every packet but a move leaves the players where they are.
StayEffect ==
    /\ sector' = sector
    /\ \A x \in Players : player'[x].sec = player[x].sec

\* Disconnect adds those of S the library still knows.
LEMMA DisconnectEffect ==
    ASSUME NEW S, S \subseteq Sessions, kicked \subseteq Sessions, Disconnect(S)
    PROVE  /\ kicked' \subseteq Sessions /\ kicked \subseteq kicked'
           /\ \A x \in Sessions : x \in kicked' <=> x \in kicked \/ (x \in S /\ net[x] = "joined")
  <1>1. kicked' = kicked \cup {x \in S : net[x] = "joined"}
    BY DEF Disconnect
  <1> QED
    BY <1>1

LEMMA PacketFacts ==
    ASSUME NEW p \in Packets
    PROVE  p.acc \in Accounts /\ p.ok \in BOOLEAN /\ p.pos \in Int \X Int
  BY InputTypes DEF Accounts, PacketTypes

\* The fields of the object a session has.
LEMMA OwnObject ==
    ASSUME WorldType, OtherType, NEW s \in Sessions, playerMap[s] # NoPlayer
    PROVE  /\ playerMap[s] \in Players
           /\ player[playerMap[s]] \in PlayerType
           /\ player[playerMap[s]].sec \in Cells \cup {Nowhere}
           /\ player[playerMap[s]].bLogined \in BOOLEAN
           /\ clock \in 0 .. Wrap - 1
  BY DEF WorldType, OtherType, PlayerType

LEMMA LoginEffect ==
    ASSUME WorldType, OtherType, NEW s \in Sessions, NEW p \in Packets, Packet_Proc_REQ_Login(s, p)
    PROVE  PacketEffect(s) /\ StayEffect /\ chat' = NoChat
  <1>1. CASE playerMap[s] = NoPlayer
    <2>1. kicked' \subseteq Sessions /\ kicked \subseteq kicked'
      BY <1>1, DisconnectEffect DEF Packet_Proc_REQ_Login, WorldType
    <2> QED
      BY <1>1, <2>1 DEF Packet_Proc_REQ_Login, WorldType, PacketEffect, StayEffect
  <1>2. CASE playerMap[s] # NoPlayer
    <2> DEFINE o == playerMap[s]
    <2>1. o \in Players /\ clock \in 0 .. Wrap - 1 /\ p.acc \in Accounts
      BY <1>2, OwnObject, PacketFacts
    <2>2. player' = [player EXCEPT ![o].bLogined = TRUE, ![o].acc = p.acc, ![o].recv = clock]
      BY <1>2 DEF Packet_Proc_REQ_Login
    <2>3. player \in [Players -> PlayerType]
      BY DEF WorldType
    <2> HIDE DEF o
    <2>4. player' \in [Players -> PlayerType]
      BY ZenonT(30), <2>1, <2>2, <2>3 DEF PlayerType
    <2>5. \A x \in Players :
             /\ x # o => player'[x] = player[x]
             /\ player[x].bLogined => player'[x].bLogined
             /\ player'[x].sec = player[x].sec
      BY <2>1, <2>2, <2>3 DEF PlayerType
    <2>6. player'[o].recv = clock
      BY <2>1, <2>2, <2>3 DEF PlayerType
    <2> QED
      BY <1>2, <2>4, <2>5, <2>6 DEF o, Packet_Proc_REQ_Login, WorldType, PacketEffect, StayEffect
  <1> QED
    BY <1>1, <1>2

LEMMA HeartbeatEffect ==
    ASSUME WorldType, OtherType, NEW s \in Sessions, NEW p \in Packets,
           Packet_Proc_REQ_HEARTBEAT(s, p)
    PROVE  PacketEffect(s) /\ StayEffect /\ chat' = NoChat
  <1>1. CASE playerMap[s] = NoPlayer
    <2>1. kicked' \subseteq Sessions /\ kicked \subseteq kicked'
      BY <1>1, DisconnectEffect DEF Packet_Proc_REQ_HEARTBEAT, WorldType
    <2> QED
      BY <1>1, <2>1 DEF Packet_Proc_REQ_HEARTBEAT, WorldType, PacketEffect, StayEffect
  <1>2. CASE playerMap[s] # NoPlayer
    <2> DEFINE o == playerMap[s]
    <2>1. o \in Players /\ clock \in 0 .. Wrap - 1
      BY <1>2, OwnObject
    <2>2. player' = [player EXCEPT ![o].recv = clock]
      BY <1>2 DEF Packet_Proc_REQ_HEARTBEAT
    <2>3. player \in [Players -> PlayerType]
      BY DEF WorldType
    <2> HIDE DEF o
    <2>4. player' \in [Players -> PlayerType]
      BY <2>1, <2>2, <2>3 DEF PlayerType
    <2>5. \A x \in Players :
             /\ x # o => player'[x] = player[x]
             /\ player[x].bLogined => player'[x].bLogined
             /\ player'[x].sec = player[x].sec
      BY <2>1, <2>2, <2>3 DEF PlayerType
    <2>6. player'[o].recv = clock
      BY <2>1, <2>2, <2>3 DEF PlayerType
    <2> QED
      BY <1>2, <2>4, <2>5, <2>6 DEF o, Packet_Proc_REQ_HEARTBEAT, WorldType, PacketEffect, StayEffect
  <1> QED
    BY <1>1, <1>2

LEMMA UnknownEffect ==
    ASSUME WorldType, OtherType, NEW s \in Sessions, NEW p \in Packets, UnknownPacket(s, p)
    PROVE  PacketEffect(s) /\ StayEffect /\ chat' = NoChat
  <1>1. /\ kicked' \subseteq Sessions /\ kicked \subseteq kicked'
        /\ net[s] = "joined" => s \in kicked'
    BY DisconnectEffect DEF UnknownPacket, WorldType
  <1>2. playerMap' = playerMap /\ used' = used /\ player' = player /\ sector' = sector
    BY DEF UnknownPacket, playerVars
  <1> QED
    BY <1>1, <1>2 DEF UnknownPacket, WorldType, PacketEffect, StayEffect

\* A chat is relayed from where the speaker is, or nothing is.
ChatEffect(s) ==
    \/ chat' = NoChat
    \/ /\ playerMap[s] # NoPlayer
       /\ chat' = [from |-> player[playerMap[s]].sec,
                   to   |-> SendPacket_Around(player[playerMap[s]].sec)]

LEMMA ChatPacketEffect ==
    ASSUME WorldType, OtherType, NEW s \in Sessions, NEW p \in Packets,
           Packet_Proc_REQ_Chat(s, p)
    PROVE  PacketEffect(s) /\ StayEffect /\ ChatEffect(s)
  <1> DEFINE o == playerMap[s]
             known == o # NoPlayer /\ p.acc = player[o].acc
             speaks == known /\ player[o].bLogined /\ p.ok
  <1>1. /\ player' = IF known THEN [player EXCEPT ![o].recv = clock] ELSE player
        /\ playerMap' = playerMap /\ used' = used /\ sector' = sector
    BY DEF Packet_Proc_REQ_Chat
  <1>2. \/ /\ speaks /\ kicked' = kicked
           /\ chat' = [from |-> player[o].sec, to |-> SendPacket_Around(player[o].sec)]
        \/ ~speaks /\ Disconnect({s}) /\ chat' = NoChat
    BY DEF Packet_Proc_REQ_Chat
  <1>3. player \in [Players -> PlayerType] /\ kicked \subseteq Sessions
    BY DEF WorldType
  <1>4. /\ kicked' \subseteq Sessions /\ kicked \subseteq kicked'
        /\ ~speaks /\ net[s] = "joined" => s \in kicked'
    <2>1. CASE speaks
      BY <1>2, <1>3, <2>1
    <2>2. CASE ~speaks
      BY <1>2, <1>3, <2>2, DisconnectEffect
    <2> QED
      BY <2>1, <2>2
  <1>5. CASE ~known
    BY <1>1, <1>2, <1>3, <1>4, <1>5 DEF PacketEffect, StayEffect, ChatEffect
  <1>6. CASE known
    <2>1. o \in Players /\ clock \in 0 .. Wrap - 1
      BY <1>6, OwnObject
    <2>2. player' = [player EXCEPT ![o].recv = clock]
      BY <1>1, <1>6
    <2>3. ChatEffect(s)
      BY <1>2, <1>6 DEF ChatEffect
    <2>4. o = playerMap[s]
      OBVIOUS
    <2> HIDE DEF o, known, speaks
    <2>5. player' \in [Players -> PlayerType]
      BY <2>1, <2>2, <1>3 DEF PlayerType
    <2>6. \A x \in Players :
             /\ x # o => player'[x] = player[x]
             /\ player[x].bLogined => player'[x].bLogined
             /\ player'[x].sec = player[x].sec
      BY <2>1, <2>2, <1>3 DEF PlayerType
    <2>7. player'[o].recv = clock
      BY <2>1, <2>2, <1>3 DEF PlayerType
    <2> QED
      BY <1>1, <1>4, <2>3, <2>4, <2>5, <2>6, <2>7 DEF PacketEffect, StayEffect
  <1> QED
    BY <1>5, <1>6

\* A move that is accepted is that of a player logged in, to a cell of the map.
MoveEffect(s) ==
    \E c \in Cells :
        /\ playerMap[s] # NoPlayer /\ player[playerMap[s]].bLogined
        /\ SectorUpdate(s, c)
        /\ \A x \in Players : player'[x].sec = IF x = playerMap[s] THEN c ELSE player[x].sec

LEMMA MovePacketEffect ==
    ASSUME WorldType, OtherType, NEW s \in Sessions, NEW p \in Packets,
           Packet_Proc_REQ_SectorMove(s, p)
    PROVE  PacketEffect(s) /\ chat' = NoChat /\ (StayEffect \/ MoveEffect(s))
  <1> DEFINE o == playerMap[s]
             loggedIn == o # NoPlayer /\ player[o].bLogined
             moves == loggedIn /\ p.ok /\ p.acc = player[o].acc /\ ValidSector(p.pos)
  <1>1. /\ player' = IF loggedIn THEN [player EXCEPT ![o].recv = clock,
                                                     ![o].sec = IF moves THEN p.pos ELSE @]
                     ELSE player
        /\ playerMap' = playerMap /\ used' = used /\ chat' = NoChat
    BY DEF Packet_Proc_REQ_SectorMove
  <1>2. IF moves THEN SectorUpdate(s, p.pos) /\ kicked' = kicked
                 ELSE Disconnect({s}) /\ sector' = sector
    BY DEF Packet_Proc_REQ_SectorMove
  <1>3. player \in [Players -> PlayerType] /\ kicked \subseteq Sessions
    BY DEF WorldType
  <1>4. /\ kicked' \subseteq Sessions /\ kicked \subseteq kicked'
        /\ ~moves /\ net[s] = "joined" => s \in kicked'
    <2>1. CASE moves
      BY <1>2, <1>3, <2>1
    <2>2. CASE ~moves
      BY <1>2, <1>3, <2>2, DisconnectEffect
    <2> QED
      BY <2>1, <2>2
  <1>5. moves => p.pos \in Cells
    BY PacketFacts DEF ValidSector, Cells
  <1>6. CASE ~loggedIn
    BY <1>1, <1>2, <1>3, <1>4, <1>6 DEF PacketEffect, StayEffect
  <1>7. CASE loggedIn
    <2> DEFINE c == IF moves THEN p.pos ELSE player[o].sec
    <2>1. o \in Players /\ clock \in 0 .. Wrap - 1 /\ c \in Cells \cup {Nowhere}
      BY <1>5, <1>7, OwnObject
    <2>2. player' = [player EXCEPT ![o].recv = clock, ![o].sec = c]
      BY <1>1, <1>3, <1>7, <2>1 DEF PlayerType
    <2>3. o = playerMap[s]
      OBVIOUS
    <2>4. moves => c = p.pos
      OBVIOUS
    <2>5. ~moves => c = player[o].sec
      OBVIOUS
    <2>6. loggedIn => o # NoPlayer /\ player[o].bLogined
      OBVIOUS
    <2> HIDE DEF o, loggedIn, moves, c
    <2>7. player' \in [Players -> PlayerType]
      BY <2>1, <2>2, <1>3 DEF PlayerType
    <2>8. \A x \in Players :
             /\ x # o => player'[x] = player[x]
             /\ player[x].bLogined => player'[x].bLogined
             /\ player'[x].sec = IF x = o THEN c ELSE player[x].sec
      BY <2>1, <2>2, <1>3 DEF PlayerType
    <2>9. player'[o].recv = clock
      BY <2>1, <2>2, <1>3 DEF PlayerType
    <2>10. PacketEffect(s)
      BY <1>1, <1>4, <2>3, <2>7, <2>8, <2>9 DEF PacketEffect
    <2>11. moves => MoveEffect(s)
      BY <1>2, <1>5, <1>7, <2>3, <2>4, <2>6, <2>8 DEF MoveEffect
    <2>12. ~moves => StayEffect
      BY <1>2, <2>5, <2>8 DEF StayEffect
    <2> QED
      BY <1>1, <2>10, <2>11, <2>12
  <1> QED
    BY <1>6, <1>7

\* The effect of any packet.
LEMMA CompletePacketEffect ==
    ASSUME WorldType, OtherType, NEW s \in Sessions, NEW p \in Packets, CompletePacket(s, p)
    PROVE  /\ PacketEffect(s)
           /\ \/ StayEffect /\ ChatEffect(s)
              \/ MoveEffect(s) /\ chat' = NoChat
  BY LoginEffect, HeartbeatEffect, UnknownEffect, ChatPacketEffect, MovePacketEffect
     DEF CompletePacket, ChatEffect

LEMMA CreateEffect ==
    ASSUME WorldType, OtherType, NEW s \in Sessions, CreatePlayer(s)
    PROVE  \E o \in Players \ used :
              /\ used' = used \cup {o}
              /\ player' \in [Players -> PlayerType]
              /\ player'[o].sec = Nowhere /\ player'[o].recv = clock
              /\ \A x \in Players : x # o => player'[x] = player[x]
              /\ playerMap' = IF playerMap[s] = NoPlayer THEN [playerMap EXCEPT ![s] = o]
                              ELSE playerMap
              /\ chat' = NoChat /\ sector' = sector /\ kicked' = kicked
  <1>1. PICK o \in Players \ used :
           /\ used' = used \cup {o}
           /\ player' = [player EXCEPT ![o] = [bLogined |-> FALSE, acc |-> 0, sec |-> Nowhere,
                                               recv |-> clock]]
           /\ playerMap' = IF playerMap[s] = NoPlayer THEN [playerMap EXCEPT ![s] = o] ELSE playerMap
           /\ chat' = NoChat
           /\ UNCHANGED <<sector, kicked>>
    BY DEF CreatePlayer
  <1>2. player \in [Players -> PlayerType] /\ clock \in 0 .. Wrap - 1
    BY DEF WorldType, OtherType
  <1>3. [bLogined |-> FALSE, acc |-> 0, sec |-> Nowhere, recv |-> clock] \in PlayerType
    BY <1>2 DEF PlayerType, Accounts
  <1>4. /\ player' \in [Players -> PlayerType]
        /\ player'[o].sec = Nowhere /\ player'[o].recv = clock
        /\ \A x \in Players : x # o => player'[x] = player[x]
    BY <1>1, <1>2, <1>3
  <1> QED
    BY <1>1, <1>4

LEMMA DeleteEffect ==
    ASSUME WorldType, OtherType, NEW s \in Sessions, DeletePlayer(s), playerMap[s] # NoPlayer
    PROVE  /\ used' = used \ {playerMap[s]}
           /\ playerMap' = [playerMap EXCEPT ![s] = NoPlayer]
           /\ player' \in [Players -> PlayerType]
           /\ \A x \in Players : /\ player'[x].sec = player[x].sec
                                 /\ player'[x].recv = player[x].recv
                                 /\ player'[x].bLogined = player[x].bLogined
           /\ sector' = [c \in Cells |->
                            {e \in sector[c] : c # player[playerMap[s]].sec \/ e[1] # s}]
           /\ chat' = NoChat /\ kicked' = kicked
  <1> DEFINE o == playerMap[s]
  <1>1. /\ player' = [player EXCEPT ![o].acc = 0]
        /\ player \in [Players -> PlayerType]
    BY DEF DeletePlayer, WorldType
  <1>2. o \in Players /\ 0 \in Accounts
    BY OwnObject DEF Accounts
  <1>3. /\ player' \in [Players -> PlayerType]
        /\ \A x \in Players : /\ player'[x].sec = player[x].sec
                              /\ player'[x].recv = player[x].recv
                              /\ player'[x].bLogined = player[x].bLogined
    <2> HIDE DEF o
    <2> QED
      BY <1>1, <1>2 DEF PlayerType
  <1> QED
    BY <1>3 DEF DeletePlayer

\* A move keeps the shape of the sectors.
LEMMA SectorUpdateType ==
    ASSUME WorldType, OtherType, NEW s \in Sessions, NEW c \in Cells, playerMap[s] # NoPlayer,
           SectorUpdate(s, c)
    PROVE  sector' \in [Cells -> SUBSET (Sessions \X Players)]
  <1>1. sector \in [Cells -> SUBSET (Sessions \X Players)] /\ playerMap[s] \in Players
    BY OwnObject DEF WorldType
  <1>2. CASE player[playerMap[s]].sec = c
    BY <1>1, <1>2 DEF SectorUpdate
  <1>3. CASE player[playerMap[s]].sec # c
    <2>1. \A d \in Cells : /\ {e \in sector[d] : e[1] # s} \subseteq Sessions \X Players
                           /\ sector[d] \cup {<<s, playerMap[s]>>} \subseteq Sessions \X Players
                           /\ sector[d] \subseteq Sessions \X Players
      BY <1>1
    <2>2. sector' = [d \in Cells |->
                       IF d = player[playerMap[s]].sec THEN {e \in sector[d] : e[1] # s}
                       ELSE IF d = c /\ ~\E e \in sector[d] : e[1] = s
                            THEN sector[d] \cup {<<s, playerMap[s]>>}
                            ELSE sector[d]]
      BY <1>3 DEF SectorUpdate
    <2> QED
      BY <2>1, <2>2
  <1> QED
    BY <1>2, <1>3

LEMMA ChatEffectType ==
    ASSUME WorldType, OtherType, NEW s \in Sessions, ChatEffect(s)
    PROVE  chat' \in ChatType
  <1>1. CASE chat' = NoChat
    BY <1>1, NoChatType
  <1>2. CASE chat' # NoChat
    <2>1. player[playerMap[s]].sec \in Cells \cup {Nowhere}
      BY <1>2, OwnObject DEF ChatEffect
    <2>2. SendPacket_Around(player[playerMap[s]].sec) \in [Sessions -> Nat]
      BY <2>1, AroundType
    <2> QED
      BY <1>2, <2>1, <2>2 DEF ChatEffect, ChatType
  <1> QED
    BY <1>1, <1>2

LEMMA MsgType ==
    ASSUME WorldType, OtherType, NEW m \in Messages, CompleteMsg(m)
    PROVE  WorldType'
  <1> DEFINE s == m.sid
  <1>0. s \in Sessions
    BY MessageFacts
  <1>1. CASE CreatePlayer(s)
    <2>1. PICK o \in Players \ used :
              /\ used' = used \cup {o}
              /\ player' \in [Players -> PlayerType]
              /\ playerMap' = IF playerMap[s] = NoPlayer THEN [playerMap EXCEPT ![s] = o]
                              ELSE playerMap
              /\ chat' = NoChat /\ sector' = sector /\ kicked' = kicked
      BY <1>0, <1>1, CreateEffect
    <2> QED
      BY <1>0, <2>1, NoChatType DEF WorldType
  <1>2. CASE m.type = "packet" /\ CompletePacket(s, m.packet)
    <2>1. m.packet \in Packets
      BY <1>2, MessageFacts
    <2>2. /\ PacketEffect(s)
          /\ \/ StayEffect /\ ChatEffect(s)
             \/ MoveEffect(s) /\ chat' = NoChat
      BY <1>0, <1>2, <2>1, CompletePacketEffect
    <2>3. CASE StayEffect /\ ChatEffect(s)
      <3>1. chat' \in ChatType
        BY <1>0, <2>3, ChatEffectType
      <3> QED
        BY <2>2, <2>3, <3>1 DEF WorldType, PacketEffect, StayEffect
    <2>4. CASE MoveEffect(s) /\ chat' = NoChat
      <3>1. sector' \in [Cells -> SUBSET (Sessions \X Players)]
        BY <1>0, <2>4, SectorUpdateType DEF MoveEffect
      <3> QED
        BY <2>2, <2>4, <3>1, NoChatType DEF WorldType, PacketEffect
    <2> QED
      BY <2>2, <2>3, <2>4
  <1>3. CASE DeletePlayer(s)
    <2>1. CASE playerMap[s] = NoPlayer
      BY <1>3, <2>1, NoChatType DEF DeletePlayer, playerVars, WorldType
    <2>2. CASE playerMap[s] # NoPlayer
      <3>1. /\ used' = used \ {playerMap[s]}
            /\ playerMap' = [playerMap EXCEPT ![s] = NoPlayer]
            /\ player' \in [Players -> PlayerType]
            /\ sector' = [c \in Cells |->
                            {e \in sector[c] : c # player[playerMap[s]].sec \/ e[1] # s}]
            /\ chat' = NoChat /\ kicked' = kicked
        BY <1>0, <1>3, <2>2, DeleteEffect
      <3>2. sector' \in [Cells -> SUBSET (Sessions \X Players)]
        BY <3>1 DEF WorldType
      <3> QED
        BY <1>0, <3>1, <3>2, NoChatType DEF WorldType
    <2> QED
      BY <2>1, <2>2
  <1> QED
    BY <1>1, <1>2, <1>3 DEF CompleteMsg

\* Only HandleMsg changes the players, the sectors and the chat; only it and Sweep have
\* sessions disconnected.
LEMMA WorldStays ==
    ASSUME [Next]_vars, ~HandleMsg
    PROVE  /\ UNCHANGED playerVars
           /\ chat' = chat \/ chat' = NoChat
           /\ Sweep \/ kicked' = kicked
  <1> USE DEF vars, netVars, playerVars, timeVars
  <1>1. CASE UNCHANGED vars
    BY <1>1
  <1>2. ASSUME NEW s \in Sessions, OnClientJoin(s) \/ Receive(s) \/ OnClientLeave(s) \/ Signal(s)
        PROVE  /\ UNCHANGED playerVars
               /\ chat' = chat /\ kicked' = kicked
    BY <1>2 DEF OnClientJoin, Receive, OnRecv, OnClientLeave, Signal, Callback
  <1>3. CASE UpdateThread \/ HeartBeat \/ Tick
    BY <1>3 DEF UpdateThread, Wake, QueueEmpty, Sweep, HeartBeat, Tick
  <1> QED
    BY <1>1, <1>2, <1>3 DEF Next

LEMMA EnqueueType ==
    ASSUME queue \in Seq(Messages), NEW m \in Messages, Enqueue(m)
    PROVE  queue' \in Seq(Messages)
  BY DEF Enqueue

LEMMA CallbackMessages ==
    ASSUME NEW s \in Sessions
    PROVE  /\ [type |-> "connection", sid |-> s] \in Messages
           /\ [type |-> "disconnection", sid |-> s] \in Messages
           /\ \A p \in Packets : [type |-> "packet", sid |-> s, packet |-> p] \in Messages
  BY DEF Messages

LEMMA OtherTypeStep == ASSUME TypeOK, [Next]_vars PROVE OtherType'
  <1> USE DEF vars, netVars, timeVars
  <1>0. OtherType /\ WorldType
    BY TypeParts
  <1>1. CASE UNCHANGED vars
    BY <1>0, <1>1 DEF OtherType
  <1>2. ASSUME NEW s \in Sessions, OnClientJoin(s) \/ Receive(s) \/ OnClientLeave(s)
        PROVE  OtherType'
    <2>1. queue' \in Seq(Messages)
      BY <1>0, <1>2, EnqueueType, CallbackMessages
         DEF OnClientJoin, Receive, OnRecv, OnClientLeave, Callback, OtherType
    <2>2. /\ net' \in [Sessions -> {"new", "joined", "gone"}]
          /\ signal' \subseteq Sessions
          /\ UNCHANGED <<event, pc, clock, swept, silence>>
      BY <1>0, <1>2 DEF OnClientJoin, Receive, OnRecv, OnClientLeave, Callback, OtherType
    <2> QED
      BY <1>0, <2>1, <2>2 DEF OtherType
  <1>3. ASSUME NEW s \in Sessions, Signal(s) PROVE OtherType'
    BY <1>0, <1>3 DEF Signal, OtherType
  <1>4. CASE HandleMsg
    <2>1. Head(queue) \in Messages /\ Tail(queue) \in Seq(Messages)
      BY <1>0, <1>4, QueueFacts DEF HandleMsg, OtherType
    <2>2. Head(queue).sid \in Sessions /\ 0 \in 0 .. Wrap
      BY <2>1, MessageFacts, Bounds
    <2>3. silence' \in [Sessions -> 0 .. Wrap]
      BY <1>0, <1>4, <2>2 DEF HandleMsg, OtherType
    <2> QED
      BY <1>0, <1>4, <2>1, <2>3 DEF HandleMsg, OtherType
  <1>5. CASE Tick
    <2>1. clock' \in 0 .. Wrap - 1
      <3>1. clock + 1 \in Nat /\ Wrap \in Nat /\ Wrap > 0
        BY <1>0, Bounds DEF OtherType
      <3>2. clock' = (clock + 1) % Wrap
        BY <1>5 DEF Tick
      <3> QED
        BY <3>1, <3>2
    <2>2. silence' \in [Sessions -> 0 .. Wrap]
      BY <1>0, <1>5, Bounds DEF Tick, OtherType
    <2> QED
      BY <1>0, <1>5, <2>1, <2>2 DEF Tick, OtherType
  <1>6. CASE Wake \/ QueueEmpty \/ Sweep \/ HeartBeat
    BY <1>0, <1>6 DEF Wake, QueueEmpty, Sweep, HeartBeat, OtherType
  <1> QED
    BY <1>1, <1>2, <1>3, <1>4, <1>5, <1>6 DEF Next, UpdateThread

LEMMA WorldTypeStep == ASSUME TypeOK, [Next]_vars PROVE WorldType'
  <1>0. OtherType /\ WorldType
    BY TypeParts
  <1>1. CASE HandleMsg
    <2>1. Head(queue) \in Messages /\ CompleteMsg(Head(queue))
      BY <1>0, <1>1, QueueFacts DEF HandleMsg, OtherType
    <2> QED
      BY <1>0, <2>1, MsgType
  <1>2. CASE ~HandleMsg
    <2>1. kicked' \subseteq Sessions
      <3>1. CASE Sweep
        BY <1>0, <3>1, DisconnectEffect DEF Sweep, WorldType
      <3> QED
        BY <1>0, <1>2, <3>1, WorldStays DEF WorldType
    <2> QED
      BY <1>0, <1>2, <2>1, WorldStays, NoChatType DEF WorldType, playerVars
  <1> QED
    BY <1>1, <1>2

LEMMA TypeStep == TypeOK /\ [Next]_vars => TypeOK'
  <1> SUFFICES ASSUME TypeOK, [Next]_vars PROVE TypeOK'
    OBVIOUS
  <1>1. (WorldType /\ OtherType)' => TypeOK'
    BY DEF TypeOK, WorldType, OtherType, PlayerType, Accounts, ChatType
  <1> QED
    BY <1>1, OtherTypeStep, WorldTypeStep

\* Every variable keeps its type, whatever the clients send and however the threads
\* interleave: no session id, object or cell the server uses is out of range.
THEOREM Typing == Spec => []TypeOK
  BY InitType, TypeStep, PTL DEF Spec

-----------------------------------------------------------------------------
(* The order of a session's messages on m_MsgQ.                            *)

Joins(j, s) == queue[j].type = "connection" /\ queue[j].sid = s

\* A connection is the first message of its session and finds no player, a disconnection is
\* the last one, and what is between meets a player or comes after the connection.
QueueOrder ==
    \A i \in 1 .. Len(queue) :
        /\ net[queue[i].sid] # "new"
        /\ queue[i].type = "connection" =>
              /\ playerMap[queue[i].sid] = NoPlayer
              /\ \A j \in 1 .. i - 1 : queue[j].sid # queue[i].sid
        /\ queue[i].type = "disconnection" =>
              /\ net[queue[i].sid] = "gone"
              /\ \A j \in i + 1 .. Len(queue) : queue[j].sid # queue[i].sid
        /\ queue[i].type = "packet" =>
              playerMap[queue[i].sid] # NoPlayer \/ \E j \in 1 .. i - 1 : Joins(j, queue[i].sid)

\* A session the library knows has a player or will get one.
JoinedGetPlayer ==
    \A s \in Sessions :
        /\ net[s] = "new" => playerMap[s] = NoPlayer
        /\ net[s] = "joined" =>
              playerMap[s] # NoPlayer \/ \E j \in 1 .. Len(queue) : Joins(j, s)

OrderInv == QueueOrder /\ JoinedGetPlayer

LEMMA InitOrder == Init => OrderInv
  BY DEF Init, OrderInv, QueueOrder, JoinedGetPlayer

LEMMA AppendFacts ==
    ASSUME queue \in Seq(Messages), NEW m \in Messages, Enqueue(m)
    PROVE  /\ Len(queue) \in Nat
           /\ Len(queue') = Len(queue) + 1
           /\ \A i \in 1 .. Len(queue) : queue'[i] = queue[i]
           /\ queue'[Len(queue) + 1] = m
  BY DEF Enqueue

\* The sid of every queued message is a session.
LEMMA QueuedFacts ==
    ASSUME queue \in Seq(Messages), NEW i \in 1 .. Len(queue)
    PROVE  /\ queue[i].sid \in Sessions
           /\ queue[i].type \in {"connection", "packet", "disconnection"}
  <1>1. queue[i] \in Messages
    OBVIOUS
  <1> QED
    BY <1>1, MessageFacts

\* A message put at the end keeps the order if it is one its session may now send.
LEMMA AppendOrder ==
    ASSUME TypeOK, QueueOrder, NEW m \in Messages, Enqueue(m), playerMap' = playerMap,
           \A x \in Sessions : /\ net[x] # "new" => net'[x] # "new"
                               /\ net[x] = "gone" => net'[x] = "gone",
           net'[m.sid] # "new",
           \A i \in 1 .. Len(queue) :
               queue[i].sid = m.sid => queue[i].type # "disconnection" /\ m.type # "connection",
           m.type = "connection" => playerMap[m.sid] = NoPlayer,
           m.type = "disconnection" => net'[m.sid] = "gone",
           m.type = "packet" => \/ playerMap[m.sid] # NoPlayer
                                \/ \E j \in 1 .. Len(queue) : Joins(j, m.sid)
    PROVE  QueueOrder'
  <1> DEFINE n == Len(queue)
  <1>1. /\ queue \in Seq(Messages) /\ n \in Nat /\ Len(queue') = n + 1
        /\ \A i \in 1 .. n : queue'[i] = queue[i]
        /\ queue'[n + 1] = m
    BY AppendFacts DEF TypeOK
  <1>2. \A i \in 1 .. n : queue[i].sid \in Sessions
    BY <1>1, QueuedFacts
  <1>3. ASSUME NEW i \in 1 .. n + 1
        PROVE  net'[queue'[i].sid] # "new"
    BY <1>1, <1>2 DEF QueueOrder
  <1>4. ASSUME NEW i \in 1 .. n + 1, queue'[i].type = "connection"
        PROVE  /\ playerMap'[queue'[i].sid] = NoPlayer
               /\ \A j \in 1 .. i - 1 : queue'[j].sid # queue'[i].sid
    <2>1. CASE i = n + 1
      BY <1>1, <1>4, <2>1
    <2>2. CASE i \in 1 .. n
      BY <1>1, <1>4, <2>2 DEF QueueOrder
    <2> QED
      BY <1>1, <2>1, <2>2
  <1>5. ASSUME NEW i \in 1 .. n + 1, queue'[i].type = "disconnection"
        PROVE  /\ net'[queue'[i].sid] = "gone"
               /\ \A j \in i + 1 .. n + 1 : queue'[j].sid # queue'[i].sid
    <2>1. CASE i = n + 1
      BY <1>1, <1>5, <2>1
    <2>2. CASE i \in 1 .. n
      <3>1. queue'[i] = queue[i] /\ queue[i].type = "disconnection"
        BY <1>1, <1>5, <2>2
      <3>2. net[queue[i].sid] = "gone" /\ \A j \in i + 1 .. n : queue[j].sid # queue[i].sid
        BY <2>2, <3>1 DEF QueueOrder
      <3>3. queue[i].sid # m.sid
        BY <2>2, <3>1
      <3>4. ASSUME NEW j \in i + 1 .. n + 1 PROVE queue'[j].sid # queue[i].sid
        <4>1. j \in i + 1 .. n \/ j = n + 1
          BY <1>1, <2>2
        <4> QED
          BY <1>1, <2>2, <3>2, <3>3, <4>1
      <3> QED
        BY <1>2, <2>2, <3>1, <3>2, <3>4
    <2> QED
      BY <1>1, <2>1, <2>2
  <1>6. ASSUME NEW i \in 1 .. n + 1, queue'[i].type = "packet"
        PROVE  \/ playerMap'[queue'[i].sid] # NoPlayer
               \/ \E j \in 1 .. i - 1 : queue'[j].type = "connection" /\ queue'[j].sid = queue'[i].sid
    <2>1. CASE i = n + 1
      BY <1>1, <1>6, <2>1 DEF Joins
    <2>2. CASE i \in 1 .. n
      BY <1>1, <1>6, <2>2 DEF QueueOrder, Joins
    <2> QED
      BY <1>1, <2>1, <2>2
  <1> QED
    BY <1>1, <1>3, <1>4, <1>5, <1>6 DEF QueueOrder, Joins

\* The sessions that wait for their player still do after a message is put at the end.
LEMMA AppendGet ==
    ASSUME TypeOK, JoinedGetPlayer, NEW m \in Messages, Enqueue(m), playerMap' = playerMap,
           \A x \in Sessions : x # m.sid => net'[x] = net[x],
           net'[m.sid] # "new",
           net'[m.sid] = "joined" => net[m.sid] = "joined" \/ m.type = "connection"
    PROVE  JoinedGetPlayer'
  <1> DEFINE n == Len(queue)
  <1>1. /\ n \in Nat /\ Len(queue') = n + 1
        /\ \A i \in 1 .. n : queue'[i] = queue[i]
        /\ queue'[n + 1] = m
    BY AppendFacts DEF TypeOK
  <1> QED
    BY <1>1 DEF JoinedGetPlayer, Joins

LEMMA CallbackOrder ==
    ASSUME TypeOK, OrderInv, NEW s \in Sessions,
           OnClientJoin(s) \/ Receive(s) \/ OnClientLeave(s)
    PROVE  OrderInv'
  <1>1. /\ net \in [Sessions -> {"new", "joined", "gone"}] /\ queue \in Seq(Messages)
        /\ QueueOrder /\ JoinedGetPlayer
    BY DEF TypeOK, OrderInv
  <1>2. net[s] # "gone"
    BY DEF OnClientJoin, Receive, OnRecv, OnClientLeave
  <1>3. \A i \in 1 .. Len(queue) : queue[i].sid = s => queue[i].type # "disconnection"
    BY <1>1, <1>2 DEF QueueOrder
  <1>4. playerMap' = playerMap
    BY DEF OnClientJoin, Receive, OnRecv, OnClientLeave, Callback, playerVars
  <1>5. CASE OnClientJoin(s)
    <2> DEFINE m == [type |-> "connection", sid |-> s]
    <2>1. m \in Messages /\ Enqueue(m) /\ m.sid = s /\ m.type = "connection"
      BY <1>5, CallbackMessages DEF OnClientJoin, Callback
    <2>2. net[s] = "new" /\ net' = [net EXCEPT ![s] = "joined"]
      BY <1>5 DEF OnClientJoin
    <2>3. \A i \in 1 .. Len(queue) : queue[i].sid # s
      BY <1>1, <2>2 DEF QueueOrder
    <2>4. playerMap[s] = NoPlayer
      BY <1>1, <2>2 DEF JoinedGetPlayer
    <2> HIDE DEF m
    <2>5. QueueOrder'
      BY <1>1, <1>3, <1>4, <2>1, <2>2, <2>3, <2>4, AppendOrder
    <2>6. JoinedGetPlayer'
      BY <1>1, <1>4, <2>1, <2>2, AppendGet
    <2> QED
      BY <2>5, <2>6 DEF OrderInv
  <1>6. CASE Receive(s)
    <2>0. PICK p \in Packets : OnRecv(s, p)
      BY <1>6 DEF Receive
    <2> DEFINE m == [type |-> "packet", sid |-> s, packet |-> p]
    <2>1. m \in Messages /\ Enqueue(m) /\ m.sid = s /\ m.type = "packet"
      BY <2>0, CallbackMessages DEF OnRecv, Callback
    <2>2. net[s] = "joined" /\ net' = net
      BY <2>0 DEF OnRecv
    <2>3. playerMap[s] # NoPlayer \/ \E j \in 1 .. Len(queue) : Joins(j, s)
      BY <1>1, <2>2 DEF JoinedGetPlayer
    <2> HIDE DEF m
    <2>4. QueueOrder'
      BY <1>1, <1>3, <1>4, <2>1, <2>2, <2>3, AppendOrder
    <2>5. JoinedGetPlayer'
      BY <1>1, <1>4, <2>1, <2>2, AppendGet
    <2> QED
      BY <2>4, <2>5 DEF OrderInv
  <1>7. CASE OnClientLeave(s)
    <2> DEFINE m == [type |-> "disconnection", sid |-> s]
    <2>1. m \in Messages /\ Enqueue(m) /\ m.sid = s /\ m.type = "disconnection"
      BY <1>7, CallbackMessages DEF OnClientLeave, Callback
    <2>2. net' = [net EXCEPT ![s] = "gone"]
      BY <1>7 DEF OnClientLeave
    <2> HIDE DEF m
    <2>3. QueueOrder'
      BY <1>1, <1>3, <1>4, <2>1, <2>2, AppendOrder
    <2>4. JoinedGetPlayer'
      BY <1>1, <1>4, <2>1, <2>2, AppendGet
    <2> QED
      BY <2>3, <2>4 DEF OrderInv
  <1> QED
    BY <1>5, <1>6, <1>7

\* What the handling of a message does to the player map.
LEMMA MapEffect ==
    ASSUME WorldType, OtherType, NEW m \in Messages, CompleteMsg(m)
    PROVE  /\ \A x \in Sessions : x # m.sid => playerMap'[x] = playerMap[x]
           /\ m.type = "connection" => playerMap'[m.sid] # NoPlayer
           /\ m.type = "packet" => playerMap' = playerMap
           /\ m.type = "disconnection" => playerMap'[m.sid] = NoPlayer
  <1>0. m.sid \in Sessions /\ playerMap \in [Sessions -> Players \cup {NoPlayer}]
    BY MessageFacts DEF WorldType
  <1>1. CASE m.type = "connection" /\ CreatePlayer(m.sid)
    <2>1. PICK o \in Players \ used :
              playerMap' = IF playerMap[m.sid] = NoPlayer THEN [playerMap EXCEPT ![m.sid] = o]
                           ELSE playerMap
      BY <1>0, <1>1, CreateEffect
    <2>2. o # NoPlayer
      BY PoolIsEnough
    <2> QED
      BY <1>0, <1>1, <2>1, <2>2
  <1>2. CASE m.type = "packet" /\ CompletePacket(m.sid, m.packet)
    <2>1. m.packet \in Packets
      BY <1>2, MessageFacts
    <2> QED
      BY <1>0, <1>2, <2>1, CompletePacketEffect DEF PacketEffect
  <1>3. CASE m.type = "disconnection" /\ DeletePlayer(m.sid)
    <2>1. CASE playerMap[m.sid] = NoPlayer
      BY <1>0, <1>3, <2>1 DEF DeletePlayer, playerVars
    <2>2. CASE playerMap[m.sid] # NoPlayer
      BY <1>0, <1>3, <2>2, DeleteEffect
    <2> QED
      BY <2>1, <2>2
  <1> QED
    BY <1>1, <1>2, <1>3 DEF CompleteMsg

LEMMA HandleOrder ==
    ASSUME TypeOK, OrderInv, HandleMsg
    PROVE  OrderInv'
  <1> DEFINE m == queue[1]
             n == Len(queue)
  <1>1. /\ queue \in Seq(Messages) /\ n \in Nat \ {0}
        /\ m \in Messages /\ CompleteMsg(m)
        /\ Len(queue') = n - 1
        /\ \A i \in 1 .. n - 1 : queue'[i] = queue[i + 1]
    BY QueueFacts DEF HandleMsg, TypeOK
  <1>2. net' = net
    BY DEF HandleMsg, netVars
  <1>3. /\ \A x \in Sessions : x # m.sid => playerMap'[x] = playerMap[x]
        /\ m.type = "connection" => playerMap'[m.sid] # NoPlayer
        /\ m.type = "packet" => playerMap' = playerMap
        /\ m.type = "disconnection" => playerMap'[m.sid] = NoPlayer
    BY <1>1, MapEffect, TypeParts
  <1>4. /\ m.sid \in Sessions
        /\ m.type \in {"connection", "packet", "disconnection"}
        /\ \A i \in 1 .. n : queue[i].sid \in Sessions
    BY <1>1, QueuedFacts
  <1>5. QueueOrder /\ JoinedGetPlayer
    BY DEF OrderInv
  <1>6. 1 \in 1 .. n
    BY <1>1
  <1>7. m.type = "disconnection" => /\ net[m.sid] = "gone"
                                    /\ \A j \in 2 .. n : queue[j].sid # m.sid
    BY <1>5, <1>6 DEF QueueOrder
  <1> HIDE DEF m
  <1>8. ASSUME NEW i \in 1 .. n - 1
        PROVE  net'[queue'[i].sid] # "new"
    BY <1>1, <1>2, <1>5 DEF QueueOrder
  <1>9. ASSUME NEW i \in 1 .. n - 1, queue'[i].type = "connection"
        PROVE  /\ playerMap'[queue'[i].sid] = NoPlayer
               /\ \A j \in 1 .. i - 1 : queue'[j].sid # queue'[i].sid
    <2>1. i + 1 \in 1 .. n /\ queue'[i] = queue[i + 1]
      BY <1>1
    <2>2. playerMap[queue[i + 1].sid] = NoPlayer /\ \A j \in 1 .. i : queue[j].sid # queue[i + 1].sid
      BY <1>5, <1>9, <2>1 DEF QueueOrder
    <2>3. m.sid # queue[i + 1].sid
      BY <2>2 DEF m
    <2>4. \A j \in 1 .. i - 1 : queue'[j] = queue[j + 1] /\ j + 1 \in 1 .. i
      BY <1>1
    <2> QED
      BY <1>3, <1>4, <2>1, <2>2, <2>3, <2>4
  <1>10. ASSUME NEW i \in 1 .. n - 1, queue'[i].type = "disconnection"
         PROVE  /\ net'[queue'[i].sid] = "gone"
                /\ \A j \in i + 1 .. n - 1 : queue'[j].sid # queue'[i].sid
    <2>1. i + 1 \in 1 .. n /\ queue'[i] = queue[i + 1]
      BY <1>1
    <2>2. /\ net[queue[i + 1].sid] = "gone"
          /\ \A j \in i + 2 .. n : queue[j].sid # queue[i + 1].sid
      BY <1>5, <1>10, <2>1 DEF QueueOrder
    <2>3. \A j \in i + 1 .. n - 1 : queue'[j] = queue[j + 1] /\ j + 1 \in i + 2 .. n
      BY <1>1
    <2> QED
      BY <1>2, <2>1, <2>2, <2>3
  <1>11. ASSUME NEW i \in 1 .. n - 1, queue'[i].type = "packet"
         PROVE  \/ playerMap'[queue'[i].sid] # NoPlayer
                \/ \E j \in 1 .. i - 1 : queue'[j].type = "connection" /\ queue'[j].sid = queue'[i].sid
    <2>1. i + 1 \in 2 .. n /\ i + 1 \in 1 .. n /\ queue'[i] = queue[i + 1]
      BY <1>1
    <2> DEFINE s == queue[i + 1].sid
    <2>2. m.type = "disconnection" => s # m.sid
      BY <1>7, <2>1
    <2>3. CASE playerMap[s] # NoPlayer
      BY <1>3, <1>4, <2>1, <2>2, <2>3
    <2>4. CASE playerMap[s] = NoPlayer
      <3>1. PICK j \in 1 .. i : queue[j].type = "connection" /\ queue[j].sid = s
        BY <1>5, <1>11, <2>1, <2>4 DEF QueueOrder, Joins
      <3>2. CASE j = 1
        BY <1>3, <2>1, <3>1, <3>2 DEF m
      <3>3. CASE j # 1
        <4>1. j - 1 \in 1 .. i - 1 /\ j - 1 \in 1 .. n - 1 /\ (j - 1) + 1 = j
          BY <1>1, <3>3
        <4> QED
          BY <1>1, <2>1, <3>1, <4>1
      <3> QED
        BY <3>2, <3>3
    <2> QED
      BY <2>3, <2>4
  <1>12. QueueOrder'
    BY <1>1, <1>8, <1>9, <1>10, <1>11 DEF QueueOrder, Joins
  <1>13. ASSUME NEW s \in Sessions, net'[s] = "new"
         PROVE  playerMap'[s] = NoPlayer
    <2>1. net[m.sid] # "new"
      BY <1>5, <1>6 DEF QueueOrder, m
    <2> QED
      BY <1>2, <1>3, <1>5, <1>13, <2>1 DEF JoinedGetPlayer
  <1>14. ASSUME NEW s \in Sessions, net'[s] = "joined"
         PROVE  playerMap'[s] # NoPlayer \/
                \E j \in 1 .. n - 1 : queue'[j].type = "connection" /\ queue'[j].sid = s
    <2>1. m.type = "disconnection" => s # m.sid
      BY <1>2, <1>7, <1>14
    <2>2. CASE playerMap[s] # NoPlayer
      BY <1>3, <1>4, <2>1, <2>2
    <2>3. CASE playerMap[s] = NoPlayer
      <3>1. PICK j \in 1 .. n : queue[j].type = "connection" /\ queue[j].sid = s
        BY <1>2, <1>5, <1>14, <2>3 DEF JoinedGetPlayer, Joins
      <3>2. CASE j = 1
        BY <1>3, <3>1, <3>2 DEF m
      <3>3. CASE j # 1
        <4>1. j - 1 \in 1 .. n - 1 /\ (j - 1) + 1 = j
          BY <1>1, <3>3
        <4> QED
          BY <1>1, <3>1, <4>1
      <3> QED
        BY <3>2, <3>3
    <2> QED
      BY <2>2, <2>3
  <1>15. JoinedGetPlayer'
    BY <1>1, <1>13, <1>14 DEF JoinedGetPlayer, Joins
  <1> QED
    BY <1>12, <1>15 DEF OrderInv

LEMMA OrderStep == TypeOK /\ OrderInv /\ [Next]_vars => OrderInv'
  <1> SUFFICES ASSUME TypeOK, OrderInv, [Next]_vars PROVE OrderInv'
    OBVIOUS
  <1>1. CASE UNCHANGED <<net, queue, playerMap>>
    BY <1>1 DEF OrderInv, QueueOrder, JoinedGetPlayer, Joins
  <1>2. ASSUME NEW s \in Sessions, Signal(s) PROVE UNCHANGED <<net, queue, playerMap>>
    BY <1>2 DEF Signal, playerVars
  <1>3. CASE Wake \/ QueueEmpty \/ Sweep \/ HeartBeat \/ Tick \/ UNCHANGED vars
    BY <1>1, <1>3 DEF Wake, QueueEmpty, Sweep, HeartBeat, Tick, vars, netVars, playerVars
  <1> QED
    BY <1>1, <1>2, <1>3, CallbackOrder, HandleOrder DEF Next, UpdateThread

\* A packet is handled while its session has a player, however the callbacks of the library
\* interleave with the update thread: the null tests of the packet handlers never succeed.
THEOREM PacketsHavePlayers == Spec => []PacketHasPlayer
  <1>1. TypeOK /\ OrderInv => PacketHasPlayer
    <2> SUFFICES ASSUME TypeOK, OrderInv, queue # <<>>, Head(queue).type = "packet"
                 PROVE  playerMap[Head(queue).sid] # NoPlayer
      BY DEF PacketHasPlayer
    <2>1. Head(queue) = queue[1] /\ 1 \in 1 .. Len(queue)
      BY QueueFacts DEF TypeOK
    <2> QED
      BY <2>1 DEF OrderInv, QueueOrder
  <1> QED
    BY <1>1, InitType, TypeStep, InitOrder, OrderStep, PTL DEF Spec

-----------------------------------------------------------------------------
(* The pool, the player map and the sectors agree.                         *)

\* SectorsExact, entry by entry.
SectorEntries ==
    \A c \in Cells, x \in Sessions, y \in Players :
        /\ <<x, y>> \in sector[c] <=> y = playerMap[x] /\ player[y].sec = c
        /\ <<x, y>> \in sector[c] => player[y].bLogined

LEMMA SectorsByEntry == WorldType => (SectorsExact <=> SectorEntries)
  <1> SUFFICES ASSUME WorldType PROVE SectorsExact <=> SectorEntries
    OBVIOUS
  <1>1. /\ sector \in [Cells -> SUBSET (Sessions \X Players)]
        /\ playerMap \in [Sessions -> Players \cup {NoPlayer}]
        /\ NoPlayer \notin Players
    BY PoolIsEnough DEF WorldType
  <1>2. ASSUME SectorsExact PROVE SectorEntries
    <2> SUFFICES ASSUME NEW c \in Cells, NEW x \in Sessions, NEW y \in Players
                 PROVE  /\ <<x, y>> \in sector[c] <=> y = playerMap[x] /\ player[y].sec = c
                        /\ <<x, y>> \in sector[c] => player[y].bLogined
      BY DEF SectorEntries
    <2>1. sector[c] = {<<s, playerMap[s]>> : s \in {z \in Sessions :
                           playerMap[z] # NoPlayer /\ player[playerMap[z]].sec = c}}
      BY <1>2 DEF SectorsExact
    <2>2. <<x, y>> \in sector[c] <=> y = playerMap[x] /\ player[y].sec = c
      BY <1>1, <2>1
    <2>3. <<x, y>> \in sector[c] => player[<<x, y>>[2]].bLogined
      BY <1>2 DEF SectorsExact
    <2> QED
      BY <2>2, <2>3
  <1>3. ASSUME SectorEntries PROVE SectorsExact
    <2> SUFFICES ASSUME NEW c \in Cells
                 PROVE  /\ sector[c] = {<<s, playerMap[s]>> : s \in {z \in Sessions :
                               playerMap[z] # NoPlayer /\ player[playerMap[z]].sec = c}}
                        /\ \A e \in sector[c] : player[e[2]].bLogined
      BY DEF SectorsExact
    <2>1. ASSUME NEW e \in sector[c]
          PROVE  /\ e[1] \in Sessions /\ e[2] \in Players /\ e = <<e[1], e[2]>>
                 /\ e[2] = playerMap[e[1]] /\ player[e[2]].sec = c /\ player[e[2]].bLogined
      <3>1. e[1] \in Sessions /\ e[2] \in Players /\ e = <<e[1], e[2]>>
        BY <1>1
      <3> QED
        BY <1>3, <3>1 DEF SectorEntries
    <2>2. ASSUME NEW s \in Sessions, playerMap[s] # NoPlayer, player[playerMap[s]].sec = c
          PROVE  <<s, playerMap[s]>> \in sector[c]
      BY <1>1, <1>3, <2>2 DEF SectorEntries
    <2> QED
      BY <1>1, <2>1, <2>2
  <1> QED
    BY <1>2, <1>3

WorldInv == PlayersOwned /\ SectorEntries

\* No two sessions have the same object.
LEMMA OwnersDiffer ==
    ASSUME PlayersOwned, NEW s \in Sessions, NEW x \in Sessions, playerMap[s] # NoPlayer
    PROVE  playerMap[x] = playerMap[s] => x = s
  BY DEF PlayersOwned

LEMMA InitWorld == Init => WorldInv
  <1> SUFFICES ASSUME Init PROVE WorldInv
    OBVIOUS
  <1>1. PlayersOwned
    BY DEF Init, PlayersOwned
  <1>2. SectorEntries
    BY PoolIsEnough, NowhereFacts DEF Init, SectorEntries
  <1> QED
    BY <1>1, <1>2 DEF WorldInv

LEMMA CreateWorld ==
    ASSUME WorldType, OtherType, WorldInv, NEW s \in Sessions, playerMap[s] = NoPlayer,
           CreatePlayer(s)
    PROVE  WorldInv'
  <1>1. PICK o \in Players \ used :
              /\ used' = used \cup {o}
              /\ player'[o].sec = Nowhere
              /\ \A x \in Players : x # o => player'[x] = player[x]
              /\ playerMap' = [playerMap EXCEPT ![s] = o]
              /\ sector' = sector
    BY CreateEffect
  <1>2. /\ playerMap \in [Sessions -> Players \cup {NoPlayer}]
        /\ NoPlayer \notin Players
    BY PoolIsEnough DEF WorldType
  <1>3. /\ used = {playerMap[x] : x \in Sessions} \ {NoPlayer}
        /\ \A x, u \in Sessions : playerMap[x] = playerMap[u] /\ x # u => playerMap[x] = NoPlayer
    BY DEF WorldInv, PlayersOwned
  <1>4. \A x \in Sessions : playerMap[x] # o
    BY <1>1, <1>2, <1>3
  <1>5. PlayersOwned'
    <2>1. used' = {playerMap'[x] : x \in Sessions} \ {NoPlayer}
      BY <1>1, <1>2, <1>3, <1>4
    <2>2. \A x, u \in Sessions : playerMap'[x] = playerMap'[u] /\ x # u => playerMap'[x] = NoPlayer
      BY <1>1, <1>2, <1>3, <1>4
    <2> QED
      BY <2>1, <2>2 DEF PlayersOwned
  <1>6. SectorEntries'
    <2> SUFFICES ASSUME NEW c \in Cells, NEW x \in Sessions, NEW y \in Players
                 PROVE  /\ <<x, y>> \in sector'[c] <=> y = playerMap'[x] /\ player'[y].sec = c
                        /\ <<x, y>> \in sector'[c] => player'[y].bLogined
      BY DEF SectorEntries
    <2>1. /\ <<x, y>> \in sector[c] <=> y = playerMap[x] /\ player[y].sec = c
          /\ <<x, y>> \in sector[c] => player[y].bLogined
      BY DEF WorldInv, SectorEntries
    <2>2. CASE y = o
      BY <1>1, <1>4, <2>1, <2>2, NowhereFacts
    <2>3. CASE y # o
      BY <1>1, <1>2, <2>1, <2>3
    <2> QED
      BY <2>2, <2>3
  <1> QED
    BY <1>5, <1>6 DEF WorldInv

LEMMA DeleteWorld ==
    ASSUME WorldType, OtherType, WorldInv, NEW s \in Sessions, DeletePlayer(s)
    PROVE  WorldInv'
  <1>1. CASE playerMap[s] = NoPlayer
    BY <1>1 DEF DeletePlayer, playerVars, WorldInv, PlayersOwned, SectorEntries
  <1>2. CASE playerMap[s] # NoPlayer
    <2>1. /\ used' = used \ {playerMap[s]}
          /\ playerMap' = [playerMap EXCEPT ![s] = NoPlayer]
          /\ \A x \in Players : /\ player'[x].sec = player[x].sec
                                /\ player'[x].bLogined = player[x].bLogined
          /\ sector' = [c \in Cells |->
                          {e \in sector[c] : c # player[playerMap[s]].sec \/ e[1] # s}]
      BY <1>2, DeleteEffect
    <2>2. /\ playerMap \in [Sessions -> Players \cup {NoPlayer}]
          /\ NoPlayer \notin Players
      BY PoolIsEnough DEF WorldType
    <2>3. /\ used = {playerMap[x] : x \in Sessions} \ {NoPlayer}
          /\ \A x, u \in Sessions : playerMap[x] = playerMap[u] /\ x # u => playerMap[x] = NoPlayer
      BY DEF WorldInv, PlayersOwned
    <2>4. PlayersOwned'
      <3>1. used' = {playerMap'[x] : x \in Sessions} \ {NoPlayer}
        BY <1>2, <2>1, <2>2, <2>3
      <3>2. \A x, u \in Sessions : playerMap'[x] = playerMap'[u] /\ x # u => playerMap'[x] = NoPlayer
        BY <2>1, <2>2, <2>3
      <3> QED
        BY <3>1, <3>2 DEF PlayersOwned
    <2>5. SectorEntries'
      <3> SUFFICES ASSUME NEW c \in Cells, NEW x \in Sessions, NEW y \in Players
                   PROVE  /\ <<x, y>> \in sector'[c] <=> y = playerMap'[x] /\ player'[y].sec = c
                          /\ <<x, y>> \in sector'[c] => player'[y].bLogined
        BY DEF SectorEntries
      <3>1. /\ <<x, y>> \in sector[c] <=> y = playerMap[x] /\ player[y].sec = c
            /\ <<x, y>> \in sector[c] => player[y].bLogined
        BY DEF WorldInv, SectorEntries
      <3>2. <<x, y>> \in sector'[c] <=>
               <<x, y>> \in sector[c] /\ (c # player[playerMap[s]].sec \/ x # s)
        BY <2>1
      <3>3. CASE x = s
        BY <2>1, <2>2, <3>1, <3>2, <3>3
      <3>4. CASE x # s
        BY <2>1, <2>2, <3>1, <3>2, <3>4
      <3> QED
        BY <3>3, <3>4
    <2> QED
      BY <2>4, <2>5 DEF WorldInv
  <1> QED
    BY <1>1, <1>2

LEMMA MoveWorld ==
    ASSUME WorldType, OtherType, WorldInv, NEW s \in Sessions, PacketEffect(s), MoveEffect(s)
    PROVE  WorldInv'
  <1> DEFINE o == playerMap[s]
             old == player[o].sec
  <1>1. PICK c \in Cells :
            /\ playerMap[s] # NoPlayer /\ player[o].bLogined
            /\ SectorUpdate(s, c)
            /\ \A x \in Players : player'[x].sec = IF x = o THEN c ELSE player[x].sec
    BY DEF MoveEffect
  <1>2. /\ playerMap' = playerMap /\ used' = used
        /\ \A x \in Players : player[x].bLogined => player'[x].bLogined
    BY DEF PacketEffect
  <1>3. o \in Players /\ NoPlayer \notin Players
    BY <1>1, OwnObject, PoolIsEnough
  <1>4. \A x \in Sessions : playerMap[x] = o => x = s
    BY <1>1, OwnersDiffer DEF WorldInv
  <1>5. PlayersOwned'
    BY <1>2 DEF WorldInv, PlayersOwned
  <1>6. SectorEntries'
    <2> SUFFICES ASSUME NEW d \in Cells, NEW x \in Sessions, NEW y \in Players
                 PROVE  /\ <<x, y>> \in sector'[d] <=> y = playerMap'[x] /\ player'[y].sec = d
                        /\ <<x, y>> \in sector'[d] => player'[y].bLogined
      BY DEF SectorEntries
    <2>1. /\ <<x, y>> \in sector[d] <=> y = playerMap[x] /\ player[y].sec = d
          /\ <<x, y>> \in sector[d] => player[y].bLogined
      BY DEF WorldInv, SectorEntries
    <2>2. CASE old = c
      <3>1. sector' = sector
        BY <1>1, <2>2 DEF SectorUpdate
      <3>2. player'[y].sec = player[y].sec
        BY <1>1, <2>2
      <3> QED
        BY <1>2, <2>1, <3>1, <3>2
    <2>3. CASE old # c
      <3>1. sector' = [k \in Cells |->
                         IF k = old THEN {e \in sector[k] : e[1] # s}
                         ELSE IF k = c /\ ~\E e \in sector[k] : e[1] = s
                              THEN sector[k] \cup {<<s, o>>}
                              ELSE sector[k]]
        BY <1>1, <2>3 DEF SectorUpdate
      <3>2. ~\E e \in sector[c] : e[1] = s
        <4>1. SUFFICES ASSUME NEW e \in sector[c], e[1] = s PROVE FALSE
          OBVIOUS
        <4>2. e \in Sessions \X Players
          BY DEF WorldType
        <4>3. e = <<s, e[2]>> /\ e[2] \in Players
          BY <4>1, <4>2
        <4>4. e[2] = o /\ player[e[2]].sec = c
          BY <4>3 DEF WorldInv, SectorEntries
        <4> QED
          BY <2>3, <4>4
      <3>3. CASE x = s
        <4>1. CASE d = old
          <5>1. <<x, y>> \notin sector'[d]
            BY <3>1, <3>3, <4>1
          <5>2. y = o => player'[y].sec # d
            BY <1>1, <2>3, <4>1
          <5> QED
            BY <1>2, <3>3, <5>1, <5>2
        <4>2. CASE d = c
          <5>1. sector'[d] = sector[d] \cup {<<s, o>>}
            BY <2>3, <3>1, <3>2, <4>2
          <5>2. <<x, y>> \in sector'[d] <=> y = o
            BY <2>1, <3>3, <5>1
          <5> QED
            BY <1>1, <1>2, <1>3, <3>3, <4>2, <5>2
        <4>3. CASE d # old /\ d # c
          <5>1. sector'[d] = sector[d]
            BY <3>1, <4>3
          <5> QED
            BY <1>1, <1>2, <2>1, <3>3, <4>3, <5>1
        <4> QED
          BY <4>1, <4>2, <4>3
      <3>4. CASE x # s
        <4>1. <<x, y>> \in sector'[d] <=> <<x, y>> \in sector[d]
          BY <3>1, <3>4
        <4>2. y = playerMap[x] => player'[y].sec = player[y].sec
          BY <1>1, <1>4, <3>4
        <4> QED
          BY <1>2, <2>1, <4>1, <4>2
      <3> QED
        BY <3>3, <3>4
    <2> QED
      BY <2>2, <2>3
  <1> QED
    BY <1>5, <1>6 DEF WorldInv

LEMMA WorldStep == TypeOK /\ OrderInv /\ WorldInv /\ [Next]_vars => WorldInv'
  <1> SUFFICES ASSUME TypeOK, OrderInv, WorldInv, [Next]_vars PROVE WorldInv'
    OBVIOUS
  <1>0. WorldType /\ OtherType
    BY TypeParts
  <1>1. CASE ~HandleMsg
    <2>1. UNCHANGED playerVars
      BY <1>1, WorldStays
    <2> QED
      BY <2>1 DEF WorldInv, PlayersOwned, SectorEntries, playerVars
  <1>2. CASE HandleMsg
    <2> DEFINE m == Head(queue)
    <2>1. m \in Messages /\ CompleteMsg(m) /\ m.sid \in Sessions
      BY <1>0, <1>2, QueueFacts, MessageFacts DEF HandleMsg, OtherType
    <2>2. m = queue[1] /\ 1 \in 1 .. Len(queue)
      BY <1>0, <1>2, QueueFacts DEF HandleMsg, OtherType
    <2>3. CASE m.type = "connection" /\ CreatePlayer(m.sid)
      <3>1. playerMap[m.sid] = NoPlayer
        BY <2>2, <2>3 DEF OrderInv, QueueOrder
      <3> QED
        BY <1>0, <2>1, <2>3, <3>1, CreateWorld
    <2>4. CASE m.type = "packet" /\ CompletePacket(m.sid, m.packet)
      <3>1. m.packet \in Packets
        BY <2>1, <2>4, MessageFacts
      <3>2. PacketEffect(m.sid) /\ (StayEffect \/ MoveEffect(m.sid))
        BY <1>0, <2>1, <2>4, <3>1, CompletePacketEffect
      <3>3. CASE StayEffect
        BY <3>2, <3>3 DEF PacketEffect, StayEffect, WorldInv, PlayersOwned, SectorEntries
      <3>4. CASE MoveEffect(m.sid)
        BY <1>0, <2>1, <3>2, <3>4, MoveWorld
      <3> QED
        BY <3>2, <3>3, <3>4
    <2>5. CASE m.type = "disconnection" /\ DeletePlayer(m.sid)
      BY <1>0, <2>1, <2>5, DeleteWorld
    <2> QED
      BY <2>1, <2>3, <2>4, <2>5 DEF CompleteMsg
  <1> QED
    BY <1>1, <1>2

\* Every object out of the pool belongs to one player of the map, and the map holds none that
\* is back in the pool: no message leaks or frees twice.
THEOREM PoolAndMapAgree == Spec => []PlayersOwned
  <1>1. WorldInv => PlayersOwned
    BY DEF WorldInv
  <1> QED
    BY <1>1, InitType, TypeStep, InitOrder, OrderStep, InitWorld, WorldStep, PTL DEF Spec

\* A cell of m_Sector holds exactly the players whose CurrentSector it is, under their own
\* objects and logged in, after every order of moves, joins and leaves.
THEOREM SectorsAgree == Spec => []SectorsExact
  <1>1. TypeOK /\ WorldInv => SectorsExact
    BY TypeParts, SectorsByEntry DEF WorldInv
  <1> QED
    BY <1>1, InitType, TypeStep, InitOrder, OrderStep, InitWorld, WorldStep, PTL DEF Spec

-----------------------------------------------------------------------------
(* A relayed chat.                                                         *)

\* The cells around a cell, and those around Nowhere, are the cells of the map next to it.
LEMMA AroundIsNear ==
    ASSUME NEW c \in Cells \cup {Nowhere}, NEW d \in Cells
    PROVE  d \in GetSectorAround(c) <=> Near(d, c)
  <1>1. c[1] \in Int /\ c[2] \in Int
    BY Bounds DEF Cells, Nowhere
  <1>2. /\ d[1] \in 0 .. Max - 1 /\ d[2] \in 0 .. Max - 1 /\ d = <<d[1], d[2]>>
    BY DEF Cells
  <1>3. d[1] >= 0 /\ d[1] < Max /\ d[2] >= 0 /\ d[2] < Max
    BY <1>2, NowhereFacts
  <1>4. ASSUME d \in GetSectorAround(c) PROVE Near(d, c)
    <2>1. PICK i \in 0 .. 2, j \in 0 .. 2 : d = <<c[1] - 1 + i, c[2] - 1 + j>>
      BY <1>4 DEF GetSectorAround
    <2>2. d[1] = c[1] - 1 + i /\ d[2] = c[2] - 1 + j
      BY <2>1
    <2> QED
      BY <1>1, <2>2 DEF Near
  <1>5. ASSUME Near(d, c) PROVE d \in GetSectorAround(c)
    <2> DEFINE i == d[1] - c[1] + 1
               j == d[2] - c[2] + 1
    <2>1. i \in 0 .. 2 /\ j \in 0 .. 2
      BY <1>1, <1>2, <1>5 DEF Near
    <2>2. d[1] = c[1] - 1 + i /\ d[2] = c[2] - 1 + j
      BY <1>1, <1>2
    <2>3. d = <<c[1] - 1 + i, c[2] - 1 + j>>
      BY <1>2, <2>2
    <2> HIDE DEF i, j
    <2> QED
      BY <1>3, <2>1, <2>3 DEF GetSectorAround
  <1> QED
    BY <1>4, <1>5

\* With the sectors exact, a session gets one copy if its player is around, else none.
LEMMA OneCopy ==
    ASSUME WorldType, SectorEntries, NEW c \in Cells \cup {Nowhere}, NEW s \in Sessions
    PROVE  SendPacket_Around(c)[s] =
              IF /\ playerMap[s] # NoPlayer
                 /\ player[playerMap[s]].sec # Nowhere
                 /\ Near(player[playerMap[s]].sec, c)
              THEN 1 ELSE 0
  <1> DEFINE D == {d \in GetSectorAround(c) : \E e \in sector[d] : e[1] = s}
             sec == player[playerMap[s]].sec
             here == playerMap[s] # NoPlayer /\ sec # Nowhere /\ Near(sec, c)
  <1>1. SendPacket_Around(c)[s] = Cardinality(D)
    BY DEF SendPacket_Around
  <1>2. D \subseteq Cells
    BY AroundCells
  <1>3. \A d \in Cells : (\E e \in sector[d] : e[1] = s) <=> playerMap[s] # NoPlayer /\ sec = d
    <2> SUFFICES ASSUME NEW d \in Cells
                 PROVE  (\E e \in sector[d] : e[1] = s) <=> playerMap[s] # NoPlayer /\ sec = d
      OBVIOUS
    <2>0. /\ sector[d] \subseteq Sessions \X Players
          /\ playerMap[s] \in Players \cup {NoPlayer} /\ NoPlayer \notin Players
      BY PoolIsEnough DEF WorldType
    <2>1. ASSUME NEW e \in sector[d], e[1] = s PROVE playerMap[s] # NoPlayer /\ sec = d
      <3>1. e = <<s, e[2]>> /\ e[2] \in Players
        BY <2>0, <2>1
      <3> QED
        BY <2>0, <3>1 DEF SectorEntries
    <2>2. ASSUME playerMap[s] # NoPlayer, sec = d PROVE \E e \in sector[d] : e[1] = s
      <3>1. <<s, playerMap[s]>> \in sector[d]
        BY <2>0, <2>2 DEF SectorEntries
      <3> QED
        BY <3>1
    <2> QED
      BY <2>1, <2>2
  <1>4. playerMap[s] # NoPlayer => sec \in Cells \cup {Nowhere}
    BY DEF WorldType, PlayerType
  <1>5. CASE here
    <2>1. sec \in Cells
      BY <1>4, <1>5
    <2>2. D = {sec}
      BY <1>2, <1>3, <1>5, <2>1, AroundIsNear
    <2> QED
      BY <1>1, <1>5, <2>2, FS_Singleton
  <1>6. CASE ~here
    <2>1. D = {}
      BY <1>2, <1>3, <1>6, AroundIsNear, NowhereFacts
    <2> QED
      BY <1>1, <1>6, <2>1, FS_EmptySet
  <1> QED
    BY <1>5, <1>6

LEMMA ChatStep ==
    TypeOK /\ OrderInv /\ WorldInv /\ ChatReachesAround /\ [Next]_vars => ChatReachesAround'
  <1> SUFFICES ASSUME TypeOK, WorldInv, ChatReachesAround, [Next]_vars, chat' # NoChat
               PROVE  ChatReachesAround'
    BY DEF ChatReachesAround
  <1>0. WorldType /\ OtherType
    BY TypeParts
  <1>1. CASE ~HandleMsg
    <2>1. UNCHANGED playerVars /\ chat' = chat
      BY <1>1, WorldStays
    <2> QED
      BY <2>1 DEF ChatReachesAround, playerVars
  <1>2. CASE HandleMsg
    <2> DEFINE m == Head(queue)
               s == m.sid
    <2>1. m \in Messages /\ CompleteMsg(m) /\ s \in Sessions
      BY <1>0, <1>2, QueueFacts, MessageFacts DEF HandleMsg, OtherType
    <2>2. m.type = "packet" /\ CompletePacket(s, m.packet) /\ m.packet \in Packets
      BY <2>1, MessageFacts DEF CompleteMsg, CreatePlayer, DeletePlayer
    <2>3. PacketEffect(s) /\ StayEffect /\ ChatEffect(s)
      BY <1>0, <2>1, <2>2, CompletePacketEffect
    <2>4. /\ playerMap[s] # NoPlayer
          /\ chat' = [from |-> player[playerMap[s]].sec,
                      to   |-> SendPacket_Around(player[playerMap[s]].sec)]
      BY <2>3 DEF ChatEffect
    <2> DEFINE c == player[playerMap[s]].sec
    <2>5. c \in Cells \cup {Nowhere}
      BY <1>0, <2>1, <2>4, OwnObject
    <2>6. playerMap' = playerMap
      BY <2>3 DEF PacketEffect
    <2> SUFFICES ASSUME NEW x \in Sessions
                 PROVE  chat'.to[x] = IF /\ playerMap'[x] # NoPlayer
                                         /\ player'[playerMap'[x]].sec # Nowhere
                                         /\ Near(player'[playerMap'[x]].sec, chat'.from)
                                      THEN 1 ELSE 0
      BY DEF ChatReachesAround, Near
    <2>7. playerMap[x] # NoPlayer => player'[playerMap[x]].sec = player[playerMap[x]].sec
      BY <1>0, <2>3, OwnObject DEF StayEffect
    <2>8. SendPacket_Around(c)[x] = IF /\ playerMap[x] # NoPlayer
                                       /\ player[playerMap[x]].sec # Nowhere
                                       /\ Near(player[playerMap[x]].sec, c)
                                    THEN 1 ELSE 0
      BY <1>0, <2>5, OneCopy DEF WorldInv
    <2>9. chat'.from = c /\ chat'.to = SendPacket_Around(c)
      BY <2>4
    <2> HIDE DEF c
    <2> QED
      BY <2>6, <2>7, <2>8, <2>9
  <1> QED
    BY <1>1, <1>2

\* A chat reaches each player at most one cell away once, and nobody else, on a map of any
\* size and with any number of players in a cell.
THEOREM ChatsReachAround == Spec => []ChatReachesAround
  <1>1. Init => ChatReachesAround
    BY DEF Init, ChatReachesAround
  <1> QED
    BY <1>1, InitType, TypeStep, InitOrder, OrderStep, InitWorld, WorldStep, ChatStep, PTL DEF Spec

-----------------------------------------------------------------------------
(* The wakeup.                                                             *)

\* Stronger than NoLostWakeup: it also holds from the moment the thread finds the queue empty.
Awake == pc # "check" /\ queue # <<>> => event \/ signal # {}

LEMMA AwakeStep == TypeOK /\ Awake /\ [Next]_vars => Awake'
  <1> SUFFICES ASSUME TypeOK, Awake, [Next]_vars PROVE Awake'
    OBVIOUS
  <1>1. ASSUME NEW s \in Sessions, OnClientJoin(s) \/ Receive(s) \/ OnClientLeave(s)
        PROVE  s \in signal'
    BY <1>1 DEF OnClientJoin, Receive, OnRecv, OnClientLeave, Callback
  <1>2. ASSUME NEW s \in Sessions, Signal(s) PROVE event'
    BY <1>2 DEF Signal
  <1>3. CASE Wake \/ HandleMsg
    BY <1>3 DEF Awake, Wake, HandleMsg, TypeOK
  <1>4. CASE QueueEmpty
    BY <1>4 DEF Awake, QueueEmpty
  <1>5. CASE Sweep \/ HeartBeat \/ Tick \/ UNCHANGED vars
    BY <1>5 DEF Awake, TypeOK, Sweep, HeartBeat, Tick, vars, netVars
  <1> QED
    BY <1>1, <1>2, <1>3, <1>4, <1>5 DEF Next, UpdateThread, Awake

\* The update thread never sleeps on a message nobody will wake it for, although the queue and
\* the event are two steps on one side and two on the other.
THEOREM WakeupKept == Spec => []NoLostWakeup
  <1>1. Init => Awake
    BY DEF Init, Awake
  <1>2. Awake => NoLostWakeup
    BY DEF Awake, NoLostWakeup
  <1> QED
    BY <1>1, <1>2, InitType, TypeStep, AwakeStep, PTL DEF Spec

-----------------------------------------------------------------------------
(* The check of the players.                                               *)

\* How long ago the clock says the player of s was heard of.
Age(s) ==
    LET recv == player[playerMap[s]].recv
    IN  IF recv <= clock THEN clock - recv ELSE clock - recv + Wrap

\* A player of a session still joined is told to disconnect already, silent for a whole turn of
\* the clock, or its silence is what the clock says.
SilenceInv ==
    \A s \in Sessions : net[s] = "joined" /\ playerMap[s] # NoPlayer /\ silence[s] < Wrap =>
                            s \in kicked \/ silence[s] = Age(s)

\* The difference of two times in a word twice as wide as the clock.
LEMMA Difference ==
    ASSUME NEW a \in 0 .. Wrap - 1, NEW b \in 0 .. Wrap - 1
    PROVE  /\ b <= a => (a - b) % (Wrap * Wrap) = a - b
           /\ b > a => (a - b) % (Wrap * Wrap) >= MaxTime
  <1>1. Wrap \in Nat /\ Wrap >= 1 /\ MaxTime \in Nat /\ MaxTime <= Wrap
    BY Bounds
  <1> DEFINE W == Wrap * Wrap
  <1>2. W \in Nat /\ W >= Wrap
    BY <1>1
  <1>3. b > a => W >= Wrap + Wrap
    <2>1. b > a => Wrap >= 2
      BY <1>1
    <2>2. Wrap >= 2 => W >= Wrap + Wrap
      BY <1>1
    <2> QED
      BY <2>1, <2>2
  <1> HIDE DEF W
  <1>4. ASSUME NEW x \in Int, 0 <= x, x < W PROVE x % W = x
    BY <1>1, <1>2, <1>4
  <1>5. ASSUME NEW x \in Int, -W < x, x < 0 PROVE x % W = x + W
    BY <1>1, <1>2, <1>5
  <1>6. b <= a => (a - b) % W = a - b
    BY <1>1, <1>2, <1>4
  <1>7. b > a => (a - b) % W = a - b + W
    BY <1>1, <1>2, <1>5
  <1>8. b > a => a - b + W >= MaxTime
    BY <1>1, <1>2, <1>3
  <1> QED
    BY <1>6, <1>7, <1>8 DEF W

\* One unit of time later the clock says one unit more, until a turn is complete.
LEMMA TickAge ==
    ASSUME NEW a \in 0 .. Wrap - 1, NEW b \in 0 .. Wrap - 1,
           NEW n \in 0 .. Wrap, n + 1 < Wrap,
           n = IF b <= a THEN a - b ELSE a - b + Wrap
    PROVE  LET c == (a + 1) % Wrap IN n + 1 = IF b <= c THEN c - b ELSE c - b + Wrap
  <1>1. Wrap \in Nat /\ Wrap >= 1
    BY Bounds
  <1>2. CASE a + 1 < Wrap
    <2>1. (a + 1) % Wrap = a + 1
      BY <1>1, <1>2
    <2> QED
      BY <1>1, <2>1
  <1>3. CASE a + 1 = Wrap
    <2>1. (a + 1) % Wrap = 0
      BY <1>1, <1>3
    <2> QED
      BY <1>1, <1>3, <2>1
  <1> QED
    BY <1>1, <1>2, <1>3

\* What the handling of a message does to the time a player was last heard of.
LEMMA HeardEffect ==
    ASSUME WorldType, OtherType, WorldInv, NEW m \in Messages, CompleteMsg(m),
           m.type = "connection" => playerMap[m.sid] = NoPlayer,
           NEW x \in Sessions, playerMap'[x] # NoPlayer, net[x] = "joined"
    PROVE  /\ kicked \subseteq kicked'
           /\ x = m.sid => x \in kicked' \/ player'[playerMap'[x]].recv = clock
           /\ x # m.sid => /\ playerMap'[x] = playerMap[x]
                           /\ player'[playerMap[x]].recv = player[playerMap[x]].recv
  <1> DEFINE s == m.sid
  <1>0. s \in Sessions /\ playerMap \in [Sessions -> Players \cup {NoPlayer}]
    BY MessageFacts DEF WorldType
  <1>1. x # s => playerMap'[x] = playerMap[x] /\ playerMap[x] \in Players
    BY <1>0, MapEffect
  <1>2. CASE m.type = "connection" /\ CreatePlayer(s)
    <2>1. PICK o \in Players \ used :
              /\ player'[o].recv = clock
              /\ \A y \in Players : y # o => player'[y] = player[y]
              /\ playerMap' = [playerMap EXCEPT ![s] = o]
              /\ kicked' = kicked
      BY <1>0, <1>2, CreateEffect
    <2>2. playerMap[x] # NoPlayer => playerMap[x] # o
      BY <2>1 DEF WorldInv, PlayersOwned
    <2> QED
      BY <1>0, <1>1, <2>1, <2>2
  <1>3. CASE m.type = "packet" /\ CompletePacket(s, m.packet)
    <2>1. m.packet \in Packets
      BY <1>3, MessageFacts
    <2>2. PacketEffect(s)
      BY <1>0, <1>3, <2>1, CompletePacketEffect
    <2>3. /\ playerMap' = playerMap /\ kicked \subseteq kicked'
          /\ \A y \in Players : y # playerMap[s] => player'[y] = player[y]
          /\ net[s] = "joined" /\ playerMap[s] # NoPlayer
                => s \in kicked' \/ player'[playerMap[s]].recv = clock
      BY <2>2 DEF PacketEffect
    <2>4. x # s => playerMap[x] # playerMap[s]
      BY <1>0, <2>3, OwnersDiffer DEF WorldInv
    <2> QED
      BY <1>1, <2>3, <2>4
  <1>4. CASE m.type = "disconnection" /\ DeletePlayer(s)
    <2>1. CASE playerMap[s] = NoPlayer
      BY <1>0, <1>4, <2>1 DEF DeletePlayer, playerVars
    <2>2. CASE playerMap[s] # NoPlayer
      <3>1. /\ playerMap' = [playerMap EXCEPT ![s] = NoPlayer]
            /\ \A y \in Players : player'[y].recv = player[y].recv
            /\ kicked' = kicked
        BY <1>0, <1>4, <2>2, DeleteEffect
      <3> QED
        BY <1>0, <1>1, <3>1
    <2> QED
      BY <2>1, <2>2
  <1> QED
    BY <1>2, <1>3, <1>4 DEF CompleteMsg

LEMMA SilenceHandle ==
    ASSUME TypeOK, OrderInv, WorldInv, SilenceInv, HandleMsg
    PROVE  SilenceInv'
  <1>0. WorldType /\ OtherType
    BY TypeParts
  <1> DEFINE m == Head(queue)
  <1>1. m \in Messages /\ CompleteMsg(m) /\ m.sid \in Sessions
    BY <1>0, QueueFacts, MessageFacts DEF HandleMsg, OtherType
  <1>2. m.type = "connection" => playerMap[m.sid] = NoPlayer
    <2>1. m = queue[1] /\ 1 \in 1 .. Len(queue)
      BY <1>0, QueueFacts DEF HandleMsg, OtherType
    <2> QED
      BY <2>1 DEF OrderInv, QueueOrder
  <1>3. /\ net' = net /\ clock' = clock
        /\ silence' = [silence EXCEPT ![m.sid] = 0]
        /\ silence \in [Sessions -> 0 .. Wrap] /\ clock \in 0 .. Wrap - 1
    BY <1>0 DEF HandleMsg, netVars, timeVars, OtherType
  <1> HIDE DEF m
  <1> SUFFICES ASSUME NEW x \in Sessions, net'[x] = "joined", playerMap'[x] # NoPlayer,
                      silence'[x] < Wrap, x \notin kicked'
               PROVE  silence'[x] = Age(x)'
    BY DEF SilenceInv
  <1>4. /\ kicked \subseteq kicked'
        /\ x = m.sid => player'[playerMap'[x]].recv = clock
        /\ x # m.sid => /\ playerMap'[x] = playerMap[x]
                        /\ player'[playerMap[x]].recv = player[playerMap[x]].recv
    BY <1>0, <1>1, <1>2, <1>3, HeardEffect
  <1>5. CASE x = m.sid
    <2>1. silence'[x] = 0
      BY <1>3, <1>5
    <2>2. player'[playerMap'[x]].recv = clock'
      BY <1>3, <1>4, <1>5
    <2>3. clock' <= clock' /\ clock' - clock' = 0
      BY <1>3
    <2> QED
      BY <2>1, <2>2, <2>3 DEF Age
  <1>6. CASE x # m.sid
    <2>1. silence'[x] = silence[x]
      BY <1>3, <1>6
    <2>2. silence[x] = Age(x)
      BY <1>3, <1>4, <1>6, <2>1 DEF SilenceInv
    <2> QED
      BY <1>3, <1>4, <1>6, <2>1, <2>2 DEF Age
  <1> QED
    BY <1>5, <1>6

LEMMA SilenceTick == ASSUME TypeOK, SilenceInv, Tick PROVE SilenceInv'
  <1>0. WorldType /\ OtherType
    BY TypeParts
  <1>1. /\ UNCHANGED <<net, playerMap, player, kicked>>
        /\ clock' = (clock + 1) % Wrap
        /\ silence' = [s \in Sessions |-> IF playerMap[s] # NoPlayer /\ silence[s] < Wrap
                                          THEN silence[s] + 1 ELSE silence[s]]
    BY DEF Tick, netVars, playerVars
  <1>2. silence \in [Sessions -> 0 .. Wrap] /\ clock \in 0 .. Wrap - 1 /\ Wrap \in Nat
    BY <1>0, Bounds DEF OtherType
  <1> SUFFICES ASSUME NEW x \in Sessions, net[x] = "joined", playerMap[x] # NoPlayer,
                      silence'[x] < Wrap, x \notin kicked
               PROVE  silence'[x] = Age(x)'
    BY <1>1 DEF SilenceInv
  <1>3. silence[x] < Wrap /\ silence'[x] = silence[x] + 1
    BY <1>1, <1>2
  <1>4. silence[x] = Age(x)
    BY <1>3 DEF SilenceInv
  <1> DEFINE b == player[playerMap[x]].recv
  <1>5. b \in 0 .. Wrap - 1
    BY <1>0, OwnObject DEF PlayerType
  <1>6. silence[x] = IF b <= clock THEN clock - b ELSE clock - b + Wrap
    BY <1>4 DEF Age
  <1> HIDE DEF b
  <1>7. silence[x] + 1 = IF b <= clock' THEN clock' - b ELSE clock' - b + Wrap
    BY <1>1, <1>2, <1>3, <1>5, <1>6, TickAge
  <1> QED
    BY <1>1, <1>3, <1>7 DEF Age, b

LEMMA SilenceStep == TypeOK /\ OrderInv /\ WorldInv /\ SilenceInv /\ [Next]_vars => SilenceInv'
  <1> SUFFICES ASSUME TypeOK, OrderInv, WorldInv, SilenceInv, [Next]_vars PROVE SilenceInv'
    OBVIOUS
  <1>1. ASSUME UNCHANGED <<playerMap, player, clock, silence>>, kicked \subseteq kicked',
               \A s \in Sessions : net'[s] = "joined" /\ playerMap[s] # NoPlayer => net[s] = "joined"
        PROVE  SilenceInv'
    BY <1>1 DEF SilenceInv, Age
  <1>2. ASSUME NEW s \in Sessions, OnClientJoin(s) \/ Receive(s) \/ OnClientLeave(s) \/ Signal(s)
        PROVE  SilenceInv'
    <2>1. UNCHANGED <<playerMap, player, clock, silence, kicked>>
      BY <1>2 DEF OnClientJoin, Receive, OnRecv, OnClientLeave, Signal, Callback, playerVars, timeVars
    <2>2. ASSUME NEW x \in Sessions, net'[x] = "joined", playerMap[x] # NoPlayer
          PROVE  net[x] = "joined"
      <3>1. net \in [Sessions -> {"new", "joined", "gone"}]
        BY DEF TypeOK
      <3>2. net[x] # "new"
        BY <2>2 DEF OrderInv, JoinedGetPlayer
      <3> QED
        BY <1>2, <2>2, <3>1, <3>2 DEF OnClientJoin, Receive, OnRecv, OnClientLeave, Signal
    <2> QED
      BY <1>1, <2>1, <2>2
  <1>3. CASE Sweep
    <2>1. kicked \subseteq kicked'
      BY <1>3 DEF Sweep, Disconnect
    <2> QED
      BY <1>1, <1>3, <2>1 DEF Sweep, netVars, playerVars
  <1>4. CASE Wake \/ QueueEmpty \/ HeartBeat \/ UNCHANGED vars
    BY <1>1, <1>4 DEF Wake, QueueEmpty, HeartBeat, vars, netVars, playerVars, timeVars
  <1> QED
    BY <1>2, <1>3, <1>4, SilenceHandle, SilenceTick DEF Next, UpdateThread

LEMMA InitSilence == Init => SilenceInv
  BY DEF Init, SilenceInv

LEMMA SweepStep ==
    ASSUME TypeOK, SilenceInv, Sweep, NEW s \in Sessions,
           net[s] = "joined", playerMap[s] # NoPlayer, silence[s] < Wrap
    PROVE  s \in kicked' <=>
              s \in kicked \/ silence[s] >= MaxTime \/ player[playerMap[s]].recv > clock
  <1>0. WorldType /\ OtherType
    BY TypeParts
  <1> DEFINE b == player[playerMap[s]].recv
  <1>1. b \in 0 .. Wrap - 1 /\ clock \in 0 .. Wrap - 1 /\ Wrap \in Nat
    BY <1>0, OwnObject, Bounds DEF PlayerType
  <1>2. s \in kicked' <=> s \in kicked \/ Expired(s)
    <2>1. Disconnect({x \in Sessions : Expired(x)}) /\ kicked \subseteq Sessions
      BY <1>0 DEF Sweep, WorldType
    <2> QED
      BY <2>1 DEF Disconnect
  <1>3. Expired(s) <=> (clock - b) % (Wrap * Wrap) >= MaxTime
    BY DEF Expired
  <1>4. s \in kicked \/ silence[s] = IF b <= clock THEN clock - b ELSE clock - b + Wrap
    BY DEF SilenceInv, Age
  <1>5. /\ b <= clock => (clock - b) % (Wrap * Wrap) = clock - b
        /\ b > clock => (clock - b) % (Wrap * Wrap) >= MaxTime
    BY <1>1, Difference
  <1> DEFINE D == (clock - b) % (Wrap * Wrap)
  <1> SUFFICES s \in kicked' <=> s \in kicked \/ silence[s] >= MaxTime \/ b > clock
    OBVIOUS
  <1> HIDE DEF b, D
  <1>6. CASE b <= clock
    <2>1. s \in kicked \/ D = silence[s]
      BY <1>4, <1>5, <1>6 DEF D
    <2>2. ~(b > clock)
      BY <1>1, <1>6
    <2> QED
      BY <1>2, <1>3, <2>1, <2>2 DEF D
  <1>7. CASE b > clock
    BY <1>2, <1>3, <1>5, <1>7 DEF D
  <1> QED
    BY <1>1, <1>6, <1>7

\* The check of the players disconnects those silent for MaxTime and nobody else, or, once the
\* 32-bit clock has wrapped around, also those whose last message is from before the wrap.
THEOREM SweepIsExact == Spec => SweepExact
  <1>1. TypeOK /\ SilenceInv /\ [Next]_vars =>
           (pc = "sweep" /\ pc' = "wait" =>
              \A s \in Sessions :
                LET wrapped == player[playerMap[s]].recv > clock
                IN  net[s] = "joined" /\ playerMap[s] # NoPlayer /\ silence[s] < Wrap =>
                        (s \in kicked' <=> s \in kicked \/ silence[s] >= MaxTime \/ wrapped))
    <2> SUFFICES ASSUME TypeOK, SilenceInv, [Next]_vars, pc = "sweep", pc' = "wait"
                 PROVE  Sweep
      BY SweepStep
    <2>1. ASSUME NEW s \in Sessions, OnClientJoin(s) \/ Receive(s) \/ OnClientLeave(s) \/ Signal(s)
          PROVE  pc' = pc
      BY <2>1 DEF OnClientJoin, Receive, OnRecv, OnClientLeave, Signal, Callback
    <2>2. Wake \/ HandleMsg \/ QueueEmpty \/ HeartBeat \/ Tick \/ UNCHANGED vars
             => pc' = pc \/ pc # "sweep"
      BY DEF Wake, HandleMsg, QueueEmpty, HeartBeat, Tick, vars
    <2> QED
      BY <2>1, <2>2 DEF Next, UpdateThread
  <1> QED
    BY <1>1, InitType, TypeStep, InitOrder, OrderStep, InitWorld, WorldStep, InitSilence,
       SilenceStep, PTL DEF Spec, SweepExact
=============================================================================
