------------------------------ MODULE HubProofs ------------------------------
(***************************************************************************)
(* Proofs about the hub: for every number of clients, connections, rooms   *)
(* and agents, and for every order of handlers, close events and deaths of *)
(* the process.                                                            *)
(***************************************************************************)
EXTENDS Hub, ConnectionsProofs, FiniteSetTheorems

\* What RoomsInOrder says of one room.
InOrder(r) ==
    /\ owner[r] \in members[r] \/ r \in halfMade
    /\ Cardinality(members[r]) <= limit[r] \/ members[r] \subseteq {owner[r]}

\* A room has finitely many members, the owner among them unless it was left half
\* made, and no others beyond its limit; before it exists it has none.
Membership ==
    \A r \in Room :
        /\ IsFiniteSet(members[r])
        /\ active[r] = "none" => members[r] = {}
        /\ active[r] # "none" => InOrder(r)

\* The tables of rooms in TypeOK.
RoomsTyped ==
    /\ active \in [Room -> {"none", "yes", "no"}]
    /\ owner \in [Room -> Client \cup {None}]
    /\ limit \in [Room -> Int]
    /\ members \in [Room -> SUBSET Client]
    /\ halfMade \subseteq Room

\* An agent that was never registered is offline: only the rows of the client
\* are set to offline when a connection closes.
Unregistered == \A a \in Agent : agentRoom[a] = None => agentStatus[a] = "offline"

\* The inductive invariant.
HubInv ==
    /\ TypeOK
    /\ ConnectionsInv
    /\ FeedsAreAlive
    /\ Membership
    /\ Unregistered
    /\ OnlineMeansConnected

-----------------------------------------------------------------------------
\* Every handler of the hub does one of the operations of Connections, or leaves
\* the connections alone.
LEMMA StepOfConnections == [Next]_vars => [ConnectionsNext]_connections
  <1> SUFFICES ASSUME [Next]_vars
               PROVE  [ConnectionsNext]_connections
    OBVIOUS
  <1>1. ASSUME NEW s \in Socket, Connections(s)
        PROVE  ConnectionsNext
    BY <1>1 DEF Connections, Connect, ConnectWithCert, Auth, Refuse, Close, CloseUnheard,
       ConnectionStep, ConnectionsNext
  <1>2. CASE Restart \/ \E c \in Client, r \in Room : CreateRoomDies(c, r)
    BY <1>2 DEF Restart, CreateRoomDies, Restarted, ConnectionsNext
  <1>3. ASSUME NEW s \in Socket, NEW r \in Room, Rooms(s, r)
        PROVE  UNCHANGED connections
    BY <1>3 DEF Rooms, CreateRoom, Join, Leave, Dissolve
  <1>4. ASSUME NEW r \in Room, HttpRooms(r)
        PROVE  UNCHANGED connections
    BY <1>4 DEF HttpRooms, HttpCreateRoom, HttpJoin, HttpLeave, HttpDissolve
  <1>5. ASSUME NEW s \in Socket, NEW a \in Agent, Agents(s, a)
        PROVE  UNCHANGED connections
    BY <1>5 DEF Agents, RegisterAgent, DeregisterAgent, Heartbeat
  <1>6. CASE CheckStale \/ \E a \in Agent : GoStale(a)
    BY <1>6 DEF CheckStale, GoStale
  <1>7. CASE UNCHANGED vars
    BY <1>7 DEF vars
  <1>8. QED
    BY <1>1, <1>2, <1>3, <1>4, <1>5, <1>6, <1>7 DEF Next

\* The hub's connections behave as the connections by themselves.
THEOREM HubImplementsConnections == Spec => ConnectionsSpec
  <1>1. Init => NoConnections
    BY DEF Init
  <1>2. QED
    BY <1>1, StepOfConnections, PTL DEF Spec, ConnectionsSpec

\* The hub's maps of connections are sound whatever else a step does.
LEMMA NextKeepsConnections == ConnectionsInv /\ [Next]_vars => ConnectionsInv'
  BY StepOfConnections, ConnectionsNextKeeps

-----------------------------------------------------------------------------
\* The empty hub.
LEMMA HubInvInit == Init => HubInv
  <1> SUFFICES ASSUME Init
               PROVE  HubInv
    OBVIOUS
  <1>1. ConnectionsInv
    BY NoConnectionsInv DEF Init
  <1>2. TypeOK
    BY <1>1 DEF Init, TypeOK, ConnectionsInv
  <1>3. FeedsAreAlive /\ Unregistered /\ OnlineMeansConnected
    BY DEF Init, FeedsAreAlive, Unregistered, OnlineMeansConnected
  <1>4. Membership
    BY FS_EmptySet DEF Init, Membership
  <1>5. QED
    BY <1>1, <1>2, <1>3, <1>4 DEF HubInv

\* A step on a connection leaves the tables alone but for the agents of a
\* client whose connection closes, and the subscriptions of that connection.
LEMMA ConnectionsStepKeeps ==
  ASSUME HubInv, NEW s \in Socket, Connections(s), ConnectionsInv'
  PROVE  HubInv'
  <1>1. CASE Close(s)
    <2>1. TypeOK'
      BY <1>1 DEF HubInv, TypeOK, ConnectionsInv, Close, Disconnect, roomTables
    <2>2. \A t \in Socket \ {s} : Heard(t) => Heard(t)' /\ who'[t] = who[t]
      BY <1>1, StillHeard DEF HubInv, Close, ConnectionStep
    <2>3. FeedsAreAlive'
      <3> SUFFICES ASSUME NEW r \in Room, NEW t \in subscribers'[r]
                   PROVE  Heard(t)' /\ r \in subscribed'[t]
        BY DEF FeedsAreAlive
      <3>1. t \in subscribers[r] /\ t \in Socket /\ Heard(t) /\ r \in subscribed[t]
        BY <1>1 DEF HubInv, TypeOK, FeedsAreAlive, Close, Disconnect
      <3>2. t # s
        BY <1>1, <3>1 DEF HubInv, TypeOK, Close, Disconnect
      <3>3. QED
        BY <1>1, <2>2, <3>1, <3>2 DEF HubInv, TypeOK, Close, Disconnect
    <2>4. Membership'
      BY <1>1 DEF HubInv, Membership, InOrder, Close, roomTables
    <2>5. Unregistered'
      BY <1>1 DEF HubInv, TypeOK, Unregistered, Close, Disconnect
    <2>6. OnlineMeansConnected'
      <3> SUFFICES ASSUME NEW a \in Agent, agentStatus'[a] # "offline", a \notin survivors'
                   PROVE  \E t \in clients' : Heard(t)' /\ who'[t] = Owner[a]
        BY DEF OnlineMeansConnected
      <3>1. agentStatus[a] # "offline" /\ a \notin survivors /\ Owner[a] # who[s]
        BY <1>1 DEF HubInv, TypeOK, Unregistered, Close, Disconnect
      <3>2. PICK t \in clients : Heard(t) /\ who[t] = Owner[a]
        BY <3>1 DEF HubInv, OnlineMeansConnected
      <3>3. t \in Socket /\ t # s
        BY <3>1, <3>2 DEF HubInv, TypeOK, ConnectionsOK
      <3>4. Heard(t)' /\ who'[t] = who[t]
        BY <2>2, <3>2, <3>3
      <3>5. QED
        BY <3>2, <3>4 DEF Heard
    <2>7. QED
      BY <2>1, <2>3, <2>4, <2>5, <2>6 DEF HubInv
  <1>2. CASE ~Close(s)
    <2>1. UNCHANGED <<feeds, roomTables, agentTable>> /\ ConnectionStep(s) /\ ~Closed(s)
      BY <1>2 DEF Connections, Connect, ConnectWithCert, Auth, Refuse, CloseUnheard,
         ConnectionStep, Closed, Opened, OpenedWithCert, Authenticated, Refused, ClosedUnheard,
         Heard
    <2>2. \A t \in Socket : Heard(t) => Heard(t)' /\ who'[t] = who[t]
      BY <2>1, StillHeard DEF HubInv, ConnectionStep
    <2>3. TypeOK'
      BY <2>1 DEF HubInv, TypeOK, ConnectionsInv, feeds, roomTables, agentTable
    <2>4. FeedsAreAlive'
      BY <2>1, <2>2 DEF HubInv, TypeOK, FeedsAreAlive, feeds
    <2>5. Membership' /\ Unregistered'
      BY <2>1 DEF HubInv, Membership, InOrder, Unregistered, roomTables, agentTable
    <2>6. OnlineMeansConnected'
      <3> SUFFICES ASSUME NEW a \in Agent, agentStatus[a] # "offline", a \notin survivors
                   PROVE  \E t \in clients' : Heard(t)' /\ who'[t] = Owner[a]
        BY <2>1 DEF OnlineMeansConnected, agentTable
      <3>1. PICK t \in clients : Heard(t) /\ who[t] = Owner[a]
        BY DEF HubInv, OnlineMeansConnected
      <3>2. t \in Socket
        BY DEF HubInv, TypeOK, ConnectionsOK
      <3>3. QED
        BY <2>2, <3>1, <3>2 DEF Heard
    <2>7. QED
      BY <2>3, <2>4, <2>5, <2>6 DEF HubInv
  <1>3. QED
    BY <1>1, <1>2

-----------------------------------------------------------------------------
\* The table operations on rooms: whoever joins finds a place, and the owner
\* never leaves.
LEMMA RoomTablesKeep ==
  ASSUME TypeOK, Membership, NEW c \in Client, NEW r \in Room,
         \/ InsertRoom(c, r)
         \/ InsertMember(c, r)
         \/ DeleteMember(c, r)
         \/ Deactivate(r)
  PROVE  Membership' /\ RoomsTyped'
  <1>1. CASE InsertRoom(c, r)
    <2>1. PICK l \in Limits : InsertRow(c, r, l)
      BY <1>1 DEF InsertRoom
    <2>2. l \in Int
      BY HubAssumption
    <2>3. IsFiniteSet({c})
      BY FS_Singleton
    <2>4. RoomsTyped'
      BY <1>1, <2>1, <2>2 DEF InsertRoom, InsertRow, TypeOK, RoomsTyped
    <2>5. Membership'
      BY <1>1, <2>1, <2>3 DEF InsertRoom, InsertRow, TypeOK, Membership, InOrder
    <2>6. QED
      BY <2>4, <2>5
  <1>2. CASE InsertMember(c, r)
    <2>1. /\ IsFiniteSet(members[r] \cup {c})
          /\ c \in members[r] => members[r] \cup {c} = members[r]
          /\ c \notin members[r] =>
                 Cardinality(members[r] \cup {c}) = Cardinality(members[r]) + 1
      BY FS_AddElement DEF Membership
    <2>2. Cardinality(members[r]) \in Nat /\ limit[r] \in Int
      BY FS_CardinalityType DEF Membership, TypeOK
    <2>3. \A q \in Room : members'[q] = IF q = r THEN members[r] \cup {c} ELSE members[q]
      BY <1>2 DEF InsertMember, TypeOK
    <2>4. RoomsTyped'
      BY <1>2 DEF InsertMember, TypeOK, RoomsTyped
    <2>5. InOrder(r)'
      <3>1. InOrder(r)
        BY <1>2 DEF InsertMember, Membership
      <3>2. owner'[r] \in members'[r] \/ r \in halfMade'
        BY <1>2, <2>3, <3>1 DEF InsertMember, InOrder
      <3>3. CASE c \in members[r]
        BY <1>2, <2>1, <2>3, <3>1, <3>2, <3>3 DEF InsertMember, InOrder
      <3>4. CASE c \notin members[r]
        <4>1. Cardinality(members[r] \cup {c}) <= limit[r]
          BY <1>2, <2>1, <2>2, <3>4 DEF InsertMember
        <4>2. QED
          BY <1>2, <2>3, <3>2, <4>1 DEF InsertMember, InOrder
      <3>5. QED
        BY <3>3, <3>4
    <2>6. ASSUME NEW q \in Room, q # r
          PROVE  InOrder(q) => InOrder(q)'
      BY <1>2, <2>3, <2>6 DEF InsertMember, InOrder
    <2>7. Membership'
      BY <1>2, <2>1, <2>3, <2>5, <2>6 DEF InsertMember, Membership
    <2>8. QED
      BY <2>4, <2>7
  <1>3. CASE DeleteMember(c, r)
    <2>1. /\ IsFiniteSet(members[r] \ {c})
          /\ Cardinality(members[r] \ {c}) = Cardinality(members[r]) - 1
      BY <1>3, FS_RemoveElement DEF DeleteMember, Membership
    <2>2. Cardinality(members[r]) \in Nat /\ limit[r] \in Int
      BY FS_CardinalityType DEF Membership, TypeOK
    <2>3. \A q \in Room : members'[q] = IF q = r THEN members[r] \ {c} ELSE members[q]
      BY <1>3 DEF DeleteMember, TypeOK
    <2>4. RoomsTyped'
      BY <1>3 DEF DeleteMember, TypeOK, RoomsTyped
    <2>5. ASSUME NEW q \in Room, InOrder(q)
          PROVE  InOrder(q)'
      BY <1>3, <2>1, <2>2, <2>3, <2>5 DEF DeleteMember, InOrder
    <2>6. Membership'
      BY <1>3, <2>1, <2>3, <2>5 DEF DeleteMember, Membership
    <2>7. QED
      BY <2>4, <2>6
  <1>4. CASE Deactivate(r)
    BY <1>4 DEF Deactivate, TypeOK, RoomsTyped, Membership, InOrder
  <1>5. QED
    BY <1>1, <1>2, <1>3, <1>4

\* A handler about rooms subscribes only the socket that asked, and tells it.
LEMMA RoomsStepKeeps ==
  ASSUME HubInv, NEW s \in Socket, NEW r \in Room, Rooms(s, r), ConnectionsInv'
  PROVE  HubInv'
  <1>1. UNCHANGED connections /\ UNCHANGED agentTable /\ Heard(s)
    BY DEF Rooms, CreateRoom, Join, Leave, Dissolve
  <1>2. who[s] \in Client
    BY <1>1 DEF HubInv, ConnectionsInv, Entries, Heard
  <1>3. Membership' /\ RoomsTyped'
    BY <1>2, RoomTablesKeep DEF HubInv, Rooms, CreateRoom, Join, Leave, Dissolve
  <1>4. TypeOK'
    BY <1>1, <1>3 DEF HubInv, TypeOK, RoomsTyped, ConnectionsInv, Rooms, CreateRoom, Join, Leave, Dissolve,
       Subscribe, agentTable
  <1>5. FeedsAreAlive'
    <2>1. CASE Subscribe(s, r)
      BY <1>1, <2>1 DEF HubInv, TypeOK, FeedsAreAlive, Subscribe, Heard, connections
    <2>2. CASE Leave(s, r) \/ Dissolve(s, r)
      BY <1>1, <2>2 DEF HubInv, TypeOK, FeedsAreAlive, Leave, Dissolve, Heard, connections
    <2>3. QED
      BY <2>1, <2>2 DEF Rooms, CreateRoom, Join
  <1>6. Unregistered' /\ OnlineMeansConnected'
    BY <1>1 DEF HubInv, Unregistered, OnlineMeansConnected, Heard, connections, agentTable
  <1>7. QED
    BY <1>3, <1>4, <1>5, <1>6 DEF HubInv

\* The HTTP routes write the same tables and nothing else.
LEMMA HttpRoomsStepKeeps ==
  ASSUME HubInv, NEW r \in Room, HttpRooms(r), ConnectionsInv'
  PROVE  HubInv'
  <1>1. UNCHANGED <<connections, feeds, agentTable>>
    BY DEF HttpRooms, HttpCreateRoom, HttpJoin, HttpLeave, HttpDissolve
  <1>2. Membership' /\ RoomsTyped'
    <2>1. ASSUME NEW c \in Client, InsertRoom(c, r) \/ InsertMember(c, r) \/ DeleteMember(c, r)
          PROVE  Membership' /\ RoomsTyped'
      BY <2>1, RoomTablesKeep DEF HubInv
    <2>2. CASE Deactivate(r)
      BY <2>2 DEF HubInv, Deactivate, TypeOK, RoomsTyped, Membership, InOrder
    <2>3. QED
      BY <2>1, <2>2 DEF HttpRooms, HttpCreateRoom, HttpJoin, HttpLeave, HttpDissolve
  <1>3. TypeOK'
    BY <1>1, <1>2 DEF HubInv, TypeOK, RoomsTyped, ConnectionsInv, feeds, agentTable
  <1>4. FeedsAreAlive' /\ Unregistered' /\ OnlineMeansConnected'
    BY <1>1 DEF HubInv, FeedsAreAlive, Unregistered, OnlineMeansConnected, Heard, connections,
       feeds, agentTable
  <1>5. QED
    BY <1>2, <1>3, <1>4 DEF HubInv

-----------------------------------------------------------------------------
\* Steps that change the agents' table only: an agent that is online or busy
\* after one was so before, or it spoke on a connection of its client.
LEMMA AgentsTableKeeps ==
  ASSUME HubInv, UNCHANGED <<connections, feeds, roomTables>>,
         agentRoom' \in [Agent -> Room \cup {None}],
         agentStatus' \in [Agent -> {"online", "busy", "offline"}],
         fresh' \subseteq Agent,
         survivors' \subseteq Agent,
         \A a \in Agent : agentRoom'[a] = None => agentStatus'[a] = "offline",
         \A a \in Agent :
             agentStatus'[a] # "offline" =>
                 \/ agentStatus[a] # "offline" /\ (a \in survivors => a \in survivors')
                 \/ \E s \in clients : Heard(s) /\ who[s] = Owner[a]
  PROVE  HubInv'
  <1>1. ConnectionsInv' /\ FeedsAreAlive' /\ Membership' /\ Unregistered'
    BY SameConnectionsKeep
    DEF HubInv, connections, feeds, roomTables, FeedsAreAlive, Membership, InOrder, Unregistered,
        Heard
  <1>2. TypeOK'
    BY <1>1 DEF HubInv, TypeOK, ConnectionsInv, feeds, roomTables
  <1>3. OnlineMeansConnected'
    <2> SUFFICES ASSUME NEW a \in Agent, agentStatus'[a] # "offline"
                 PROVE  a \in survivors' \/ \E s \in clients : Heard(s) /\ who[s] = Owner[a]
      BY DEF OnlineMeansConnected, Heard, connections
    <2>1. QED
      BY DEF HubInv, OnlineMeansConnected
  <1>4. QED
    BY <1>1, <1>2, <1>3 DEF HubInv

\* What an agent says for itself.
LEMMA AgentsStepKeeps ==
  ASSUME HubInv, NEW s \in Socket, NEW a \in Agent, Agents(s, a)
  PROVE  HubInv'
  <1>1. s \in clients /\ Heard(s) /\ who[s] = Owner[a]
    BY DEF Agents, RegisterAgent, DeregisterAgent, Heartbeat, Heard
  <1>2. ASSUME NEW r \in Room, RegisterAgent(s, a, r)
        PROVE  HubInv'
    BY <1>1, <1>2, AgentsTableKeeps, HubAssumption
    DEF HubInv, TypeOK, Unregistered, RegisterAgent
  <1>3. CASE DeregisterAgent(s, a)
    BY <1>1, <1>3, AgentsTableKeeps DEF HubInv, TypeOK, Unregistered, DeregisterAgent
  <1>4. ASSUME NEW st \in {"online", "busy", "idle", "unsaid"}, Heartbeat(s, a, st)
        PROVE  HubInv'
    BY <1>1, <1>4, AgentsTableKeeps DEF HubInv, TypeOK, Unregistered, Heartbeat, Stored
  <1>5. QED
    BY <1>2, <1>3, <1>4 DEF Agents

\* Time and the check of the heartbeats.
LEMMA StaleStepKeeps ==
  ASSUME HubInv, CheckStale \/ \E a \in Agent : GoStale(a)
  PROVE  HubInv'
  <1>1. CASE CheckStale
    BY <1>1, AgentsTableKeeps DEF HubInv, TypeOK, Unregistered, CheckStale
  <1>2. ASSUME NEW a \in Agent, GoStale(a)
        PROVE  HubInv'
    BY <1>2, AgentsTableKeeps DEF HubInv, TypeOK, Unregistered, GoStale
  <1>3. QED
    BY <1>1, <1>2

\* The tables survive the process: whoever was online is a survivor, and a room
\* may have been left without its first member.
LEMMA RestartKeeps ==
  ASSUME HubInv, Restart \/ \E c \in Client, r \in Room : CreateRoomDies(c, r), ConnectionsInv'
  PROVE  HubInv'
  <1>1. Membership' /\ RoomsTyped'
    <2>1. CASE Restart
      BY <2>1 DEF HubInv, TypeOK, Restart, roomTables, Membership, InOrder, RoomsTyped
    <2>2. ASSUME NEW c \in Client, NEW r \in Room, CreateRoomDies(c, r)
          PROVE  Membership' /\ RoomsTyped'
      <3>1. PICK l \in Limits : InsertRow(c, r, l)
        BY <2>2 DEF CreateRoomDies
      <3>2. l \in Int
        BY HubAssumption
      <3>3. RoomsTyped'
        BY <2>2, <3>1, <3>2 DEF HubInv, TypeOK, CreateRoomDies, InsertRow, RoomsTyped
      <3>4. Membership'
        BY <2>2, <3>1 DEF HubInv, TypeOK, CreateRoomDies, InsertRow, Membership, InOrder
      <3>5. QED
        BY <3>3, <3>4
    <2>3. QED
      BY <2>1, <2>2
  <1>2. Restarted
    BY DEF Restart, CreateRoomDies
  <1>3. TypeOK'
    BY <1>1, <1>2 DEF HubInv, TypeOK, ConnectionsInv, Restarted, RoomsTyped
  <1>4. FeedsAreAlive' /\ Unregistered' /\ OnlineMeansConnected'
    BY <1>2 DEF HubInv, FeedsAreAlive, Unregistered, OnlineMeansConnected, Restarted
  <1>5. QED
    BY <1>1, <1>3, <1>4 DEF HubInv

-----------------------------------------------------------------------------
\* The invariant is inductive.
LEMMA HubInvStep == HubInv /\ [Next]_vars => HubInv'
  <1> SUFFICES ASSUME HubInv, [Next]_vars
               PROVE  HubInv'
    OBVIOUS
  <1>1. ConnectionsInv'
    BY NextKeepsConnections DEF HubInv
  <1>2. CASE \E s \in Socket : Connections(s)
    BY <1>1, <1>2, ConnectionsStepKeeps
  <1>3. CASE \E s \in Socket, r \in Room : Rooms(s, r)
    BY <1>1, <1>3, RoomsStepKeeps
  <1>4. CASE \E r \in Room : HttpRooms(r)
    BY <1>1, <1>4, HttpRoomsStepKeeps
  <1>5. CASE \E s \in Socket, a \in Agent : Agents(s, a)
    BY <1>5, AgentsStepKeeps
  <1>6. CASE CheckStale \/ \E a \in Agent : GoStale(a)
    BY <1>6, StaleStepKeeps
  <1>7. CASE Restart \/ \E c \in Client, r \in Room : CreateRoomDies(c, r)
    BY <1>1, <1>7, RestartKeeps
  <1>8. CASE UNCHANGED vars
    BY <1>8, AgentsTableKeeps DEF HubInv, TypeOK, Unregistered, vars, agentTable
  <1>9. QED
    BY <1>2, <1>3, <1>4, <1>5, <1>6, <1>7, <1>8 DEF Next

\* The hub only ever reaches states of the invariant.
LEMMA HubInvAlways == Spec => []HubInv
  BY HubInvInit, HubInvStep, PTL DEF Spec

\* Every table and map of the hub stays well typed.
THEOREM HubTypeCorrect == Spec => []TypeOK
  <1>1. HubInv => TypeOK
    BY DEF HubInv
  <1>2. QED
    BY <1>1, HubInvAlways, PTL

\* The reverse index never names a socket of somebody else or a closed one,
\* over reconnections, close events in any order and deaths of the process.
THEOREM IndexCorrect == Spec => []IndexSound
  <1>1. HubInv => IndexSound
    BY DEF HubInv, ConnectionsInv
  <1>2. QED
    BY <1>1, HubInvAlways, PTL

\* Broadcasts of a room go to open, authenticated sockets that know they are
\* subscribed, however rooms are joined, left and dissolved on them.
THEOREM FeedsCorrect == Spec => []FeedsAreAlive
  <1>1. HubInv => FeedsAreAlive
    BY DEF HubInv
  <1>2. QED
    BY <1>1, HubInvAlways, PTL

\* A room keeps its owner, once he is in it, and its limit, whatever was asked
\* for, over both ways in and out and wherever its creation dies.
THEOREM RoomsCorrect == Spec => []RoomsInOrder
  <1>1. HubInv => RoomsInOrder
    BY DEF HubInv, Membership, InOrder, RoomsInOrder
  <1>2. QED
    BY <1>1, HubInvAlways, PTL

\* An agent shown as online or busy has a connection of its client, unless it
\* was not heard of since the process died.
THEOREM OnlineCorrect == Spec => []OnlineMeansConnected
  <1>1. HubInv => OnlineMeansConnected
    BY DEF HubInv
  <1>2. QED
    BY <1>1, HubInvAlways, PTL
=============================================================================
