-------------------------------- MODULE Hub ---------------------------------
(***************************************************************************)
(* The WebSocket hub (ws-server.ts) without instant messages and tasks:    *)
(* connections and their authentication, collaboration rooms, the agents   *)
(* registered in them, and the tables behind these (db-rooms.ts).  The     *)
(* HTTP routes that write the same tables are actions too (hub-api.ts,     *)
(* routes/rooms.ts): they know nothing of the hub's maps.                  *)
(*                                                                         *)
(* A room is created by two INSERTs, and its limit is whatever the request *)
(* says.  Left out: names, passwords and visibility of rooms, the          *)
(* capabilities of agents, broadcasts (they change no state), and the      *)
(* refusal to dissolve a room with active tasks (a dissolution may simply  *)
(* not be asked for).                                                      *)
(***************************************************************************)
EXTENDS Connections, Integers

CONSTANTS Room,       \* room ids, each used once
          Agent,      \* agent ids, hashes of a client id and a workspace
          Owner,      \* the client whose id is hashed in the agent's
          Limits      \* bound: the limits rooms are created with, which nobody checks

ASSUME HubAssumption ==
    /\ None \notin Room
    /\ Owner \in [Agent -> Client]
    /\ Limits \subseteq Int

VARIABLES subscribers, \* the map rooms: the sockets a room's broadcasts go to
          subscribed,  \* subscribedRooms of each entry of clients
          active,      \* rooms.active, "none" before the row exists
          owner,       \* rooms.owner_id
          limit,       \* rooms.max_agents, 0 before the row exists
          members,     \* room_members
          halfMade,    \* history: rooms whose creation died before their owner was a member
          agentRoom,   \* agents.room_id, None before the row exists
          agentStatus, \* agents.status
          fresh,       \* agents whose last_heartbeat is within the threshold
          survivors    \* history: agents not heard of since the process died

feeds == <<subscribers, subscribed>>
roomTables == <<active, owner, limit, members, halfMade>>
agentTable == <<agentRoom, agentStatus, fresh, survivors>>
vars == <<connections, feeds, roomTables, agentTable>>

Init ==
    /\ NoConnections
    /\ subscribers = [r \in Room |-> {}]
    /\ subscribed = [s \in Socket |-> {}]
    /\ active = [r \in Room |-> "none"]
    /\ owner = [r \in Room |-> None]
    /\ limit = [r \in Room |-> 0]
    /\ members = [r \in Room |-> {}]
    /\ halfMade = {}
    /\ agentRoom = [a \in Agent |-> None]
    /\ agentStatus = [a \in Agent |-> "offline"]
    /\ fresh = {}
    /\ survivors = {}
-----------------------------------------------------------------------------
(* Connections *)

Connect(s) == Opened(s) /\ UNCHANGED <<feeds, roomTables, agentTable>>

ConnectWithCert(s, c) == OpenedWithCert(s, c) /\ UNCHANGED <<feeds, roomTables, agentTable>>

Auth(s, c) == Authenticated(s, c) /\ UNCHANGED <<feeds, roomTables, agentTable>>

Refuse(s) == Refused(s) /\ UNCHANGED <<feeds, roomTables, agentTable>>

\* Mutation: the closed socket stays in the rooms it was subscribed to.
DisconnectKeepsFeeds(s) ==
    /\ UNCHANGED subscribers
    /\ subscribed' = [subscribed EXCEPT ![s] = {}]
    /\ agentStatus' = [a \in Agent |->
                          IF agentRoom[a] # None /\ Owner[a] = who[s]
                          THEN "offline" ELSE agentStatus[a]]

\* Mutation: the agents of the client stay as they are.
DisconnectKeepsAgents(s) ==
    /\ subscribers' = [r \in Room |->
                          IF r \in subscribed[s] THEN subscribers[r] \ {s} ELSE subscribers[r]]
    /\ subscribed' = [subscribed EXCEPT ![s] = {}]
    /\ UNCHANGED agentStatus

\* handleDisconnect: the subscriptions of the socket and every agent of its
\* client, whichever connections the client still has.
Disconnect(s) ==
    /\ subscribers' = [r \in Room |->
                          IF r \in subscribed[s] THEN subscribers[r] \ {s} ELSE subscribers[r]]
    /\ subscribed' = [subscribed EXCEPT ![s] = {}]
    /\ agentStatus' = [a \in Agent |->
                          IF agentRoom[a] # None /\ Owner[a] = who[s]
                          THEN "offline" ELSE agentStatus[a]]

Close(s) ==
    /\ Closed(s)
    /\ Disconnect(s)
    /\ UNCHANGED <<roomTables, agentRoom, fresh, survivors>>

CloseUnheard(s) == ClosedUnheard(s) /\ UNCHANGED <<feeds, roomTables, agentTable>>
-----------------------------------------------------------------------------
(* Rooms.  Each table operation has a WebSocket handler, which also keeps   *)
(* the subscriptions, and HTTP routes, which do not.                        *)

InsertRow(c, r, l) ==
    /\ active[r] = "none"
    /\ active' = [active EXCEPT ![r] = "yes"]
    /\ owner' = [owner EXCEPT ![r] = c]
    /\ limit' = [limit EXCEPT ![r] = l]

\* createRoom: the room, then its first member, whatever the limit.
InsertRoom(c, r) ==
    /\ \E l \in Limits : InsertRow(c, r, l)
    /\ members' = [members EXCEPT ![r] = {c}]
    /\ UNCHANGED halfMade

\* Mutation: one member too many.
InsertMemberOver(c, r) ==
    /\ active[r] = "yes"
    /\ c \in members[r] \/ Cardinality(members[r]) <= limit[r]
    /\ members' = [members EXCEPT ![r] = @ \cup {c}]
    /\ halfMade' = IF c = owner[r] THEN halfMade \ {r} ELSE halfMade
    /\ UNCHANGED <<active, owner, limit>>

InsertMember(c, r) ==
    /\ active[r] = "yes"
    /\ c \in members[r] \/ Cardinality(members[r]) < limit[r]
    /\ members' = [members EXCEPT ![r] = @ \cup {c}]
    /\ halfMade' = IF c = owner[r] THEN halfMade \ {r} ELSE halfMade
    /\ UNCHANGED <<active, owner, limit>>

DeleteMember(c, r) ==
    /\ owner[r] # c
    /\ c \in members[r]
    /\ members' = [members EXCEPT ![r] = @ \ {c}]
    /\ UNCHANGED <<active, owner, limit, halfMade>>

Deactivate(r) ==
    /\ active[r] # "none"
    /\ active' = [active EXCEPT ![r] = "no"]
    /\ UNCHANGED <<owner, limit, members, halfMade>>

Subscribe(s, r) ==
    /\ subscribed' = [subscribed EXCEPT ![s] = @ \cup {r}]
    /\ subscribers' = [subscribers EXCEPT ![r] = @ \cup {s}]

CreateRoom(s, r) ==
    /\ Heard(s)
    /\ InsertRoom(who[s], r)
    /\ Subscribe(s, r)
    /\ UNCHANGED <<connections, agentTable>>

Join(s, r) ==
    /\ Heard(s)
    /\ InsertMember(who[s], r)
    /\ Subscribe(s, r)
    /\ UNCHANGED <<connections, agentTable>>

Leave(s, r) ==
    /\ Heard(s)
    /\ DeleteMember(who[s], r)
    /\ subscribed' = [subscribed EXCEPT ![s] = @ \ {r}]
    /\ subscribers' = [subscribers EXCEPT ![r] = @ \ {s}]
    /\ UNCHANGED <<connections, agentTable>>

\* The room's entry goes, the subscribedRooms of its sockets keep it.
Dissolve(s, r) ==
    /\ Heard(s)
    /\ who[s] = owner[r]
    /\ Deactivate(r)
    /\ subscribers' = [subscribers EXCEPT ![r] = {}]
    /\ UNCHANGED <<connections, subscribed, agentTable>>

HttpCreateRoom(c, r) == InsertRoom(c, r) /\ UNCHANGED <<connections, feeds, agentTable>>

HttpJoin(c, r) == InsertMember(c, r) /\ UNCHANGED <<connections, feeds, agentTable>>

HttpLeave(c, r) == DeleteMember(c, r) /\ UNCHANGED <<connections, feeds, agentTable>>

\* By the owner, or by the dashboard, which asks nothing.
HttpDissolve(r) == Deactivate(r) /\ UNCHANGED <<connections, feeds, agentTable>>
-----------------------------------------------------------------------------
(* Agents *)

\* The upsert moves an agent that was registered in another room.  A room that
\* was dissolved still has its members.
RegisterAgent(s, a, r) ==
    /\ Heard(s)
    /\ who[s] = Owner[a]
    /\ who[s] \in members[r]
    /\ agentRoom' = [agentRoom EXCEPT ![a] = r]
    /\ agentStatus' = [agentStatus EXCEPT ![a] = "online"]
    /\ fresh' = fresh \cup {a}
    /\ survivors' = survivors \ {a}
    /\ UNCHANGED <<connections, feeds, roomTables>>

DeregisterAgent(s, a) ==
    /\ Heard(s)
    /\ agentRoom[a] # None /\ who[s] = Owner[a]
    /\ agentStatus' = [agentStatus EXCEPT ![a] = "offline"]
    /\ UNCHANGED <<connections, feeds, roomTables, agentRoom, fresh, survivors>>

\* Mutation: the client's "idle" is stored as it is.
StoredIdle(st, old) == IF st = "unsaid" THEN old ELSE st

\* A heartbeat comes with a status, "idle" counting as online, or without.
Stored(st, old) ==
    CASE st = "unsaid" -> old
      [] st = "idle"   -> "online"
      [] OTHER         -> st

Heartbeat(s, a, st) ==
    /\ Heard(s)
    /\ agentRoom[a] # None /\ who[s] = Owner[a]
    /\ fresh' = fresh \cup {a}
    /\ agentStatus' = [agentStatus EXCEPT ![a] = Stored(st, @)]
    /\ survivors' = survivors \ {a}
    /\ UNCHANGED <<connections, feeds, roomTables, agentRoom>>

\* 90 s pass since the agent's last heartbeat.
GoStale(a) ==
    /\ a \in fresh
    /\ fresh' = fresh \ {a}
    /\ UNCHANGED <<connections, feeds, roomTables, agentRoom, agentStatus, survivors>>

\* Mutation: only agents that are online are looked at, not the busy ones.
CheckStaleOnline ==
    /\ agentStatus' = [a \in Agent |->
                          IF a \notin fresh /\ agentStatus[a] = "online"
                          THEN "offline" ELSE agentStatus[a]]
    /\ UNCHANGED <<connections, feeds, roomTables, agentRoom, fresh, survivors>>

\* checkStaleAgents, every minute.
CheckStale ==
    /\ agentStatus' = [a \in Agent |-> IF a \in fresh THEN agentStatus[a] ELSE "offline"]
    /\ UNCHANGED <<connections, feeds, roomTables, agentRoom, fresh, survivors>>
-----------------------------------------------------------------------------
\* The process dies and starts again: the tables survive.
Restarted ==
    /\ AllLost
    /\ subscribers' = [r \in Room |-> {}]
    /\ subscribed' = [s \in Socket |-> {}]
    /\ survivors' = {a \in Agent : agentStatus[a] # "offline"}
    /\ UNCHANGED <<agentRoom, agentStatus, fresh>>

Restart == Restarted /\ UNCHANGED roomTables

\* It dies between the two INSERTs of createRoom: the room is there, its owner
\* is not in it, and may join it like anybody else.
CreateRoomDies(c, r) ==
    /\ Restarted
    /\ \E l \in Limits : InsertRow(c, r, l)
    /\ halfMade' = halfMade \cup {r}
    /\ UNCHANGED members

Connections(s) ==
    \/ Connect(s)
    \/ \E c \in Client : ConnectWithCert(s, c)
    \/ \E c \in Client : Auth(s, c)
    \/ Refuse(s)
    \/ Close(s)
    \/ CloseUnheard(s)

Rooms(s, r) ==
    \/ CreateRoom(s, r)
    \/ Join(s, r)
    \/ Leave(s, r)
    \/ Dissolve(s, r)

HttpRooms(r) ==
    \/ \E c \in Client : HttpCreateRoom(c, r)
    \/ \E c \in Client : HttpJoin(c, r)
    \/ \E c \in Client : HttpLeave(c, r)
    \/ HttpDissolve(r)

Agents(s, a) ==
    \/ \E r \in Room : RegisterAgent(s, a, r)
    \/ DeregisterAgent(s, a)
    \/ \E st \in {"online", "busy", "idle", "unsaid"} : Heartbeat(s, a, st)

Next ==
    \/ \E s \in Socket : Connections(s)
    \/ \E s \in Socket, r \in Room : Rooms(s, r)
    \/ \E r \in Room : HttpRooms(r)
    \/ \E s \in Socket, a \in Agent : Agents(s, a)
    \/ \E a \in Agent : GoStale(a)
    \/ CheckStale
    \/ Restart
    \/ \E c \in Client, r \in Room : CreateRoomDies(c, r)

Spec == Init /\ [][Next]_vars

\* Time passes, and setInterval runs the check.
FairSpec == Spec /\ (\A a \in Agent : WF_vars(GoStale(a))) /\ WF_vars(CheckStale)
-----------------------------------------------------------------------------
(* Properties *)

\* Every table and map is well typed.
TypeOK ==
    /\ ConnectionsOK
    /\ subscribers \in [Room -> SUBSET Socket]
    /\ subscribed \in [Socket -> SUBSET Room]
    /\ active \in [Room -> {"none", "yes", "no"}]
    /\ owner \in [Room -> Client \cup {None}]
    /\ limit \in [Room -> Int]
    /\ members \in [Room -> SUBSET Client]
    /\ halfMade \subseteq Room
    /\ agentRoom \in [Agent -> Room \cup {None}]
    /\ agentStatus \in [Agent -> {"online", "busy", "offline"}]
    /\ fresh \subseteq Agent
    /\ survivors \subseteq Agent

\* A room's broadcasts go to sockets that are open and authenticated, and each
\* of them knows it is subscribed, so that its close event takes it out: no
\* socket is left behind by dissolutions, departures or joining again.
FeedsAreAlive ==
    \A r \in Room : \A s \in subscribers[r] : Heard(s) /\ r \in subscribed[s]

\* A room's owner is one of its members, unless the process died while the room
\* was created and he has not joined since; and there are never more members
\* than the limit says, the owner by himself excepted: by whichever of the two
\* ways clients join and leave, and whatever limit was asked for.
RoomsInOrder ==
    \A r \in Room : active[r] # "none" =>
        /\ owner[r] \in members[r] \/ r \in halfMade
        /\ Cardinality(members[r]) <= limit[r] \/ members[r] \subseteq {owner[r]}

\* An agent that is not offline, and was heard of since the process last died,
\* has a connection of its client to hear from: several connections of one
\* client closing in any order included.
OnlineMeansConnected ==
    \A a \in Agent :
        agentStatus[a] # "offline" =>
            a \in survivors \/ \E s \in clients : Heard(s) /\ who[s] = Owner[a]

\* If a client is gone for good, its agents are eventually offline for good,
\* also when the server lost its connection by dying itself.
GoneMeansOffline ==
    \A a \in Agent :
        <>[](\A s \in Socket : Heard(s) => who[s] # Owner[a]) => <>[](agentStatus[a] = "offline")
=============================================================================
