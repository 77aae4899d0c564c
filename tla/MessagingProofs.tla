--------------------------- MODULE MessagingProofs ---------------------------
(***************************************************************************)
(* Proofs about the instant messages of a room: for every number of        *)
(* clients, connections and messages and every size of a page.             *)
(***************************************************************************)
EXTENDS Messaging, ConnectionsProofs, FiniteSetTheorems, WellFoundedInduction

-----------------------------------------------------------------------------
(* Minima and maxima *)

\* A set of numbers that is not empty has a least one.
LEMMA LeastExists ==
  ASSUME NEW S \in SUBSET Nat, S # {}
  PROVE  \E x \in S : \A y \in S : x <= y
  <1> DEFINE R == {p \in Nat \X Nat : p[1] < p[2]}
  <1>1. IsWellFoundedOn(R, Nat)
    BY NatLessThanWellFounded DEF OpToRel
  <1>2. PICK x \in S : \A y \in S : <<y, x>> \notin R
    <2> HIDE DEF R
    <2>1. QED
      BY <1>1, WFMin
  <1>3. ASSUME NEW y \in S
        PROVE  x <= y
    <2>1. <<y, x>> \in Nat \X Nat /\ <<y, x>>[1] = y /\ <<y, x>>[2] = x
      OBVIOUS
    <2>2. ~(y < x)
      BY <1>2, <2>1
    <2>3. QED
      BY <2>2
  <1>4. QED
    BY <1>3

\* A set of numbers up to a bound that is not empty has a maximum.
LEMMA MaxOfBounded ==
  ASSUME NEW n \in Nat, NEW S \in SUBSET (0..n), S # {}
  PROVE  Max(S) \in S /\ \A y \in S : Max(S) >= y
  <1> DEFINE T == {n - y : y \in S}
  <1>1. T \in SUBSET Nat /\ T # {}
    <2>1. \A y \in S : y \in 0..n /\ n - y \in Nat
      OBVIOUS
    <2>2. QED
      BY <2>1
  <1>2. PICK x \in T : \A y \in T : x <= y
    BY <1>1, LeastExists
  <1>3. PICK z \in S : x = n - z
    BY <1>2
  <1>4. \A y \in S : z >= y
    BY <1>2, <1>3
  <1>5. QED
    BY <1>4 DEF Max

\* The minimum of two numbers.
LEMMA MinOfTwo ==
  ASSUME NEW i \in Nat, NEW j \in Nat
  PROVE  Min({i, j}) = IF i <= j THEN i ELSE j
  BY DEF Min

-----------------------------------------------------------------------------
(* Invariants *)

\* The server has not seen the close event of a connection that is lost.
LostAreOpen == \A s \in lost : Open(s)

\* A client that is fetching messages, or has fetched them all.
Tracked(c) == cursor[c] # 0 \/ c \in synced

\* The connection a client uses is open, authenticated and its own.
UsesLive ==
    \A c \in Client : using[c] # None =>
        Open(using[c]) /\ using[c] \notin lost /\ using[c] \in clients /\ who[using[c]] = c

\* A client that uses a connection and is a member, or will be again as soon as
\* the index finds it.
Kept(c) == using[c] # None /\ (c \in reach \/ (c \in listed /\ index[c] = None))

TrackedKept == \A c \in Client : Tracked(c) => Kept(c)

\* Another message has the timestamp of m.
Tied(m) == \E n \in Stored : n # m /\ store[n] = store[m]

\* Fetching is all that can still bring the client the message.
Lacks(c, m) == m \notin held[c] /\ m \notin missed[c] /\ store[m] > 0

\* What a tracked client lacks is still ahead of its cursor, unless another
\* message has the same timestamp.
Ahead ==
    \A c \in Client, m \in Stored :
        Tracked(c) /\ Lacks(c, m) =>
            \/ store[m] > cursor[c] /\ c \notin synced
            \/ Tied(m)

\* The inductive invariant.
MessagingInv ==
    /\ TypeOK
    /\ ConnectionsInv
    /\ MembersReached
    /\ IsFiniteSet(Stored)
    /\ LostAreOpen
    /\ UsesLive
    /\ TrackedKept
    /\ Ahead

\* Nothing is connected or stored.
LEMMA MessagingInvInit == Init => MessagingInv
  <1> SUFFICES ASSUME Init
               PROVE  MessagingInv
    OBVIOUS
  <1>1. ConnectionsInv
    BY NoConnectionsInv DEF Init
  <1>2. TypeOK
    BY <1>1, MessagingAssumption DEF Init, TypeOK, ConnectionsInv
  <1>3. Stored = {}
    BY DEF Init, Stored
  <1>4. IsFiniteSet(Stored)
    BY <1>3, FS_EmptySet
  <1>5. MembersReached /\ LostAreOpen /\ UsesLive /\ TrackedKept /\ Ahead
    BY <1>3 DEF Init, MembersReached, LostAreOpen, UsesLive, TrackedKept, Tracked, Ahead
  <1>6. QED
    BY <1>1, <1>2, <1>4, <1>5 DEF MessagingInv

-----------------------------------------------------------------------------
(* Pages *)

\* A stored message has a timestamp.
LEMMA StoredTyped ==
  ASSUME TypeOK, NEW m \in Stored
  PROVE  m \in Message /\ store[m] \in Stamp /\ store[m] \in Int /\ store[m] <= MaxStamp
  BY MessagingAssumption DEF TypeOK, Stored, Stamp

\* A page that is not full holds everything later than the cursor; a full one
\* is not empty.
LEMMA PageFull ==
  ASSUME TypeOK, IsFiniteSet(Stored), NEW after \in Nat, NEW p \in Pages(after)
  PROVE  /\ p \subseteq {m \in Stored : store[m] > after}
         /\ Cardinality(p) < Limit => p = {m \in Stored : store[m] > after}
         /\ Cardinality(p) >= Limit => p # {}
         /\ Cardinality(p) \in Nat
  <1> DEFINE later == {m \in Stored : store[m] > after}
  <1>1. p \subseteq later /\ Cardinality(p) = Min({Limit, Cardinality(later)})
    BY DEF Pages
  <1>2. IsFiniteSet(later) /\ Cardinality(later) \in Nat
    BY FS_Subset, FS_CardinalityType
  <1>3. Cardinality(p) = IF Limit <= Cardinality(later) THEN Limit ELSE Cardinality(later)
    BY <1>1, <1>2, MinOfTwo, MessagingAssumption
  <1>4. Cardinality(p) < Limit => p = later
    <2> HIDE DEF later
    <2>1. QED
      BY <1>1, <1>2, <1>3, FS_Subset, MessagingAssumption
  <1>5. Cardinality(p) >= Limit => p # {}
    BY FS_EmptySet, MessagingAssumption
  <1>6. QED
    BY <1>1, <1>2, <1>3, <1>4, <1>5, MessagingAssumption

\* The cursor after a page is the latest timestamp of the page, or the old one
\* if the page is empty; what a full page leaves out is not earlier.
LEMMA PageCursor ==
  ASSUME TypeOK, NEW after \in 0..MaxStamp, NEW p \in Pages(after)
  PROVE  /\ LastStamp(p, after) \in 0..MaxStamp
         /\ \A m \in p : store[m] <= LastStamp(p, after)
         /\ LastStamp(p, after) = after \/ \E m \in p : store[m] = LastStamp(p, after)
         /\ p # {} => \E m \in p : store[m] = LastStamp(p, after)
  <1> DEFINE S == {after} \cup {store[m] : m \in p}
  <1>1. p \subseteq Stored /\ \A m \in p : store[m] > after
    BY DEF Pages
  <1>2. \A m \in p : store[m] \in 0..MaxStamp
    BY <1>1, StoredTyped, MessagingAssumption
  <1>3. S \in SUBSET (0..MaxStamp) /\ S # {} /\ MaxStamp \in Nat
    BY <1>2, MessagingAssumption
  <1>4. Max(S) \in S /\ \A y \in S : Max(S) >= y
    <2> HIDE DEF S
    <2>1. QED
      BY <1>3, MaxOfBounded
  <1>5. LastStamp(p, after) = Max(S)
    BY DEF LastStamp
  <1> HIDE DEF S
  <1>6. Max(S) = after \/ \E m \in p : store[m] = Max(S)
    BY <1>4 DEF S
  <1>7. \A m \in p : store[m] <= Max(S)
    BY <1>2, <1>3, <1>4, MessagingAssumption DEF S
  <1>8. ASSUME p # {}
        PROVE  Max(S) # after
    BY <1>1, <1>2, <1>3, <1>7, <1>8, MessagingAssumption
  <1>9. QED
    BY <1>3, <1>4, <1>5, <1>6, <1>7, <1>8

-----------------------------------------------------------------------------
(* Steps on connections *)

\* Every handler does one of the operations of Connections, or leaves the
\* connections alone.
LEMMA StepOfConnections == [Next]_vars => [ConnectionsNext]_connections
  <1> SUFFICES ASSUME [Next]_vars
               PROVE  [ConnectionsNext]_connections
    OBVIOUS
  <1>1. ASSUME NEW s \in Socket, Connection(s)
        PROVE  ConnectionStep(s) \/ UNCHANGED connections
    BY <1>1 DEF Connection, Connect, ConnectWithCert, Auth, Refuse, Lose, Close, CloseUnheard,
       ConnectionStep
  <1>2. ASSUME NEW s \in Socket, Handler(s)
        PROVE  UNCHANGED connections
    BY <1>2 DEF Handler, Send, Sync, RoomUpdated, RoomDissolved
  <1>3. CASE Restart
    BY <1>3 DEF Restart, ConnectionsNext
  <1>4. CASE \E cutoff \in 1..MaxStamp : DeleteOld(cutoff)
    BY <1>4 DEF DeleteOld
  <1>5. CASE UNCHANGED vars
    BY <1>5 DEF vars
  <1>6. QED
    BY <1>1, <1>2, <1>3, <1>4, <1>5 DEF Next, ConnectionsNext

\* The connections of instant messages behave as the connections by themselves.
THEOREM MessagingImplementsConnections == Spec => ConnectionsSpec
  <1>1. Init => NoConnections
    BY DEF Init
  <1>2. QED
    BY <1>1, StepOfConnections, PTL DEF Spec, ConnectionsSpec

\* The two maps of connections stay sound.
LEMMA NextKeepsConnections == ConnectionsInv /\ [Next]_vars => ConnectionsInv'
  BY StepOfConnections, ConnectionsNextKeeps

\* Steps that store nothing and deliver nothing, and interrupt some clients:
\* the others go on as they were.
LEMMA InterruptKeeps ==
  ASSUME MessagingInv, ConnectionsInv', UNCHANGED <<store, held>>,
         reach' \subseteq Client, listed' \subseteq Client, lost' \subseteq Socket,
         using' \in [Client -> Socket \cup {None}],
         NEW cs \in SUBSET Client, Interrupted(cs),
         LostAreOpen', UsesLive', MembersReached',
         \A c \in Client \ cs : Kept(c) => Kept(c)'
  PROVE  MessagingInv'
  <1>1. /\ cursor' \in [Client -> 0..MaxStamp]
        /\ synced' \subseteq Client
        /\ missed' \in [Client -> SUBSET Message]
    BY MessagingAssumption DEF MessagingInv, TypeOK, Interrupted
  <1>2. TypeOK'
    BY <1>1 DEF MessagingInv, TypeOK, ConnectionsInv
  <1>3. \A c \in Client : Tracked(c)' =>
            /\ Tracked(c) /\ c \notin cs
            /\ cursor'[c] = cursor[c] /\ (c \in synced' <=> c \in synced) /\ missed'[c] = missed[c]
    BY DEF MessagingInv, TypeOK, Interrupted, Tracked
  <1>4. TrackedKept'
    BY <1>3 DEF MessagingInv, TrackedKept
  <1>5. Stored' = Stored
    BY DEF Stored
  <1>6. Ahead'
    BY <1>3, <1>5 DEF MessagingInv, Ahead, Lacks, Tied
  <1>7. QED
    BY <1>2, <1>4, <1>5, <1>6 DEF MessagingInv

\* A connection is gone, and its close event has come or not.
LEMMA GoneKeeps ==
  ASSUME MessagingInv, NEW s \in Socket, NEW unlisted \in SUBSET Client, Gone(s, unlisted),
         link' \in {link, [link EXCEPT ![s] = "closed"]}, lost' \in {lost \ {s}, lost \cup {s}},
         link' = link => Open(s),
         lost' = lost \cup {s} => link' = link,
         \A t \in Socket \ {s} : t \in clients => t \in clients' /\ who'[t] = who[t]
  PROVE  /\ using' \in [Client -> Socket \cup {None}]
         /\ \A c \in Client \ (UsersOf(s) \cup unlisted) : using'[c] = using[c]
         /\ LostAreOpen' /\ UsesLive'
         /\ UsersOf(s) \cup unlisted \in SUBSET Client
         /\ Interrupted(UsersOf(s) \cup unlisted)
  <1> USE DEF MessagingInv, TypeOK, ConnectionsOK
  <1>1. using' \in [Client -> Socket \cup {None}]
    BY DEF Gone
  <1>2. \A c \in Client : using'[c] = IF using[c] = s THEN None ELSE using[c]
    BY DEF Gone
  <1>3. \A c \in Client \ (UsersOf(s) \cup unlisted) : using'[c] = using[c]
    BY <1>2 DEF UsersOf
  <1>4. \A t \in Socket \ {s} : Open(t) => Open(t)'
    BY DEF Open
  <1>5. LostAreOpen'
    BY <1>4 DEF LostAreOpen, Open
  <1>6. UsesLive'
    <2> SUFFICES ASSUME NEW c \in Client, using'[c] # None
                 PROVE  /\ Open(using[c])' /\ using[c] \notin lost'
                        /\ using[c] \in clients' /\ who'[using[c]] = c /\ using'[c] = using[c]
      BY <1>2 DEF UsesLive, Open
    <2>1. using[c] # s /\ using[c] \in Socket /\ using'[c] = using[c]
      BY <1>2
    <2>2. Open(using[c]) /\ using[c] \notin lost /\ using[c] \in clients /\ who[using[c]] = c
      BY <2>1, ConnectionsAssumption DEF UsesLive
    <2>3. QED
      BY <1>4, <2>1, <2>2 DEF Open
  <1>7. QED
    BY <1>1, <1>3, <1>5, <1>6 DEF Gone, UsersOf

\* A connection is authenticated: its client uses it, unless it is lost.
LEMMA EnteredKeeps ==
  ASSUME MessagingInv, ConnectionsInv', NEW s \in Socket, NEW c \in Client, s \notin clients, Enter(s, c),
         Invited(c), Open(s)',
         \A t \in Socket : Open(t) => Open(t)',
         using' = IF s \in lost THEN using ELSE [using EXCEPT ![c] = s],
         UNCHANGED <<listed, store, lost, held, cursor, synced, missed>>
  PROVE  MessagingInv'
  <1> USE DEF MessagingInv, TypeOK, ConnectionsOK
  <1>1. reach' \subseteq Client /\ reach \subseteq reach' /\ (c \in listed => listed \subseteq reach')
    BY DEF Invited
  <1>2. Interrupted({})
    BY DEF Interrupted
  <1>3. \A d \in Client : using'[d] = IF d = c /\ s \notin lost THEN s ELSE using[d]
    OBVIOUS
  <1>4. LostAreOpen'
    BY DEF LostAreOpen
  <1>5. UsesLive'
    <2> SUFFICES ASSUME NEW d \in Client, using'[d] # None
                 PROVE  /\ Open(using[d])' /\ using'[d] \notin lost
                        /\ using'[d] \in clients' /\ who'[using'[d]] = d
      BY DEF UsesLive, Open
    <2>1. CASE d = c /\ s \notin lost
      <3>1. using'[d] = s
        BY <1>3, <2>1
      <3>2. s \in clients' /\ who'[s] = c
        BY DEF Enter
      <3>3. QED
        BY <2>1, <3>1, <3>2 DEF Open
    <2>2. CASE ~(d = c /\ s \notin lost)
      <3>1. using'[d] = using[d] /\ using[d] \in Socket
        BY <1>3, <2>2
      <3>2. Open(using[d]) /\ using[d] \notin lost /\ using[d] \in clients /\ who[using[d]] = d
        BY <3>1, ConnectionsAssumption DEF UsesLive
      <3>3. using[d] # s /\ who'[using[d]] = who[using[d]] /\ using[d] \in clients'
        BY <3>1, <3>2 DEF Enter
      <3>4. QED
        BY <3>1, <3>2, <3>3 DEF Open
    <2>3. QED
      BY <2>1, <2>2
  <1>6. MembersReached'
    BY <1>1 DEF Enter, MembersReached
  <1>7. \A d \in Client : Kept(d) => Kept(d)'
    BY <1>1, <1>3, ConnectionsAssumption DEF Enter, Kept
  <1>8. using' \in [Client -> Socket \cup {None}]
    OBVIOUS
  <1>9. QED
    BY <1>1, <1>2, <1>4, <1>5, <1>6, <1>7, <1>8, InterruptKeeps

\* What happens to the connections themselves.
LEMMA ConnectionKeepsMessages ==
  ASSUME MessagingInv, NEW s \in Socket, Connection(s), ConnectionsInv'
  PROVE  MessagingInv'
  <1> USE DEF MessagingInv, TypeOK, ConnectionsOK
  <1>1. CASE Connect(s) \/ Refuse(s)
    <2>1. /\ UNCHANGED <<clients, who, index, room, using, held, cursor, synced, missed>>
          /\ lost' \subseteq lost /\ s \notin clients
          /\ \A t \in Socket \ {s} : Open(t) => Open(t)'
      BY <1>1 DEF Connect, Opened, Refuse, Refused, ConnectionsInv, Entries, Open, client
    <2>2. Interrupted({})
      BY <2>1 DEF Interrupted
    <2>3. LostAreOpen'
      BY <1>1, <2>1 DEF LostAreOpen, Connect, Opened, Refuse, Refused, Open, client
    <2>4. UsesLive'
      <3> SUFFICES ASSUME NEW c \in Client, using[c] # None
                   PROVE  Open(using[c])' /\ using[c] \notin lost'
                          /\ using[c] \in clients /\ who[using[c]] = c
        BY <2>1 DEF UsesLive, Open
      <3>1. Open(using[c]) /\ using[c] \notin lost /\ using[c] \in clients /\ who[using[c]] = c
        BY DEF UsesLive
      <3>2. QED
        BY <2>1, <3>1
    <2>5. MembersReached' /\ \A c \in Client : Kept(c) => Kept(c)'
      BY <2>1 DEF MembersReached, Kept, room
    <2>6. QED
      BY <2>1, <2>2, <2>3, <2>4, <2>5, InterruptKeeps DEF room
  <1>2. ASSUME NEW c \in Client, ConnectWithCert(s, c)
        PROVE  MessagingInv'
    <2>1. s \notin clients /\ s \notin lost
      BY <1>2 DEF ConnectWithCert, OpenedWithCert, ConnectionsInv, Entries, LostAreOpen, Open
    <2>2. Open(s)' /\ \A t \in Socket : Open(t) => Open(t)'
      BY <1>2 DEF ConnectWithCert, OpenedWithCert, Open
    <2>3. QED
      BY <1>2, <2>1, <2>2, EnteredKeeps DEF ConnectWithCert, OpenedWithCert
  <1>3. ASSUME NEW c \in Client, Auth(s, c)
        PROVE  MessagingInv'
    <2>1. Open(s)' /\ \A t \in Socket : Open(t) => Open(t)'
      BY <1>3 DEF Auth, Authenticated, Open
    <2>2. QED
      BY <1>3, <2>1, EnteredKeeps DEF Auth, Authenticated
  <1>4. CASE Lose(s)
    <2> DEFINE cs == UsersOf(s) \cup {}
    <2>1. /\ using' \in [Client -> Socket \cup {None}]
          /\ \A c \in Client \ cs : using'[c] = using[c]
          /\ LostAreOpen' /\ UsesLive' /\ cs \in SUBSET Client /\ Interrupted(cs)
      BY <1>4, GoneKeeps DEF Lose, connections
    <2>2. MembersReached' /\ \A c \in Client \ cs : Kept(c) => Kept(c)'
      BY <1>4, <2>1 DEF Lose, MembersReached, Kept, connections, room
    <2>3. reach' \subseteq Client /\ listed' \subseteq Client /\ lost' \subseteq Socket
          /\ UNCHANGED <<store, held>>
      BY <1>4 DEF Lose, room
    <2> HIDE DEF cs
    <2>4. QED
      BY <2>1, <2>2, <2>3, InterruptKeeps
  <1>5. CASE Close(s)
    <2> DEFINE cs == UsersOf(s) \cup ({who[s]} \ listed)
    <2>1. s \in clients /\ who[s] \in Client
      BY <1>5 DEF Close, Closed, Heard, ConnectionsInv, Entries
    <2>2. \A t \in Socket \ {s} : t \in clients => t \in clients' /\ who'[t] = who[t]
      BY <1>5 DEF Close, Closed, Forget
    <2>3. /\ Gone(s, {who[s]} \ listed) /\ {who[s]} \ listed \in SUBSET Client
          /\ link' = [link EXCEPT ![s] = "closed"] /\ lost' = lost \ {s}
      BY <1>5, <2>1 DEF Close, Closed
    <2>4. link' # link /\ lost' # lost \cup {s}
      BY <1>5, <2>3 DEF Close, Closed, Heard
    <2>5. /\ using' \in [Client -> Socket \cup {None}]
          /\ \A c \in Client \ cs : using'[c] = using[c]
          /\ LostAreOpen' /\ UsesLive' /\ cs \in SUBSET Client /\ Interrupted(cs)
      BY <2>2, <2>3, <2>4, GoneKeeps
    <2>6. index' = [index EXCEPT ![who[s]] = None] /\ reach' = reach \ {who[s]}
          /\ UNCHANGED <<listed, store, held>>
      BY <1>5 DEF Close, Closed, Forget
    <2>7. MembersReached'
      BY <2>1, <2>6 DEF MembersReached
    <2>8. \A c \in Client \ cs : Kept(c) => Kept(c)'
      BY <2>1, <2>5, <2>6 DEF Kept
    <2>9. reach' \subseteq Client /\ listed' \subseteq Client /\ lost' \subseteq Socket
      BY <2>3, <2>6
    <2> HIDE DEF cs
    <2>10. QED
      BY <2>5, <2>6, <2>7, <2>8, <2>9, InterruptKeeps
  <1>6. CASE CloseUnheard(s)
    <2> DEFINE cs == UsersOf(s) \cup {}
    <2>1. /\ Gone(s, {}) /\ link' = [link EXCEPT ![s] = "closed"] /\ lost' = lost \ {s}
          /\ link[s] = "certified" /\ UNCHANGED <<clients, who, index, room, held>>
      BY <1>6 DEF CloseUnheard, ClosedUnheard
    <2>2. link' # link /\ lost' # lost \cup {s}
      BY <2>1
    <2>3. /\ using' \in [Client -> Socket \cup {None}]
          /\ \A c \in Client \ cs : using'[c] = using[c]
          /\ LostAreOpen' /\ UsesLive' /\ cs \in SUBSET Client /\ Interrupted(cs)
      BY <2>1, <2>2, GoneKeeps
    <2>4. MembersReached' /\ \A c \in Client \ cs : Kept(c) => Kept(c)'
      BY <2>1, <2>3 DEF MembersReached, Kept, room
    <2>5. reach' \subseteq Client /\ listed' \subseteq Client /\ lost' \subseteq Socket
          /\ UNCHANGED <<store, held>>
      BY <2>1 DEF room
    <2> HIDE DEF cs
    <2>6. QED
      BY <2>3, <2>4, <2>5, InterruptKeeps
  <1>7. QED
    BY <1>1, <1>2, <1>3, <1>4, <1>5, <1>6 DEF Connection

\* Nobody is connected to the new process.
LEMMA RestartKeeps ==
  ASSUME MessagingInv, Restart, ConnectionsInv'
  PROVE  MessagingInv'
  <1>1. MembersReached' /\ LostAreOpen' /\ UsesLive'
    BY DEF Restart, AllLost, MessagingInv, TypeOK, MembersReached, LostAreOpen, UsesLive
  <1>2. QED
    BY <1>1, InterruptKeeps DEF MessagingInv, TypeOK, Restart

\* The new list of members, or none.
LEMMA ListKeeps ==
  ASSUME MessagingInv, ConnectionsInv', NEW s \in Socket,
         \/ \E members \in SUBSET Client : RoomUpdated(s, members)
         \/ RoomDissolved(s)
  PROVE  MessagingInv'
  <1>1. PICK members \in SUBSET Client :
            /\ reach' = members /\ listed' = members
            /\ Interrupted(Client \ members)
            /\ UNCHANGED <<connections, store, lost, using, held>>
    <2>1. CASE \E members \in SUBSET Client : RoomUpdated(s, members)
      BY <2>1 DEF RoomUpdated
    <2>2. CASE RoomDissolved(s)
      <3>1. {} \in SUBSET Client /\ Client \ {} = Client
        OBVIOUS
      <3>2. Interrupted(Client \ {})
        BY <2>2, <3>1 DEF RoomDissolved
      <3>3. QED
        BY <2>2, <3>1, <3>2 DEF RoomDissolved
    <2>3. QED
      BY <2>1, <2>2
  <1>2. \A c \in Client \ (Client \ members) : Kept(c) => Kept(c)'
    BY <1>1 DEF Kept
  <1>3. LostAreOpen' /\ UsesLive'
    BY <1>1 DEF MessagingInv, LostAreOpen, UsesLive, Open, connections
  <1>4. MembersReached'
    BY <1>1 DEF MembersReached
  <1>5. QED
    BY <1>1, <1>2, <1>3, <1>4, InterruptKeeps DEF MessagingInv, TypeOK

-----------------------------------------------------------------------------
(* Steps on messages *)

\* A message that is sent reaches every tracked client whose connection the index
\* finds; it is new, or keeps its timestamp.
LEMMA SendKeeps ==
  ASSUME MessagingInv, ConnectionsInv', NEW s \in Socket, NEW m \in Message, NEW same \in BOOLEAN,
         NEW now \in Stamp, NEW given \in {0, now}, Send(s, m, given, now, same)
  PROVE  MessagingInv'
  <1> DEFINE stamp == IF store[m] = None THEN Timestamp(given, now) ELSE store[m]
  <1>1. Timestamp(given, now) \in Stamp /\ None \notin Stamp
    BY MessagingAssumption DEF Timestamp, Stamp
  <1>2. s \in clients /\ who[s] \in Client
    BY DEF Send, Heard, MessagingInv, ConnectionsInv, Entries
  <1>3. /\ UNCHANGED <<connections, listed, lost, using, cursor, synced>>
        /\ reach' = reach \cup {who[s]}
    BY DEF Send
  <1>4. store' = [store EXCEPT ![m] = stamp] /\ stamp \in Stamp
    BY <1>1 DEF Send, Upsert, MessagingInv, TypeOK
  <1> HIDE DEF stamp
  <1>5. /\ store'[m] = stamp /\ \A n \in Message \ {m} : store'[n] = store[n]
        /\ store' \in [Message -> Stamp \cup {None}]
    BY <1>4 DEF MessagingInv, TypeOK
  <1>6. \A c \in Client :
            /\ held'[c] \subseteq Message /\ missed'[c] \subseteq Message
            /\ held'[c] \ {m} = held[c] \ {m} /\ missed'[c] \ {m} = missed[c] \ {m}
    BY DEF Send, MessagingInv, TypeOK
  <1>7. held' \in [Client -> SUBSET Message] /\ missed' \in [Client -> SUBSET Message]
    <2>1. held' = [c \in Client |-> held'[c]] /\ missed' = [c \in Client |-> missed'[c]]
      BY DEF Send
    <2>2. QED
      BY <1>6, <2>1
  <1>8. ASSUME NEW c \in Client, Kept(c)
        PROVE  m \in held'[c] \/ m \in missed'[c]
    <2>1. CASE c = who[s] \/ Receives(c)
      <3>1. c = who[s] \/ (c \in reach' /\ Receives(c))
        BY <1>3, <1>8, <2>1 DEF Kept, Receives
      <3>2. QED
        BY <3>1 DEF Send
    <2>2. CASE c # who[s] /\ ~Receives(c)
      <3>1. Unfound(c)
        BY <1>8, <2>2 DEF Kept, Receives, Unfound
      <3>2. QED
        BY <2>2, <3>1 DEF Send
    <2>3. QED
      BY <2>1, <2>2
  <1>9. TypeOK'
    BY <1>2, <1>3, <1>5, <1>7 DEF MessagingInv, TypeOK, ConnectionsInv
  <1>10. Stored' = Stored \cup {m}
    BY <1>1, <1>4, <1>5 DEF Stored
  <1>11. IsFiniteSet(Stored)'
    BY <1>10, FS_AddElement DEF MessagingInv
  <1>12. MembersReached' /\ LostAreOpen' /\ UsesLive' /\ TrackedKept'
    BY <1>3 DEF MessagingInv, MembersReached, LostAreOpen, UsesLive, Open, TrackedKept, Tracked,
       Kept, connections
  <1>13. Ahead'
    <2> SUFFICES ASSUME NEW c \in Client, NEW n \in Stored', Tracked(c), Lacks(c, n)'
                 PROVE  \/ store'[n] > cursor[c] /\ c \notin synced
                        \/ \E k \in Stored' : k # n /\ store'[k] = store'[n]
      BY <1>3 DEF Ahead, Tied, Tracked
    <2>1. m \in held'[c] \/ m \in missed'[c]
      BY <1>8 DEF MessagingInv, TrackedKept
    <2>2. n # m /\ n \in Stored
      BY <1>10, <2>1 DEF Lacks
    <2>3. n \in Message /\ store'[n] = store[n] /\ Lacks(c, n)
      BY <1>5, <1>6, <2>2 DEF Stored, Lacks
    <2>4. \/ store[n] > cursor[c] /\ c \notin synced
          \/ \E k \in Stored : k # n /\ store[k] = store[n]
      BY <2>2, <2>3 DEF MessagingInv, Ahead, Tied
    <2>5. \A k \in Stored : store'[k] = store[k]
      BY <1>4, <1>5 DEF Stored, stamp
    <2>6. QED
      BY <1>10, <2>3, <2>4, <2>5
  <1>14. QED
    BY <1>9, <1>11, <1>12, <1>13 DEF MessagingInv

\* Deleting takes messages of one timestamp together.
LEMMA DeleteKeeps ==
  ASSUME MessagingInv, ConnectionsInv', NEW cutoff \in 1..MaxStamp, DeleteOld(cutoff)
  PROVE  MessagingInv'
  <1>1. UNCHANGED <<connections, reach, listed, client>>
    BY DEF DeleteOld
  <1>2. /\ store' \in [Message -> Stamp \cup {None}]
        /\ \A m \in Message :
              store'[m] = IF m \in Stored /\ store[m] < cutoff THEN None ELSE store[m]
    BY DEF DeleteOld, MessagingInv, TypeOK
  <1>3. Stored' \subseteq Stored /\ \A m \in Stored' : store'[m] = store[m]
    BY <1>2 DEF Stored
  <1>4. \A m, n \in Stored : m \in Stored' /\ store[m] = store[n] => n \in Stored'
    BY <1>2 DEF Stored
  <1>5. IsFiniteSet(Stored)'
    BY <1>3, FS_Subset DEF MessagingInv
  <1>6. TypeOK'
    BY <1>1, <1>2 DEF MessagingInv, TypeOK, ConnectionsInv, client
  <1>7. MembersReached' /\ LostAreOpen' /\ UsesLive' /\ TrackedKept'
    BY <1>1 DEF MessagingInv, MembersReached, LostAreOpen, Open, UsesLive, TrackedKept, Tracked,
       Kept, connections, client
  <1>8. Ahead'
    BY <1>1, <1>3, <1>4 DEF MessagingInv, Ahead, Lacks, Tied, Tracked, client
  <1>9. QED
    BY <1>5, <1>6, <1>7, <1>8 DEF MessagingInv

\* A page: what the client still lacks after it is ahead of the new cursor.
LEMMA SyncKeeps ==
  ASSUME MessagingInv, ConnectionsInv', NEW s \in Socket, NEW after \in {0} \cup Stamp,
         Sync(s, after)
  PROVE  MessagingInv'
  <1> DEFINE c == who[s]
  <1>1. c \in Client
    BY DEF Sync, Heard, MessagingInv, ConnectionsInv, Entries
  <1>2. /\ UNCHANGED <<connections, listed, store, lost, using>>
        /\ reach' = reach \cup {c}
        /\ after \in {0, cursor[c]} /\ after \in 0..MaxStamp
    BY <1>1, MessagingAssumption DEF Sync, MessagingInv, TypeOK
  <1>3. Stored' = Stored
    BY <1>2 DEF Stored
  <1>4. MembersReached' /\ LostAreOpen' /\ UsesLive' /\ IsFiniteSet(Stored)'
    BY <1>2, <1>3 DEF MessagingInv, MembersReached, LostAreOpen, UsesLive, Open, connections
  <1>5. CASE UNCHANGED <<held, cursor, synced, missed>>
    <2>1. TypeOK'
      BY <1>1, <1>2, <1>5 DEF MessagingInv, TypeOK, ConnectionsInv
    <2>2. TrackedKept' /\ Ahead'
      BY <1>2, <1>3, <1>5 DEF MessagingInv, TrackedKept, Kept, Tracked, Ahead, Lacks, Tied, connections
    <2>3. QED
      BY <1>4, <2>1, <2>2 DEF MessagingInv
  <1>6. ASSUME NEW p \in Pages(after), s = using[c],
               held' = [held EXCEPT ![c] = @ \cup p],
               cursor' = [cursor EXCEPT ![c] = LastStamp(p, after)],
               synced' = IF Cardinality(p) < Limit THEN synced \cup {c} ELSE synced,
               missed' = [missed EXCEPT ![c] = @ \ p]
        PROVE  MessagingInv'
    <2>1. p \subseteq Stored /\ p \subseteq Message
      BY DEF Pages, Stored
    <2>2. LastStamp(p, after) \in 0..MaxStamp
      BY <1>2, PageCursor DEF MessagingInv
    <2>3. /\ held'[c] = held[c] \cup p /\ missed'[c] = missed[c] \ p
          /\ \A d \in Client \ {c} : held'[d] = held[d] /\ missed'[d] = missed[d]
          /\ held' \in [Client -> SUBSET Message]
          /\ missed' \in [Client -> SUBSET Message]
      BY <1>1, <1>6, <2>1 DEF MessagingInv, TypeOK
    <2>4. TypeOK'
      BY <1>1, <1>2, <1>6, <2>2, <2>3 DEF MessagingInv, TypeOK, ConnectionsInv
    <2>5. \A d \in Client \ {c} : cursor'[d] = cursor[d] /\ (d \in synced' <=> d \in synced)
      BY <1>1, <1>6 DEF MessagingInv, TypeOK
    <2>6. TrackedKept'
      <3> SUFFICES ASSUME NEW d \in Client, Tracked(d)'
                   PROVE  Kept(d)'
        BY DEF TrackedKept
      <3>1. CASE d # c
        BY <1>2, <2>5, <3>1 DEF MessagingInv, TrackedKept, Tracked, Kept, connections
      <3>2. CASE d = c
        BY <1>2, <1>6, <3>2, ConnectionsAssumption DEF Kept
      <3>3. QED
        BY <3>1, <3>2
    <2>7. Ahead'
      <3> SUFFICES ASSUME NEW d \in Client, NEW m \in Stored, Tracked(d)', Lacks(d, m)', ~Tied(m)
                   PROVE  store[m] > cursor'[d] /\ d \notin synced'
        BY <1>2, <1>3 DEF Ahead, Tied
      <3>1. CASE d # c
        BY <1>2, <2>3, <2>5, <3>1 DEF MessagingInv, Ahead, Tracked, Lacks
      <3>2. CASE d = c
        <4>1. m \notin p /\ Lacks(c, m)
          BY <1>2, <2>3, <3>2 DEF Lacks
        <4>2. store[m] \in Int /\ store[m] > 0
          BY <4>1, StoredTyped DEF MessagingInv, Lacks
        <4>3. Tracked(c) => store[m] > cursor[c] /\ c \notin synced
          BY <1>1, <4>1 DEF MessagingInv, Ahead
        <4>4. cursor[c] \in Nat /\ (~Tracked(c) => cursor[c] = 0 /\ c \notin synced)
          BY <1>1, MessagingAssumption DEF MessagingInv, TypeOK, Tracked
        <4>5. c \notin synced /\ store[m] > after /\ after \in Nat
          BY <1>2, <4>2, <4>3, <4>4
        <4>6. ~(Cardinality(p) < Limit) /\ p # {}
          BY <4>1, <4>5, PageFull, MessagingAssumption DEF MessagingInv
        <4>7. PICK n \in p : store[n] = LastStamp(p, after)
          BY <1>2, <4>6, PageCursor DEF MessagingInv
        <4>8. store[n] <= store[m]
          BY <4>1, <4>5 DEF Pages
        <4>9. n # m /\ n \in Stored /\ store[n] \in Int
          BY <2>1, <4>1, StoredTyped DEF MessagingInv
        <4>10. store[n] # store[m]
          BY <4>9 DEF Tied
        <4>11. cursor'[c] = LastStamp(p, after) /\ c \notin synced'
          BY <1>1, <1>6, <4>5, <4>6 DEF MessagingInv, TypeOK
        <4>12. QED
          BY <3>2, <4>2, <4>7, <4>8, <4>9, <4>10, <4>11
      <3>3. QED
        BY <3>1, <3>2
    <2>8. QED
      BY <1>4, <2>4, <2>6, <2>7 DEF MessagingInv
  <1>7. QED
    BY <1>5, <1>6 DEF Sync

-----------------------------------------------------------------------------
\* The invariant is inductive.
LEMMA MessagingInvStep == MessagingInv /\ [Next]_vars => MessagingInv'
  <1> SUFFICES ASSUME MessagingInv, [Next]_vars
               PROVE  MessagingInv'
    OBVIOUS
  <1>1. ConnectionsInv'
    BY NextKeepsConnections DEF MessagingInv
  <1>2. CASE \E s \in Socket : Connection(s)
    BY <1>1, <1>2, ConnectionKeepsMessages
  <1>3. ASSUME NEW s \in Socket, Handler(s)
        PROVE  MessagingInv'
    <2>1. CASE \E m \in Message, now \in Stamp, same \in BOOLEAN :
                  \E given \in {0, now} : Send(s, m, given, now, same)
      BY <1>1, <2>1, SendKeeps
    <2>2. CASE \E after \in {0} \cup Stamp : Sync(s, after)
      BY <1>1, <2>2, SyncKeeps
    <2>3. CASE (\E members \in SUBSET Client : RoomUpdated(s, members)) \/ RoomDissolved(s)
      BY <1>1, <2>3, ListKeeps
    <2>4. QED
      BY <1>3, <2>1, <2>2, <2>3 DEF Handler
  <1>4. CASE \E cutoff \in 1..MaxStamp : DeleteOld(cutoff)
    BY <1>1, <1>4, DeleteKeeps
  <1>5. CASE Restart
    BY <1>1, <1>5, RestartKeeps
  <1>6. CASE UNCHANGED vars
    <2>1. Interrupted({}) /\ UNCHANGED <<connections, room, client>>
      BY <1>6 DEF vars, Interrupted, client, MessagingInv, TypeOK
    <2>2. LostAreOpen' /\ UsesLive' /\ MembersReached' /\ \A c \in Client : Kept(c) => Kept(c)'
      BY <2>1 DEF MessagingInv, LostAreOpen, UsesLive, MembersReached, Kept, Open, connections, room,
         client
    <2>3. QED
      BY <1>1, <2>1, <2>2, InterruptKeeps DEF MessagingInv, TypeOK, room, client
  <1>7. QED
    BY <1>2, <1>3, <1>4, <1>5, <1>6 DEF Next

\* Messaging only ever reaches states of the invariant.
LEMMA MessagingInvAlways == Spec => []MessagingInv
  BY MessagingInvInit, MessagingInvStep, PTL DEF Spec

\* Every table and map stays well typed.
THEOREM MessagingTypeCorrect == Spec => []TypeOK
  <1>1. MessagingInv => TypeOK
    BY DEF MessagingInv
  <1>2. QED
    BY <1>1, MessagingInvAlways, PTL

\* A client that the stored room lists and the index finds is among those that
\* messages are sent to, over close events, restarts and new lists.
THEOREM MembersCorrect == Spec => []MembersReached
  <1>1. MessagingInv => MembersReached
    BY DEF MessagingInv
  <1>2. QED
    BY <1>1, MessagingInvAlways, PTL

\* A client that fetched page after page to the end and lost no connection it
\* used holds the latest contents of every stored message, but for those sent
\* while the index did not find it, those dated before 1970, and unless two have
\* one timestamp: for every size of a page, and whatever is sent or deleted
\* between pages.
THEOREM NoGapCorrect == Spec => []NoGap
  <1>1. MessagingInv => NoGap
    BY DEF MessagingInv, Ahead, Lacks, Tracked, Tied, NoGap, TypeOK
  <1>2. QED
    BY <1>1, MessagingInvAlways, PTL
=============================================================================
