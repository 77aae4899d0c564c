----------------------------- MODULE Messaging ------------------------------
(***************************************************************************)
(* Instant messages in one room: the handlers of ws-server.ts and the two  *)
(* tables of db-im.ts.  Who gets a message as it is sent depends on two    *)
(* maps in memory, the members of the room and the index of connections;   *)
(* who may fetch stored messages depends also on the stored room.          *)
(*                                                                         *)
(* The clients are external: a client uses the connection it opened last,  *)
(* keeps what it receives, in the order it was sent, and fetches the       *)
(* stored messages page by page from timestamp 0 on, the last timestamp of *)
(* a page being the cursor of the next (tests/im-integration.test.ts).  It *)
(* starts again when the connection it uses is gone.                       *)
(*                                                                         *)
(* The contents of a message are not told apart: what matters is who holds *)
(* the latest.  Left out: presence, typing, file transfer and the search   *)
(* for clients (they change no table and no membership), encryption,       *)
(* invitations, and the counter of handlers at work: a handler runs to its *)
(* end before the next one starts, so it is 0 whenever it is read.         *)
(***************************************************************************)
EXTENDS Connections, FiniteSetsExt, Integers

CONSTANTS Message,    \* message ids
          MinStamp,   \* bounds: the timestamps senders give, which nobody
          MaxStamp,   \* checks, and the times of day
          Limit       \* the most messages a page holds, 200 in the code

ASSUME MessagingAssumption ==
    /\ None \notin Int
    /\ MinStamp \in Int
    /\ MaxStamp \in Nat
    /\ Limit \in Nat \ {0}

VARIABLES reach,  \* imRoomMembers of the room
          listed, \* im_rooms.members of the room, empty without a row
          store,  \* im_messages of the room: the timestamp of each, None without a row
          lost,   \* open sockets whose client is gone, which the server cannot know
          using,  \* the connection each client goes by, None when it has lost it
          held,   \* the messages of which each client holds the latest contents
          cursor, \* where a client has got to since it is connected
          synced, \* history: clients that fetched every page and stayed
          missed  \* history: the messages sent while the index did not find the
                  \* connection a client uses, and that it did not get since

room == <<reach, listed, store>>
client == <<lost, using, held, cursor, synced, missed>>
vars == <<connections, room, client>>

\* 0 is no timestamp: the time of day is taken.
Stamp == (MinStamp..MaxStamp) \ {0}
Stored == {m \in Message : store[m] # None}

Init ==
    /\ NoConnections
    /\ reach = {}
    /\ listed = {}
    /\ store = [m \in Message |-> None]
    /\ lost = {}
    /\ using = [c \in Client |-> None]
    /\ held = [c \in Client |-> {}]
    /\ cursor = [c \in Client |-> 0]
    /\ synced = {}
    /\ missed = [c \in Client |-> {}]
-----------------------------------------------------------------------------
(* Connections *)

\* The index finds the connection the client uses: what is sent through it arrives.
Receives(c) == using[c] # None /\ index[c] = using[c]

\* It finds another one, or none.
Unfound(c) == using[c] # None /\ index[c] # using[c]

\* These clients have to fetch everything again.
Interrupted(cs) ==
    /\ cursor' = [c \in Client |-> IF c \in cs THEN 0 ELSE cursor[c]]
    /\ synced' = synced \ cs
    /\ missed' = [c \in Client |-> IF c \in cs THEN {} ELSE missed[c]]

UsersOf(s) == {c \in Client : using[c] = s}

\* Whoever uses the connection notices that it is gone, others do not; unlisted
\* clients are no members any more.
Gone(s, unlisted) ==
    /\ using' = [c \in Client |-> IF using[c] = s THEN None ELSE using[c]]
    /\ Interrupted(UsersOf(s) \cup unlisted)

\* Mutation: the members of the stored room only count when there are none.
InvitedFirst(c) == reach' = IF c \in listed /\ reach = {} THEN listed ELSE reach

\* Mutation: the members of the stored room replace those in memory.
InvitedReplaces(c) == reach' = IF c \in listed THEN listed ELSE reach

\* sendPendingImInvitations: a member that connects brings the others back.
Invited(c) == reach' = IF c \in listed THEN reach \cup listed ELSE reach

Connect(s) == Opened(s) /\ UNCHANGED <<room, client>>

ConnectWithCert(s, c) ==
    /\ OpenedWithCert(s, c)
    /\ Invited(c)
    /\ using' = [using EXCEPT ![c] = s]
    /\ UNCHANGED <<listed, store, lost, held, cursor, synced, missed>>

\* The message may still be under way when its client is gone, and have been
\* overtaken by one on another connection.
Auth(s, c) ==
    /\ Authenticated(s, c)
    /\ Invited(c)
    /\ using' = IF s \in lost THEN using ELSE [using EXCEPT ![c] = s]
    /\ UNCHANGED <<listed, store, lost, held, cursor, synced, missed>>

Refuse(s) ==
    /\ Refused(s)
    /\ lost' = lost \ {s}
    /\ UNCHANGED <<room, using, held, cursor, synced, missed>>

\* The client or the network goes; the close event comes later.
Lose(s) ==
    /\ Open(s) /\ s \notin lost
    /\ lost' = lost \cup {s}
    /\ Gone(s, {})
    /\ UNCHANGED <<connections, room, held>>

\* handleDisconnect: the client is no member any more, whichever connections
\* it still has.  If it uses another one, it does not learn of this, nor that
\* the index does not find it from now on; the stored room may bring it back.
Close(s) ==
    /\ Closed(s)
    /\ reach' = reach \ {who[s]}
    /\ lost' = lost \ {s}
    /\ Gone(s, {who[s]} \ listed)
    /\ UNCHANGED <<listed, store, held>>

CloseUnheard(s) ==
    /\ ClosedUnheard(s)
    /\ lost' = lost \ {s}
    /\ Gone(s, {})
    /\ UNCHANGED <<room, held>>

Restart ==
    /\ AllLost
    /\ reach' = {}
    /\ lost' = {}
    /\ using' = [c \in Client |-> None]
    /\ Interrupted(Client)
    /\ UNCHANGED <<listed, store, held>>
-----------------------------------------------------------------------------
(* Handlers *)

\* Mutation: the time of day is not the default.
TimestampGiven(given, now) == given

\* The sender's timestamp, or the time of day.
Timestamp(given, now) == IF given = 0 THEN now ELSE given

\* upsertMessage: a message that exists gets new contents and keeps its time.
Upsert(m, stamp) == store' = [store EXCEPT ![m] = IF @ = None THEN stamp ELSE @]

\* The sender is tracked as a member, the message is stored, and the other
\* members that are connected receive it.  Whoever does not is left with the
\* latest contents only if they are the same as before.
Send(s, m, given, now, same) ==
    /\ Heard(s)
    /\ reach' = reach \cup {who[s]}
    /\ Upsert(m, Timestamp(given, now))
    /\ held' = [c \in Client |->
                   CASE c = who[s] \/ (c \in reach' /\ Receives(c)) -> held[c] \cup {m}
                     [] OTHER -> IF same THEN held[c] ELSE held[c] \ {m}]
    /\ missed' = [c \in Client |->
                     CASE c = who[s] \/ Receives(c) -> missed[c] \ {m}
                       [] c # who[s] /\ Unfound(c)  -> missed[c] \cup {m}
                       [] OTHER                     -> missed[c]]
    /\ UNCHANGED <<connections, listed, lost, using, cursor, synced>>

\* getMessagesAfter: the earliest messages after a timestamp, which among
\* messages of one timestamp is the database's choice.
Pages(after) ==
    LET later == {m \in Stored : store[m] > after}
    IN {p \in SUBSET later :
          /\ Cardinality(p) = Min({Limit, Cardinality(later)})
          /\ \A m \in p, n \in later \ p : store[m] <= store[n]}

LastStamp(p, after) == Max({after} \cup {store[m] : m \in p})

\* A page goes to a member of either list, which is tracked again; the client
\* starts from the beginning or goes on from its cursor, by what comes on the
\* connection it uses.
Sync(s, after) ==
    /\ Heard(s)
    /\ LET c == who[s]
       IN /\ c \in reach \cup listed
          /\ reach' = reach \cup {c}
          /\ after \in {0, cursor[c]}
          /\ IF s # using[c]
             THEN UNCHANGED <<held, cursor, synced, missed>>
             ELSE \E p \in Pages(after) :
                    /\ held' = [held EXCEPT ![c] = @ \cup p]
                    /\ cursor' = [cursor EXCEPT ![c] = LastStamp(p, after)]
                    /\ synced' = IF Cardinality(p) < Limit THEN synced \cup {c} ELSE synced
                    /\ missed' = [missed EXCEPT ![c] = @ \ p]
    /\ UNCHANGED <<connections, listed, store, lost, using>>

\* Whoever sends it, the list replaces both memberships.
RoomUpdated(s, members) ==
    /\ Heard(s)
    /\ reach' = members
    /\ listed' = members
    /\ Interrupted(Client \ members)
    /\ UNCHANGED <<connections, store, lost, using, held>>

\* The stored messages stay.
RoomDissolved(s) ==
    /\ Heard(s)
    /\ reach' = {}
    /\ listed' = {}
    /\ Interrupted(Client)
    /\ UNCHANGED <<connections, store, lost, using, held>>

\* Every hour, messages older than seven days.
DeleteOld(cutoff) ==
    /\ store' = [m \in Message |-> IF m \in Stored /\ store[m] < cutoff THEN None ELSE store[m]]
    /\ UNCHANGED <<connections, reach, listed, client>>
-----------------------------------------------------------------------------
Connection(s) ==
    \/ Connect(s)
    \/ \E c \in Client : ConnectWithCert(s, c)
    \/ \E c \in Client : Auth(s, c)
    \/ Refuse(s)
    \/ Lose(s)
    \/ Close(s)
    \/ CloseUnheard(s)

\* The time of day, which is not before 1970, does not matter when the sender
\* gives another time.
Handler(s) ==
    \/ \E m \in Message, now \in Stamp, same \in BOOLEAN :
          \E given \in {0, now} : (given = 0 => now > 0) /\ Send(s, m, given, now, same)
    \/ \E after \in {0} \cup Stamp : Sync(s, after)
    \/ \E members \in SUBSET Client : RoomUpdated(s, members)
    \/ RoomDissolved(s)

Next ==
    \/ \E s \in Socket : Connection(s)
    \/ \E s \in Socket : Handler(s)
    \/ \E cutoff \in 1..MaxStamp : DeleteOld(cutoff)
    \/ Restart

Spec == Init /\ [][Next]_vars
-----------------------------------------------------------------------------
(* Properties *)

\* Every table and map is well typed.
TypeOK ==
    /\ ConnectionsOK
    /\ reach \subseteq Client
    /\ listed \subseteq Client
    /\ store \in [Message -> Stamp \cup {None}]
    /\ lost \subseteq Socket
    /\ using \in [Client -> Socket \cup {None}]
    /\ held \in [Client -> SUBSET Message]
    /\ cursor \in [Client -> 0..MaxStamp]
    /\ synced \subseteq Client
    /\ missed \in [Client -> SUBSET Message]

\* Every client that the stored room lists and the index finds is among the
\* members that messages are sent to: the list in memory, which senders extend,
\* close events shorten and restarts empty, never falls behind the stored one
\* for somebody who could be reached.
MembersReached == \A c \in listed : index[c] # None => c \in reach

\* A client that fetched page after page until one was not full, and since the
\* first of them used connections that it did not lose, each opened before the
\* other was gone, and was not removed from the room, holds the current contents
\* of every stored message: what arrives between two pages, with any timestamp,
\* is not missed.  Excepted are the messages sent while the index did not find
\* the connection it uses, after the late close of one that was replaced; those
\* dated before 1970, which no client asks for unless it gets them as they are
\* sent; and all if two messages of the room have the same timestamp.
NoGap ==
    (\A m, n \in Stored : store[m] = store[n] => m = n)
        => \A c \in synced, m \in Stored :
               store[m] > 0 /\ m \notin missed[c] => m \in held[c]
=============================================================================
