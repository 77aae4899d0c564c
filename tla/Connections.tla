---------------------------- MODULE Connections -----------------------------
(***************************************************************************)
(* The connections of the WebSocket server and its two maps of them        *)
(* (ws-server.ts): clients, by socket, and clientIdToWs, the reverse index *)
(* by client id.  What else a handler changes is said by the modules that  *)
(* extend this one.                                                        *)
(*                                                                         *)
(* A client opens a new connection whenever it likes, above all when it    *)
(* lost one that the server still holds to be open: the close event of a   *)
(* connection comes at any time after it.                                  *)
(***************************************************************************)
EXTENDS Naturals, FiniteSets

CONSTANTS Client,  \* client ids
          Socket,  \* connections, each used once
          None,    \* no socket, no client
          Crashing \* bound: whether the process may die

ASSUME ConnectionsAssumption ==
    /\ None \notin Client \cup Socket
    /\ Crashing \in BOOLEAN

VARIABLES link,    \* the state of each connection
          clients, \* the keys of the map clients
          who,     \* the clientId of the entry of a socket in clients
          index    \* clientIdToWs

connections == <<link, clients, who, index>>

\* A connection without a certificate has listeners from the start; one that
\* presents a valid certificate is authenticated and gets none: what its
\* client says, and its close event, are lost.
Link == {"unused", "plain", "certified", "closed"}

Open(s) == link[s] \in {"plain", "certified"}

\* A socket whose messages reach the handlers.
Heard(s) == link[s] = "plain" /\ s \in clients

NoConnections ==
    /\ link = [s \in Socket |-> "unused"]
    /\ clients = {}
    /\ who = [s \in Socket |-> None]
    /\ index = [c \in Client |-> None]

Opened(s) ==
    /\ link[s] = "unused"
    /\ link' = [link EXCEPT ![s] = "plain"]
    /\ UNCHANGED <<clients, who, index>>

\* The entry in clients and in the reverse index: the newest socket wins.
Enter(s, c) ==
    /\ clients' = clients \cup {s}
    /\ who' = [who EXCEPT ![s] = c]
    /\ index' = [index EXCEPT ![c] = s]

OpenedWithCert(s, c) ==
    /\ link[s] = "unused"
    /\ link' = [link EXCEPT ![s] = "certified"]
    /\ Enter(s, c)

\* auth.psk on a connection that is not authenticated.
Authenticated(s, c) ==
    /\ link[s] = "plain" /\ s \notin clients
    /\ Enter(s, c)
    /\ UNCHANGED link

\* The close event of a connection that is not authenticated: it failed to,
\* took too long, or sent something else.  Until then its messages count.
Refused(s) ==
    /\ link[s] = "plain" /\ s \notin clients
    /\ link' = [link EXCEPT ![s] = "closed"]
    /\ UNCHANGED <<clients, who, index>>

\* Mutation: the index keeps the closed socket.
ForgetKeepsIndex(s) ==
    /\ clients' = clients \ {s}
    /\ who' = [who EXCEPT ![s] = None]
    /\ UNCHANGED index

\* handleDisconnect takes the socket out of clients, and the client's entry
\* out of the index, whichever socket that names.
Forget(s) ==
    /\ clients' = clients \ {s}
    /\ who' = [who EXCEPT ![s] = None]
    /\ index' = [index EXCEPT ![who[s]] = None]

\* The close event of an authenticated connection.
Closed(s) ==
    /\ Heard(s)
    /\ link' = [link EXCEPT ![s] = "closed"]
    /\ Forget(s)

\* The close of a connection with a certificate: nobody listens to it.
ClosedUnheard(s) ==
    /\ link[s] = "certified"
    /\ link' = [link EXCEPT ![s] = "closed"]
    /\ UNCHANGED <<clients, who, index>>

\* The process dies and starts again.
AllLost ==
    /\ Crashing
    /\ link' = [s \in Socket |-> IF Open(s) THEN "closed" ELSE link[s]]
    /\ clients' = {}
    /\ who' = [s \in Socket |-> None]
    /\ index' = [c \in Client |-> None]
-----------------------------------------------------------------------------
ConnectionsOK ==
    /\ link \in [Socket -> Link]
    /\ clients \subseteq Socket
    /\ who \in [Socket -> Client \cup {None}]
    /\ index \in [Client -> Socket \cup {None}]

\* The reverse index never names a socket of somebody else, nor one that is no
\* longer in clients, over reconnections and close events in any order.
IndexSound ==
    \A c \in Client : index[c] # None => index[c] \in clients /\ who[index[c]] = c

\* ws-server.ts says: "Reverse index: clientId -> WebSocket for O(1) lookup": a
\* client that is authenticated on an open connection is found by its id.  It
\* is not: the close event of a replaced connection deletes the entry.
IndexCoversClients ==
    \A s \in Socket : Heard(s) => index[who[s]] # None
=============================================================================
