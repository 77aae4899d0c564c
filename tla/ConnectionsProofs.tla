-------------------------- MODULE ConnectionsProofs --------------------------
(***************************************************************************)
(* Proofs about the two maps of connections: the specification of the      *)
(* connections by themselves, which the hub and the instant messages each  *)
(* implement, and the soundness of the maps, proved of it once.            *)
(***************************************************************************)
EXTENDS Connections, TLAPS

\* A socket has an entry in clients exactly when it has a client id, and a
\* connection that was never opened has none.
Entries ==
    \A s \in Socket :
        /\ s \in clients => who[s] \in Client /\ link[s] # "unused"
        /\ s \notin clients => who[s] = None

\* What happens to one connection.
ConnectionStep(s) ==
    \/ Opened(s)
    \/ \E c \in Client : OpenedWithCert(s, c)
    \/ \E c \in Client : Authenticated(s, c)
    \/ Refused(s)
    \/ Closed(s)
    \/ ClosedUnheard(s)

\* The connections by themselves: what may become of the two maps, whoever
\* changes what else.
ConnectionsNext == (\E s \in Socket : ConnectionStep(s)) \/ AllLost

ConnectionsSpec == NoConnections /\ [][ConnectionsNext]_connections

\* The inductive invariant of the connections.
ConnectionsInv == ConnectionsOK /\ Entries /\ IndexSound

-----------------------------------------------------------------------------
\* It holds of a process without connections.
LEMMA NoConnectionsInv == NoConnections => ConnectionsInv
  BY ConnectionsAssumption
  DEF NoConnections, ConnectionsInv, ConnectionsOK, Entries, IndexSound, Link

\* An entry is made for a socket without one: a client's older sockets keep
\* theirs, the index forgets them.
LEMMA EnterKeeps ==
  ASSUME ConnectionsInv, NEW s \in Socket, NEW c \in Client, s \notin clients, Enter(s, c),
         link' \in [Socket -> Link], link'[s] # "unused",
         \A t \in Socket \ {s} : link'[t] = link[t]
  PROVE  ConnectionsInv'
  <1>1. ConnectionsOK'
    BY DEF ConnectionsInv, ConnectionsOK, Enter
  <1>2. Entries'
    BY DEF ConnectionsInv, ConnectionsOK, Entries, Enter
  <1>3. IndexSound'
    BY ConnectionsAssumption DEF ConnectionsInv, ConnectionsOK, IndexSound, Enter
  <1>4. QED
    BY <1>1, <1>2, <1>3 DEF ConnectionsInv

\* The connection's entry goes together with the index entry of its client,
\* which is the only one that could name it.
LEMMA ForgetKeeps ==
  ASSUME ConnectionsInv, NEW s \in Socket, s \in clients, Forget(s),
         link' = [link EXCEPT ![s] = "closed"]
  PROVE  ConnectionsInv'
  <1>1. ConnectionsOK'
    BY DEF ConnectionsInv, ConnectionsOK, Forget, Link
  <1>2. Entries'
    BY DEF ConnectionsInv, ConnectionsOK, Entries, Forget
  <1>3. IndexSound'
    BY ConnectionsAssumption DEF ConnectionsInv, ConnectionsOK, IndexSound, Entries, Forget
  <1>4. QED
    BY <1>1, <1>2, <1>3 DEF ConnectionsInv

\* The operations that leave the two maps alone.
LEMMA LinkKeeps ==
  ASSUME ConnectionsInv, NEW s \in Socket, NEW l \in Link, l # "unused",
         link' = [link EXCEPT ![s] = l], UNCHANGED <<clients, who, index>>
  PROVE  ConnectionsInv'
  BY DEF ConnectionsInv, ConnectionsOK, Entries, IndexSound

\* What the hub does with one connection keeps the maps sound.
LEMMA ConnectionKeeps ==
  ASSUME ConnectionsInv, NEW s \in Socket, ConnectionStep(s)
  PROVE  ConnectionsInv'
  <1>1. CASE Opened(s)
    BY <1>1, LinkKeeps DEF Opened, Link
  <1>2. ASSUME NEW c \in Client, OpenedWithCert(s, c)
        PROVE  ConnectionsInv'
    <2>1. s \notin clients /\ Enter(s, c)
      BY <1>2 DEF OpenedWithCert, ConnectionsInv, Entries
    <2>2. link' \in [Socket -> Link] /\ link'[s] = "certified"
          /\ \A t \in Socket \ {s} : link'[t] = link[t]
      BY <1>2 DEF OpenedWithCert, ConnectionsInv, ConnectionsOK, Link
    <2>3. QED
      BY <2>1, <2>2, EnterKeeps
  <1>3. ASSUME NEW c \in Client, Authenticated(s, c)
        PROVE  ConnectionsInv'
    <2>1. s \notin clients /\ Enter(s, c) /\ link' = link /\ link[s] = "plain"
      BY <1>3 DEF Authenticated
    <2>2. link' \in [Socket -> Link]
      BY <2>1 DEF ConnectionsInv, ConnectionsOK
    <2>3. QED
      BY <2>1, <2>2, EnterKeeps
  <1>4. CASE Refused(s)
    BY <1>4, LinkKeeps DEF Refused, Link
  <1>5. CASE Closed(s)
    BY <1>5, ForgetKeeps DEF Closed, Heard
  <1>6. CASE ClosedUnheard(s)
    BY <1>6, LinkKeeps DEF ClosedUnheard, Link
  <1>7. QED
    BY <1>1, <1>2, <1>3, <1>4, <1>5, <1>6 DEF ConnectionStep

\* So does the death of the process.
LEMMA AllLostKeeps == ConnectionsInv /\ AllLost => ConnectionsInv'
  BY ConnectionsAssumption
  DEF AllLost, ConnectionsInv, ConnectionsOK, Entries, IndexSound, Link, Open

\* And a step that leaves the connections alone.
LEMMA SameConnectionsKeep == ConnectionsInv /\ UNCHANGED connections => ConnectionsInv'
  BY DEF connections, ConnectionsInv, ConnectionsOK, Entries, IndexSound

\* Every step of the connections keeps the maps sound.
LEMMA ConnectionsNextKeeps ==
  ConnectionsInv /\ [ConnectionsNext]_connections => ConnectionsInv'
  BY ConnectionKeeps, AllLostKeeps, SameConnectionsKeep DEF ConnectionsNext

\* The index is sound in whatever implements the connections.
THEOREM ConnectionsCorrect == ConnectionsSpec => []ConnectionsInv
  BY NoConnectionsInv, ConnectionsNextKeeps, PTL DEF ConnectionsSpec

\* A connection that is heard stays so whatever happens to another one, and
\* until its own close event.
LEMMA StillHeard ==
  ASSUME ConnectionsInv, NEW s \in Socket, NEW t \in Socket, Heard(t),
         ConnectionStep(s), Closed(s) => t # s
  PROVE  Heard(t)' /\ who'[t] = who[t]
  BY DEF ConnectionsInv, ConnectionsOK, Entries, Heard, ConnectionStep, Opened, OpenedWithCert,
     Authenticated, Refused, Closed, ClosedUnheard, Enter, Forget
=============================================================================
