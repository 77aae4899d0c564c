-------------------------------- MODULE Tls --------------------------------
(***************************************************************************)
(* The key and certificate files of the hub (ca.ts), made at start-up      *)
(* (index.ts), and the certificates clients obtain (routes/auth.ts).       *)
(*                                                                         *)
(* OpenSSL writes the files, a key before its certificate, and the process *)
(* may die between any two of them: the next start finds whatever is       *)
(* there.  Once written, a file changes only by these functions.           *)
(*                                                                         *)
(* Keys are numbers, a certificate is its key, its issuer's key and the    *)
(* last day it is good for; the formats, the names in certificates and     *)
(* the CA's own validity of ten years are left out.                        *)
(***************************************************************************)
EXTENDS Integers

CONSTANTS Device,      \* the clients that enrol
          Validity,    \* CERT_VALIDITY_DAYS
          RenewBefore, \* the 30 days of generateServerCert
          Missing,     \* a file that is not there, a certificate never obtained
          Unreadable,  \* a file that was opened and never written
          MaxDay,      \* bound: the calendar stops here
          MaxKeys      \* bound: so many keys are made

ASSUME TlsAssumption ==
    /\ Validity \in Nat
    /\ RenewBefore \in Nat
    /\ RenewBefore < Validity
    /\ MaxDay \in Nat
    /\ MaxKeys \in Nat
    /\ Missing # Unreadable
    /\ {Missing, Unreadable} \cap Nat = {}

Key == 0..MaxKeys - 1
Cert == [key : Key, issuer : Key, until : 0..MaxDay + Validity]

ASSUME TlsNoCert == {Missing, Unreadable} \cap Cert = {}

VARIABLES today,
          keys,     \* the number of keys made so far
          caKey, caCert,           \* ca-key.pem; ca-cert.pem as the key it is for
          serverKey, serverCert,   \* server-key.pem, server-cert.pem
          phase,    \* of the process: down, ca (initCA has returned), serving
          serving,  \* what https.createServer was given: [key, cert, since]
          held,     \* the certificate each client keeps
          recorded  \* the certificates in certs.db

files == <<caKey, caCert, serverKey, serverCert>>
clients == <<held, recorded>>
tlsVars == <<today, keys, files, phase, serving, clients>>

TlsInit ==
    /\ today = 0
    /\ keys = 0
    /\ caKey = Missing
    /\ caCert = Missing
    /\ serverKey = Missing
    /\ serverCert = Missing
    /\ phase = "down"
    /\ serving = Missing
    /\ held = [d \in Device |-> Missing]
    /\ recorded = {}
-----------------------------------------------------------------------------
\* A new key pair, for which a number is left.
NewKey == keys < MaxKeys /\ keys' = keys + 1

Issued(key) == [key |-> key, issuer |-> caKey, until |-> today + Validity]

\* Mutation: a CA is made at every start.
HasCANever == FALSE

\* initCA: the two files exist, whatever they contain.
HasCA == caKey # Missing /\ caCert # Missing

LoadCA ==
    /\ phase = "down"
    /\ HasCA
    /\ phase' = "ca"
    /\ UNCHANGED <<today, keys, files, serving, clients>>

GenerateCA ==
    /\ phase = "down"
    /\ ~HasCA
    /\ NewKey
    /\ caKey' = keys
    /\ caCert' = keys
    /\ phase' = "ca"
    /\ UNCHANGED <<today, serverKey, serverCert, serving, clients>>

\* OpenSSL fails or the process dies before the certificate is there.
GenerateCADies ==
    /\ phase = "down"
    /\ ~HasCA
    /\ NewKey
    /\ \/ caKey' \in {keys, Unreadable} /\ UNCHANGED caCert
       \/ caKey' = keys /\ caCert' = Unreadable
    /\ UNCHANGED <<today, serverKey, serverCert, phase, serving, clients>>

\* Mutation: a certificate is reused until the day it expires.
ReusableToTheEnd ==
    /\ serverKey # Missing
    /\ serverCert \notin {Missing, Unreadable}
    /\ serverCert.until >= today

\* Mutation: files that exist are used.
ReusableUnread == serverKey # Missing /\ serverCert # Missing

\* generateServerCert: both files exist and the certificate can be read and is
\* good for more than 30 days.  Neither its key nor its issuer is looked at.
Reusable ==
    /\ serverKey # Missing
    /\ serverCert \notin {Missing, Unreadable}
    /\ serverCert.until - today > RenewBefore

Serve(key, cert) ==
    /\ phase' = "serving"
    /\ serving' = [key |-> key, cert |-> cert, since |-> today]

LoadServerCert ==
    /\ phase = "ca"
    /\ Reusable
    /\ Serve(serverKey, serverCert)
    /\ UNCHANGED <<today, keys, files, clients>>

\* OpenSSL reads the CA's files: damaged ones end the process, at every start.
GenerateServerCert ==
    /\ phase = "ca"
    /\ ~Reusable
    /\ Unreadable \notin {caKey, caCert}
    /\ NewKey
    /\ serverKey' = keys
    /\ serverCert' = Issued(keys)
    /\ Serve(serverKey', serverCert')
    /\ UNCHANGED <<today, caKey, caCert, clients>>

\* Mutation: the certificate is written before the key it is for.
GenerateServerCertDiesKeyLast ==
    /\ phase = "ca"
    /\ ~Reusable
    /\ Unreadable \notin {caKey, caCert}
    /\ NewKey
    /\ serverCert' = Issued(keys)
    /\ phase' = "down"
    /\ UNCHANGED <<today, caKey, caCert, serverKey, serving, clients>>

\* The new key is there and the old certificate still is, or is damaged.
GenerateServerCertDies ==
    /\ phase = "ca"
    /\ ~Reusable
    /\ NewKey
    /\ \/ serverKey' \in {keys, Unreadable} /\ UNCHANGED serverCert
       \/ serverKey' = keys /\ serverCert' = Unreadable
    /\ phase' = "down"
    /\ UNCHANGED <<today, caKey, caCert, serving, clients>>

\* The process ends, in the middle of its start or later.
Stop ==
    /\ phase # "down"
    /\ phase' = "down"
    /\ serving' = Missing
    /\ UNCHANGED <<today, keys, files, clients>>
-----------------------------------------------------------------------------
\* signCSR for a key the client made, the row, and the answer, which may be lost.
Sign(d) ==
    /\ NewKey
    /\ recorded' = recorded \cup {Issued(keys)}
    /\ held' \in {held, [held EXCEPT ![d] = Issued(keys)]}
    /\ UNCHANGED <<today, files, phase, serving>>

\* POST /api/auth/certificate
Enrol(d) == phase = "serving" /\ Sign(d)

\* POST /api/auth/certificate/renew, with the old certificate, expired or not.
\* Every CA the hub makes has one name, the answer of verify() is not looked at.
Renew(d) ==
    /\ phase = "serving"
    /\ held[d] # Missing
    /\ Sign(d)

NextDay ==
    /\ today < MaxDay
    /\ today' = today + 1
    /\ UNCHANGED <<keys, files, phase, serving, clients>>

TlsNext ==
    \/ LoadCA \/ GenerateCA \/ GenerateCADies
    \/ LoadServerCert \/ GenerateServerCert \/ GenerateServerCertDies
    \/ Stop
    \/ \E d \in Device : Enrol(d) \/ Renew(d)
    \/ NextDay

TlsSpec == TlsInit /\ [][TlsNext]_tlsVars
-----------------------------------------------------------------------------
(* Properties *)

\* Every variable keeps its type; in particular what is served is never a
\* damaged file, although only the certificate's contents are looked at.
TlsTypeOK ==
    /\ today \in 0..MaxDay
    /\ keys \in 0..MaxKeys
    /\ caKey \in Key \cup {Missing, Unreadable}
    /\ caCert \in Key \cup {Missing, Unreadable}
    /\ serverKey \in Key \cup {Missing, Unreadable}
    /\ serverCert \in Cert \cup {Missing, Unreadable}
    /\ phase \in {"down", "ca", "serving"}
    /\ serving \in [key : Key, cert : Cert, since : 0..MaxDay] \cup {Missing}
    /\ held \in [Device -> Cert \cup {Missing}]
    /\ recorded \subseteq Cert

\* The key and the certificate that are served belong together, after any
\* sequence of starts that died half-way: a new key next to an old certificate
\* is never loaded, because the old one was too near its end to be kept.
ServesMatchingPair == phase = "serving" => serving.cert.key = serving.key

\* The first RenewBefore days after a start the served certificate is good.
FreshAfterStart ==
    phase = "serving" /\ today - serving.since <= RenewBefore =>
        today < serving.cert.until

\* The CA never changes under those who rely on it: what clients hold was
\* recorded, and it and the certificate that is served were issued by the key
\* that ca-cert.pem is for.
ClientsKeepTheirCA ==
    /\ \A d \in Device : held[d] # Missing =>
           held[d] \in recorded /\ held[d].issuer = caCert
    /\ phase = "serving" => serving.cert.issuer = caCert

\* README.md:46 promises renewal by itself: the served certificate is good.
RenewsItself == phase = "serving" => today <= serving.cert.until
=============================================================================
