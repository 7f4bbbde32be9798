------------------------------ MODULE Attempts ------------------------------
(***************************************************************************)
(* What the messages under way and the states of server and clients tell   *)
(* of the attempts they belong to: the inductive invariant behind the      *)
(* safety properties of the tunnel.                                        *)
(*                                                                         *)
(* What a client program sends in its life has places in one order: the    *)
(* four messages of its first run, then those of the second, and so on.    *)
(* The queue of the server keeps that order.  So whatever was handled up   *)
(* to some place is behind the server for good, and what is in memory at   *)
(* either end says up to which place that is the case.                     *)
(***************************************************************************)
EXTENDS MQTTTunnel

\* The identifier under which the server knows attempt t.
OwnId(t) == IF t[1] \in EncryptedClients THEN t ELSE BaseId(t[1])

\* A message without its wrapper.
Text(m) == IF m.message_identifier = "ENCRYPTED_WRAPPER"
           THEN m.encrypted_payload.plain
           ELSE m

IsCrypto(m) == Text(m).message_identifier = "CLIENT_HELLO_CRYPTO"
IsHello(m) == Text(m).message_identifier = "CLIENT_HELLO"
IsAck(m) == Text(m).message_identifier = "CLIENT_ACK"
IsTermination(m) == Text(m).message_identifier = "SESSION_TERMINATION"

IsServerCrypto(m) == Text(m).message_identifier = "SERVER_HELLO_CRYPTO"
IsServerHello(m) == Text(m).message_identifier = "SERVER_HELLO"
IsServerAck(m) == Text(m).message_identifier = "SERVER_ACK"

\* The attempt that sent a message, as the message tells it.
Sender(m) == IF IsCrypto(m) THEN Text(m).client_ephemeral_public_key
             ELSE IF IsTermination(m) THEN Text(m).session_id
             ELSE Text(m).handshake_identifier

\* The k-th message of attempt t, among all that its client ever sends.
Nth(t, k) == 4 * t[2] + k

Place(m) == Nth(Sender(m), IF IsCrypto(m) THEN 0 ELSE
                           IF IsHello(m) THEN 1 ELSE
                           IF IsAck(m) THEN 2 ELSE 3)

\* The last place that client c may have used.
Sent(c) == 4 * starts[c] + (IF cpc[c] = "connected" THEN -1 ELSE
                            IF cpc[c] = "wait_crypto" THEN 0 ELSE
                            IF cpc[c] = "wait_hello" THEN 1 ELSE
                            IF cpc[c] \in {"wait_ack", "active"} THEN 2 ELSE 3)

Pending == {rx[k] : k \in 1 .. Len(rx)}
Received(c) == {inbox[c][k] : k \in 1 .. Len(inbox[c])}

\* All that c sent up to place n has been handled, or is lost.
Done(c, n) ==
  /\ n <= Sent(c)
  /\ \A m \in Pending : Sender(m)[1] = c => n < Place(m)

\* Attempt t is the present run of its client.
Current(t) == t = attempt(t[1]) /\ cpc[t[1]] # "off"

-----------------------------------------------------------------------------
\* Each client's messages are in the queue in the order of their places.
Ordered ==
  \A j, k \in 1 .. Len(rx) :
    j < k /\ Sender(rx[j])[1] = Sender(rx[k])[1] => Place(rx[j]) < Place(rx[k])

NotAhead == \A m \in Pending : Place(m) <= Sent(Sender(m)[1])

\* A process that is not running has no queue and no memory.
ProcessInv ==
  /\ serverPc = "running" <=> Server \in listeners
  /\ server_starts = 0 => serverPc = "down"
  /\ serverPc # "running" =>
       /\ rx = <<>>
       /\ establishing = None
       /\ handshake_states_ = NoEntries
       /\ active_clients_ = NoEntries
       /\ session_map_ = NoEntries
  /\ \A c \in Clients :
       /\ cpc[c] \in {"off", "active"} => c \notin listeners /\ inbox[c] = <<>>
       /\ server_starts = 0 =>
            /\ inbox[c] = <<>>
            /\ cpc[c] \notin {"wait_ack", "active"}
            /\ cpc[c] = "wait_hello" => c \notin EncryptedClients

-----------------------------------------------------------------------------
\* What a client puts into its messages.
SealedRight(m) ==
  LET t == Sender(m) IN
  /\ t[1] \in EncryptedClients
  /\ m.client_id \in Attempt
  /\ m.encrypted_payload.key = SharedKey(t, m.client_id)
  /\ IsAck(m) \/ ~crosstalk => m.client_id = t
  /\ NeverRestarted => session_map_[m.client_id] # None

AddressedRight(m) ==
  LET p == Text(m)
      t == Sender(m)
      sealed == m.message_identifier = "ENCRYPTED_WRAPPER"
      id == IF sealed THEN m.client_id ELSE BaseId(t[1])
  IN /\ sealed => SealedRight(m)
     /\ IsHello(m) \/ IsAck(m) => (sealed <=> t[1] \in EncryptedClients)
     /\ IsCrypto(m) => t[1] \in EncryptedClients /\ p.client_base_id = id
     /\ IsHello(m) => p.client_base_id = id
     /\ IsAck(m) => p.client_id = id
     /\ IsTermination(m) => p.client_id = OwnId(t)

MessageRight(m) ==
  LET t == Sender(m) IN
  /\ AddressedRight(m)
  /\ IsHello(m) /\ Current(t) => Text(m).tunnel_mode = tunnel_mode_[t[1]]
  /\ IsAck(m) \/ IsTermination(m) => Done(t[1], Nth(t, 1))

MessagesInv == \A m \in Pending : MessageRight(m)

-----------------------------------------------------------------------------
\* Keys, offers and sessions of the server, and what was handled for them.
KeyRight(id) ==
  session_map_[id] # None =>
    /\ id \in Attempt
    /\ session_map_[id] = SharedKey(id, id)
    /\ Done(id[1], Nth(id, 0))

\* Entry e of id is an offer to an attempt, or the session it became.
EntryOf(id, e) ==
  LET t == e.handshake_identifier IN
  /\ t \in Attempt
  /\ e.session_id = t
  /\ OwnId(t) = id
  /\ Current(t) => e.tunnel_mode = tunnel_mode_[t[1]]

OfferRight(id) ==
  LET e == handshake_states_[id] IN
  /\ e # None /\ id \in Attempt => session_map_[id] # None
  /\ e # None /\ ~AckExpected(id) => e.client_address = NoAddress
  /\ AckExpected(id) =>
       /\ EntryOf(id, e)
       /\ Done(id[1], Nth(e.session_id, IF establishing = id THEN 2 ELSE 1))
       /\ active_clients_[id] # None =>
            active_clients_[id].session_id[2] < e.session_id[2]

SessionRight(id) ==
  LET e == active_clients_[id] IN
  e # None =>
    /\ EntryOf(id, e)
    /\ Done(id[1], Nth(e.session_id, 2))
    /\ Wired(id)

\* The handler of an ACK works on the offer it was sent for.
EstablishingInv == establishing # None => AckExpected(establishing)

ServiceInv ==
  /\ \A id \in Id : KeyRight(id) /\ OfferRight(id) /\ SessionRight(id)
  /\ EstablishingInv

-----------------------------------------------------------------------------
\* What the server puts into its answers, and what was handled before.
AnswerRight(c, m) ==
  LET p == Text(m) IN
  /\ IsServerCrypto(m) =>
       LET t == p.server_ephemeral_public_key IN
       /\ p.unique_identifier = t
       /\ Done(t[1], Nth(t, 0))
       /\ NeverRestarted => session_map_[t] # None
  /\ IsServerHello(m) =>
       LET t == p.handshake_identifier IN
       /\ p.session_id = t
       /\ p.assigned_client_id_ = OwnId(t)
       /\ Done(t[1], Nth(t, 1))
       /\ t = attempt(c) => cpc[c] = "wait_hello"
  /\ IsServerAck(m) =>
       LET t == p.handshake_identifier IN Done(t[1], Nth(t, 2))
  /\ m.message_identifier = "ENCRYPTED_WRAPPER" =>
       m.encrypted_payload.key =
         SharedKey(p.handshake_identifier, p.handshake_identifier)

\* The ServerHello to the present run of c, which comes once.
HelloTo(c, m) == IsServerHello(m) /\ Text(m).handshake_identifier = attempt(c)

OneHello(c) ==
  \A j, k \in 1 .. Len(inbox[c]) :
    HelloTo(c, inbox[c][j]) /\ HelloTo(c, inbox[c][k]) => j = k

AnswersInv ==
  \A c \in Clients : OneHello(c) /\ \A m \in Received(c) : AnswerRight(c, m)

\* The configuration of a client is that of its own attempt.
ClientRight(c) ==
  LET t == attempt(c) IN
  /\ c \notin EncryptedClients =>
       client_base_id_[c] = BaseId(c) /\ cpc[c] # "wait_crypto"
  /\ c \in EncryptedClients /\ cpc[c] \in {"wait_hello", "wait_ack", "active"} =>
       /\ client_base_id_[c] \in Attempt
       /\ session_key[c] = SharedKey(t, client_base_id_[c])
       /\ ~crosstalk \/ cpc[c] # "wait_hello" => client_base_id_[c] = t
       /\ NeverRestarted => session_map_[client_base_id_[c]] # None
  /\ cpc[c] \in {"wait_ack", "active"} =>
       /\ session_config_[c].client_id = OwnId(t)
       /\ session_config_[c].session_id = t
       /\ Done(c, Nth(t, 1))

ClientsInv == \A c \in Clients : ClientRight(c)

-----------------------------------------------------------------------------
\* The server has an offer, or the session, of attempt t.
Offered(t) ==
  AckExpected(OwnId(t)) /\ handshake_states_[OwnId(t)].session_id = t
Established(t) ==
  has_session(OwnId(t)) /\ active_clients_[OwnId(t)].session_id = t

\* An offer that is acknowledged, though not handled so far, or a session.
AckOf(t, m) == IsAck(m) /\ Sender(m) = t
Pursued(t) ==
  \/ /\ Offered(t)
     /\ establishing = OwnId(t) \/ \E m \in Pending : AckOf(t, m)
  \/ Established(t)

\* The server that is running is the first one, or has worked for id.
Known(id) == NeverRestarted \/ AckExpected(id) \/ has_session(id)

\* What a client was promised is kept, by a server that can have promised it.
PromiseTo(c) ==
  LET t == attempt(c) IN
  Known(OwnId(t)) =>
    /\ (\E m \in Received(c) : HelloTo(c, m)) => Offered(t)
    /\ cpc[c] \in {"wait_ack", "active"} => Pursued(t)

PromiseIn(m) ==
  LET t == Sender(m) IN
  Known(OwnId(t)) =>
    /\ IsAck(m) => Offered(t)
    /\ IsTermination(m) => Pursued(t)

PromisesInv ==
  /\ \A c \in Clients : PromiseTo(c)
  /\ \A m \in Pending : PromiseIn(m)

\* The addresses that the present run of c was told, or will read.
Told(c) ==
  {Text(m).assigned_client_ip : m \in {r \in Received(c) : HelloTo(c, r)}}
    \cup (IF cpc[c] \in {"wait_ack", "active"}
          THEN {session_config_[c].client_address} ELSE {})

\* Both ends mean the same address, and two clients of one server another.
SameAddress(c) ==
  LET t == attempt(c) IN
  \A ip \in Told(c) :
    /\ Offered(t) => handshake_states_[OwnId(t)].client_address = ip
    /\ Established(t) => active_clients_[OwnId(t)].client_address = ip

OtherAddress ==
  server_starts = 1 =>
    \A c, d \in Clients :
      \A x \in Told(c), y \in Told(d) : c # d => ~Clash(x, y)

AddressesInv == OtherAddress /\ \A c \in Clients : SameAddress(c)

-----------------------------------------------------------------------------
\* It holds as long as no client acts on an answer to another attempt.
TrustedInv ==
  /\ Ordered /\ NotAhead
  /\ MessagesInv /\ ServiceInv /\ AnswersInv /\ ClientsInv
  /\ PromisesInv /\ AddressesInv

(***************************************************************************)
(* Queues, handshakes, keys and sessions of the server, and what clients   *)
(* took from its answers, tell the same story of every attempt: how far it *)
(* got at either end, under which identifier and key, with which address.  *)
(* That the handlers look at one message at a time, and hardly ever at     *)
(* whom it is from, does not matter: it is all in the order of the queues. *)
(***************************************************************************)
AttemptsInv == ProcessInv /\ (Trusted => TrustedInv)
=============================================================================
