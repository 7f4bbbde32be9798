---------------------------- MODULE TunnelServer ----------------------------
(***************************************************************************)
(* The control side of the tunnel server: the loop of start_server(),      *)
(* handle_client_handshake(), the sessions they keep and the network       *)
(* configuration they change.  All of it runs on the main thread.          *)
(*                                                                         *)
(* An exception that leaves a handler leaves the loop and ends the         *)
(* process.  What the process keeps in memory ends with it, and so do the  *)
(* device tun0 with its routes and the subscriptions of its clean session; *)
(* the iptables rules stay.                                                *)
(***************************************************************************)
EXTENDS CommandChannel, SessionMap, IPPool

CONSTANTS ServerEncrypts,    \* encryption_enabled_, FALSE with --insecure
          MaxServerStarts    \* bound: how often the server program is run

ASSUME ServerAssumption ==
  ServerEncrypts \in BOOLEAN /\ MaxServerStarts \in Nat

VARIABLES
  serverPc,            \* "down", "running", or "failed": ended by an exception
  server_starts,       \* how often the program was run
  establishing,        \* identifier whose ACK is being worked on, or None
  handshake_states_,   \* handshake entry of each identifier, or None
  session_map_,        \* session key of each identifier, or None
  routes,              \* addresses with a route to tun0
  nat,                 \* MASQUERADE rules: source address and prefix length
  data_subscriptions   \* identifiers whose outbound topic is subscribed

memoryVars == <<ip_usage, establishing, handshake_states_, active_clients_,
                session_map_, routes, data_subscriptions>>

serverVars == <<memoryVars, serverPc, server_starts, nat>>

\* The session identifier, drawn when the entry is written, and the handshake
\* identifier of the hello it answers are the same attempt.
SessionConfig ==
  [client_address : Address \cup {NoAddress},
   session_id : Attempt \cup {None},
   handshake_identifier : Attempt \cup {None},
   session_state : {"HANDSHAKE_CLIENT_HELLO", "HANDSHAKE_CLIENT_ACK"},
   tunnel_mode : Mode]

\* What operator[] of the map puts under a key it does not find: the enums are
\* zero, which is HANDSHAKE_CLIENT_HELLO and CONNECTION.
DefaultEntry ==
  [client_address |-> NoAddress, session_id |-> None,
   handshake_identifier |-> None,
   session_state |-> "HANDSHAKE_CLIENT_HELLO", tunnel_mode |-> "CONNECTION"]

ServerInit ==
  /\ serverPc = "down"
  /\ server_starts = 0
  /\ PoolInit
  /\ establishing = None
  /\ handshake_states_ = NoEntries
  /\ active_clients_ = NoEntries
  /\ session_map_ = NoEntries
  /\ routes = {}
  /\ nat = {}
  /\ data_subscriptions = {}

ServerTypeOK ==
  /\ serverPc \in {"down", "running", "failed"}
  /\ server_starts \in 0 .. MaxServerStarts
  /\ PoolTypeOK
  /\ establishing \in Id \cup {None}
  /\ handshake_states_ \in [Id -> SessionConfig \cup {None}]
  /\ active_clients_ \in [Id -> SessionConfig \cup {None}]
  /\ session_map_ \in [Id -> Key \cup {None}]
  /\ routes \subseteq Address
  /\ nat \subseteq Address \X {24, 32}
  /\ data_subscriptions \subseteq Id

-----------------------------------------------------------------------------
\* The network configuration.  A command with an empty address is refused by
\* the system, and the program does not look at the result of system().
AddRoute(ip) == routes' = routes \cup ({ip} \cap Address)

AddMasquerade(ip) == nat' = nat \cup (({ip} \cap Address) \X {32})

ConfigureNetwork(entry) ==
  /\ AddRoute(entry.client_address)
  /\ IF entry.tunnel_mode = "GATEWAY"
     THEN AddMasquerade(entry.client_address)
     ELSE UNCHANGED nat

\* Mutant: the table is flushed.
RemoveMasquerade_flush(ip) == nat' = {}

\* iptables -D removes the rule it is given, prefix length included.
RemoveMasquerade(ip) == nat' = nat \ {<<ip, 24>>}

-----------------------------------------------------------------------------
StartServer ==
  /\ serverPc # "running"
  /\ server_starts < MaxServerStarts
  /\ serverPc' = "running"
  /\ server_starts' = server_starts + 1
  /\ ServerSubscribes
  /\ UNCHANGED <<memoryVars, nat>>

\* Mutant: sessions survive the process, the pool that knows their addresses
\* does not.
ServerProcessEnds_keeps_sessions(pc) ==
  /\ serverPc' = pc
  /\ ip_usage' = [i \in Slot |-> FALSE]
  /\ establishing' = None
  /\ handshake_states_' = NoEntries
  /\ session_map_' = NoEntries
  /\ routes' = {}
  /\ data_subscriptions' = {}
  /\ ServerLeaves
  /\ UNCHANGED <<active_clients_, server_starts, nat>>

ServerProcessEnds(pc) ==
  /\ serverPc' = pc
  /\ ip_usage' = [i \in Slot |-> FALSE]
  /\ establishing' = None
  /\ handshake_states_' = NoEntries
  /\ active_clients_' = NoEntries
  /\ session_map_' = NoEntries
  /\ routes' = {}
  /\ data_subscriptions' = {}
  /\ ServerLeaves
  /\ UNCHANGED <<server_starts, nat>>

\* SIGINT: the loop looks at the run flag between two messages.
StopServer ==
  /\ serverPc = "running"
  /\ establishing = None
  /\ ServerProcessEnds("down")

\* The process is killed, in the middle of the ACK's handler if need be.
KillServer ==
  /\ serverPc = "running"
  /\ ServerProcessEnds("down")

-----------------------------------------------------------------------------
msg == Head(rx)

\* A wrapper opens with the key the server has under the identifier on it.
Opens(m) ==
  m.message_identifier = "ENCRYPTED_WRAPPER" =>
    session_map_[m.client_id] = m.encrypted_payload.key

payload == IF msg.message_identifier = "ENCRYPTED_WRAPPER"
           THEN msg.encrypted_payload.plain
           ELSE msg

Consumes == serverPc = "running" /\ establishing = None /\ rx # <<>>

\* The loop holds a message that it can open, of the given type.
Handles(type) ==
  /\ Consumes
  /\ Opens(msg)
  /\ payload.message_identifier = type

\* encrypt_data() throws for an identifier without a key.
CanSeal(id) == ServerEncrypts => session_map_[id] # None

\* Mutant: whoever has a key gets a sealed answer.
Seal_keyed(id, m) == IF session_map_[id] # None
                     THEN EncryptedWrapper(id, session_map_[id], m)
                     ELSE m

Seal(id, m) == IF ServerEncrypts
               THEN EncryptedWrapper(id, session_map_[id], m)
               ELSE m

\* Mutant: no time stamp.
unique_identifier_base(hello) == hello.client_base_id

\* The time stamp is that of no other call.
unique_identifier(hello) ==
  <<hello.client_base_id[1], hello.client_ephemeral_public_key[2]>>

\* Mutant: the key is stored under the identifier that the client sent.
establish_server_session_base(id, key) ==
  session_map_' = [session_map_ EXCEPT ![BaseId(id[1])] =
                     IF @ = None THEN SharedKey(key, key) ELSE @]

\* emplace() leaves a key alone that is already there.
establish_server_session(id, key) ==
  session_map_' = [session_map_ EXCEPT ![id] =
                     IF @ = None THEN SharedKey(key, key) ELSE @]

HandleClientHelloCrypto ==
  /\ Handles("CLIENT_HELLO_CRYPTO")
  /\ rx' = Tail(rx)
  /\ LET uid == unique_identifier(payload)
         key == payload.client_ephemeral_public_key
     IN /\ establish_server_session(uid, key)
        /\ ToClients(ServerHelloCrypto(uid, key))
        /\ handshake_states_' =
             [handshake_states_ EXCEPT ![uid] =
                [(IF @ = None THEN DefaultEntry ELSE @)
                   EXCEPT !.session_state = "HANDSHAKE_CLIENT_HELLO"]]
  /\ UNCHANGED <<ip_usage, establishing, active_clients_, routes,
                 data_subscriptions, serverPc, server_starts, nat, listeners>>

\* A hello is taken from an identifier without an entry, or whose entry is at
\* HANDSHAKE_CLIENT_HELLO.
HelloExpected(id) ==
  handshake_states_[id] # None =>
    handshake_states_[id].session_state = "HANDSHAKE_CLIENT_HELLO"

\* Mutants: the state is named after the message sent; the handshake
\* identifier is not kept.
Offer_server_hello(h, ip, mode) ==
  [client_address |-> ip, session_id |-> h, handshake_identifier |-> h,
   session_state |-> "HANDSHAKE_SERVER_HELLO", tunnel_mode |-> mode]
Offer_no_identifier(h, ip, mode) ==
  [client_address |-> ip, session_id |-> h, handshake_identifier |-> None,
   session_state |-> "HANDSHAKE_CLIENT_ACK", tunnel_mode |-> mode]

\* The session that a ServerHello offers, until it is acknowledged.
Offer(h, ip, mode) ==
  [client_address |-> ip, session_id |-> h, handshake_identifier |-> h,
   session_state |-> "HANDSHAKE_CLIENT_ACK", tunnel_mode |-> mode]

\* Mutant: an identifier without a key is answered in the clear.
HandleClientHello_in_clear ==
  /\ Handles("CLIENT_HELLO")
  /\ rx' = Tail(rx)
  /\ LET id == payload.client_base_id
         h == payload.handshake_identifier
     IN /\ HelloExpected(id)
        /\ \E ip \in Address \cup {NoAddress} :
             /\ allocate_ip(ip)
             /\ ToClients(IF session_map_[id] = None
                          THEN ServerHello(id, h, ip, h)
                          ELSE Seal(id, ServerHello(id, h, ip, h)))
             /\ handshake_states_' =
                  [handshake_states_ EXCEPT
                     ![id] = Offer(h, ip, payload.tunnel_mode)]
  /\ UNCHANGED <<establishing, active_clients_, session_map_, routes,
                 data_subscriptions, serverPc, server_starts, nat, listeners>>

HandleClientHello ==
  /\ Handles("CLIENT_HELLO")
  /\ rx' = Tail(rx)
  /\ LET id == payload.client_base_id
         h == payload.handshake_identifier
     IN /\ HelloExpected(id)
        /\ CanSeal(id)
        /\ \E ip \in Address \cup {NoAddress} :
             /\ allocate_ip(ip)
             /\ ToClients(Seal(id, ServerHello(id, h, ip, h)))
             /\ handshake_states_' =
                  [handshake_states_ EXCEPT
                     ![id] = Offer(h, ip, payload.tunnel_mode)]
  /\ UNCHANGED <<establishing, active_clients_, session_map_, routes,
                 data_subscriptions, serverPc, server_starts, nat, listeners>>

\* A warning in the log is all that comes of it.
RejectClientHello ==
  /\ Handles("CLIENT_HELLO")
  /\ ~HelloExpected(payload.client_base_id)
  /\ rx' = Tail(rx)
  /\ UNCHANGED <<serverVars, inbox, listeners>>

AckExpected(id) ==
  /\ handshake_states_[id] # None
  /\ handshake_states_[id].session_state = "HANDSHAKE_CLIENT_ACK"

\* The handler publishes the ServerACK before it does anything else: the client
\* may run ahead, and the server be killed, with nothing else in place.  The
\* key for the answer is there: the hello that made the entry was answered with
\* it.
HandleClientAck ==
  /\ Handles("CLIENT_ACK")
  /\ rx' = Tail(rx)
  /\ LET id == payload.client_id
         h == handshake_states_[id].handshake_identifier
     IN /\ AckExpected(id)
        /\ h = payload.handshake_identifier
        /\ ToClients(Seal(id, ServerACK(h)))
        /\ establishing' = id
  /\ UNCHANGED <<ip_usage, handshake_states_, active_clients_, session_map_,
                 routes, nat, data_subscriptions, serverPc, server_starts,
                 listeners>>

\* Mutant: the entry stays.
EraseHandshake_forgets(id) == UNCHANGED handshake_states_

\* erase(), and operator[] in the log message after it.
EraseHandshake(id) ==
  handshake_states_' = [handshake_states_ EXCEPT ![id] = DefaultEntry]

\* Mutant: erased first, so that operator[] adds a default session.
FinishClientAck_erases_first ==
  /\ establishing # None
  /\ ConfigureNetwork(handshake_states_[establishing])
  /\ data_subscriptions' = data_subscriptions \cup {establishing}
  /\ EraseHandshake(establishing)
  /\ add_session(establishing, handshake_states_'[establishing])
  /\ establishing' = None
  /\ UNCHANGED <<ip_usage, session_map_, serverPc, server_starts, channelVars>>

\* The rest of the call.  It is one step: no other process looks at what it
\* changes, and of a server killed in the middle of it the rule is all that
\* stays, as it does when the server is killed right behind it.
FinishClientAck ==
  /\ establishing # None
  /\ ConfigureNetwork(handshake_states_[establishing])
  /\ data_subscriptions' = data_subscriptions \cup {establishing}
  /\ add_session(establishing, handshake_states_[establishing])
  /\ EraseHandshake(establishing)
  /\ establishing' = None
  /\ UNCHANGED <<ip_usage, session_map_, serverPc, server_starts, channelVars>>

RejectClientAck ==
  /\ Handles("CLIENT_ACK")
  /\ ~AckExpected(payload.client_id)
  /\ rx' = Tail(rx)
  /\ UNCHANGED <<serverVars, inbox, listeners>>

\* The session is looked up by client_id alone.
HandleSessionTermination ==
  /\ Handles("SESSION_TERMINATION")
  /\ rx' = Tail(rx)
  /\ LET id == payload.client_id
         session == active_clients_[id]
     IN /\ has_session(id)
        /\ IF session.tunnel_mode = "GATEWAY"
           THEN RemoveMasquerade(session.client_address)
           ELSE UNCHANGED nat
        /\ remove_session(id)
        /\ release_ip(session.client_address)
  /\ UNCHANGED <<establishing, handshake_states_, session_map_, routes,
                 data_subscriptions, serverPc, server_starts, inbox, listeners>>

IgnoreSessionTermination ==
  /\ Handles("SESSION_TERMINATION")
  /\ ~has_session(payload.client_id)
  /\ rx' = Tail(rx)
  /\ UNCHANGED <<serverVars, inbox, listeners>>

-----------------------------------------------------------------------------
\* decrypt_data(): no key under the identifier, or not the sender's key.
ThrowUndecryptable ==
  /\ Consumes
  /\ ~Opens(msg)
  /\ ServerProcessEnds("failed")

\* encrypt_data(): the answer is due to an identifier without a key.
ThrowCannotSeal ==
  /\ Handles("CLIENT_HELLO")
  /\ HelloExpected(payload.client_base_id)
  /\ ~CanSeal(payload.client_base_id)
  /\ ServerProcessEnds("failed")

ThrowAckMismatch ==
  /\ Handles("CLIENT_ACK")
  /\ AckExpected(payload.client_id)
  /\ handshake_states_[payload.client_id].handshake_identifier
       # payload.handshake_identifier
  /\ ServerProcessEnds("failed")

\* One step of the loop that has work to do.
ServerLoop ==
  \/ HandleClientHelloCrypto
  \/ HandleClientHello
  \/ RejectClientHello
  \/ HandleClientAck
  \/ FinishClientAck
  \/ RejectClientAck
  \/ HandleSessionTermination
  \/ IgnoreSessionTermination
  \/ ThrowUndecryptable
  \/ ThrowCannotSeal
  \/ ThrowAckMismatch

-----------------------------------------------------------------------------
AddressOf(entry) == IF entry = None THEN NoAddress ELSE entry.client_address

HandshakeAddress(id) == AddressOf(handshake_states_[id])
SessionAddress(id) == AddressOf(active_clients_[id])

Clash(x, y) == x # NoAddress /\ x = y

(***************************************************************************)
(* No tunnel address belongs to two clients: neither to two handshakes,    *)
(* nor to two sessions, nor to a handshake and a session, the new          *)
(* handshake of a client with a session included.  get_session_by_ip()     *)
(* relies on it, and so does release_ip(), which would free the address of *)
(* another session otherwise.                                              *)
(***************************************************************************)
AddressExclusive ==
  /\ \A i, j \in Id : i # j => ~Clash(HandshakeAddress(i), HandshakeAddress(j))
  /\ \A i, j \in Id : i # j => ~Clash(SessionAddress(i), SessionAddress(j))
  /\ \A i, j \in Id : ~Clash(HandshakeAddress(i), SessionAddress(j))

InUse(ip) == ip # NoAddress => ip_usage[ip - 1]

(***************************************************************************)
(* The pool does not hand out an address that a handshake or a session     *)
(* still has: whatever is released was taken out of the sessions before.   *)
(***************************************************************************)
AddressReserved ==
  \A id \in Id : InUse(HandshakeAddress(id)) /\ InUse(SessionAddress(id))

(***************************************************************************)
(* Every address the pool counts as used is written down in a handshake or *)
(* a session: no handler drops it from the one without it being in the     *)
(* other, or free.  It does not say that the address comes back: that of a *)
(* handshake given up stays in its entry for as long as the server runs,   *)
(* since a termination looks at sessions only.  It is a property of the    *)
(* encrypted mode, where every run of a client has an identifier of its    *)
(* own: without encryption a client that comes back overwrites its old     *)
(* session, and nothing knows the address of that any more.                *)
(***************************************************************************)
UsedAddressKnown ==
  \A i \in Allocatable :
    ip_usage[i] =>
      \E id \in Id : i + 1 \in {HandshakeAddress(id), SessionAddress(id)}
=============================================================================
