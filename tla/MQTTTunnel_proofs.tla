-------------------------- MODULE MQTTTunnel_proofs --------------------------
(***************************************************************************)
(* Proofs about the tunnel, for every set of clients, size of the pool,    *)
(* choice of modes and faults, and for any number of runs.                 *)
(*                                                                         *)
(* Types first.  They need to know that a handshake that waits for its     *)
(* ClientACK has a key when the server encrypts, and what a client has got *)
(* by the time it waits for something else: Inv.  On top of it come the    *)
(* addresses.                                                              *)
(***************************************************************************)
EXTENDS MQTTTunnel, IPPool_proofs

-----------------------------------------------------------------------------
\* Messages and queues.

\* Attempts, base identifiers and unique identifiers are identifiers.
LEMMA Identifiers ==
  /\ \A c \in Clients : BaseId(c) \in Id
  /\ \A x \in Attempt : x \in Id
  /\ \A id \in Id, x \in Attempt : <<id[1], x[2]>> \in Id
BY MaxStartsAssumption DEF BaseId, Id, Attempt

\* Appending keeps a queue a queue, and reading it yields one of its messages.
LEMMA Queues ==
  ASSUME NEW M, NEW q \in Seq(M)
  PROVE  /\ \A m \in M : Append(q, m) \in Seq(M)
         /\ q # <<>> => Head(q) \in M /\ Tail(q) \in Seq(M)
         /\ <<>> \in Seq(M)
OBVIOUS

LEMMA SendToServer ==
  ASSUME rx \in Seq(ClientMessage), NEW m \in ClientMessage, ToServer(m)
  PROVE  rx' \in Seq(ClientMessage)
BY Queues DEF ToServer

LEMMA SendToClients ==
  ASSUME inbox \in [Clients -> Seq(ServerMessage)],
         NEW m \in ServerMessage, ToClients(m)
  PROVE  inbox' \in [Clients -> Seq(ServerMessage)]
<1>1. \A c \in Clients : Append(inbox[c], m) \in Seq(ServerMessage)
  BY Queues
<1> QED
  BY <1>1 DEF ToClients

LEMMA ConsumeOne ==
  ASSUME inbox \in [Clients -> Seq(ServerMessage)],
         NEW c \in Clients, inbox[c] # <<>>, Consume(c)
  PROVE  inbox' \in [Clients -> Seq(ServerMessage)]
<1>1. Tail(inbox[c]) \in Seq(ServerMessage)
  BY Queues
<1> QED
  BY <1>1 DEF Consume

LEMMA LeaveChannel ==
  ASSUME inbox \in [Clients -> Seq(ServerMessage)],
         listeners \subseteq Clients \cup {Server},
         NEW c \in Clients, ClientLeaves(c)
  PROVE  /\ inbox' \in [Clients -> Seq(ServerMessage)]
         /\ listeners' \subseteq Clients \cup {Server}
BY Queues DEF ClientLeaves

-----------------------------------------------------------------------------
\* A message of the server is of the type whose fields it has.
LEMMA ParsedServerHelloCrypto ==
  ASSUME NEW m \in ServerMessage, ParsesAs(ServerHelloCryptoFields, m)
  PROVE  m \in ServerHelloCryptos
<1>1. "unique_identifier" \in DOMAIN m
  BY DEF ParsesAs, ServerHelloCryptoFields
<1>2. m \notin ServerHellos
  BY <1>1 DEF ServerHellos
<1>3. m \notin ServerACKs
  BY <1>1 DEF ServerACKs
<1>4. m \notin Wrappers(ServerHellos \cup ServerACKs)
  BY <1>1 DEF Wrappers
<1> QED
  BY <1>2, <1>3, <1>4 DEF ServerMessage

LEMMA ParsedServerHello ==
  ASSUME NEW m \in ServerMessage, ParsesAs(ServerHelloFields, m)
  PROVE  m \in ServerHellos
<1>1. "assigned_client_ip" \in DOMAIN m
  BY DEF ParsesAs, ServerHelloFields
<1>2. m \notin ServerHelloCryptos
  BY <1>1 DEF ServerHelloCryptos
<1>3. m \notin ServerACKs
  BY <1>1 DEF ServerACKs
<1>4. m \notin Wrappers(ServerHellos \cup ServerACKs)
  BY <1>1 DEF Wrappers
<1> QED
  BY <1>2, <1>3, <1>4 DEF ServerMessage

LEMMA ParsedWrapper ==
  ASSUME NEW m \in ServerMessage, ParsesAs(EncryptedWrapperFields, m)
  PROVE  m.encrypted_payload.plain \in ServerHellos \cup ServerACKs
<1>1. "encrypted_payload" \in DOMAIN m
  BY DEF ParsesAs, EncryptedWrapperFields
<1>2. m \notin ServerHelloCryptos
  BY <1>1 DEF ServerHelloCryptos
<1>3. m \notin ServerHellos
  BY <1>1 DEF ServerHellos
<1>4. m \notin ServerACKs
  BY <1>1 DEF ServerACKs
<1>5. m \in Wrappers(ServerHellos \cup ServerACKs)
  BY <1>2, <1>3, <1>4 DEF ServerMessage
<1> QED
  BY <1>5 DEF Wrappers

\* What may be sealed may be sent as it is, and under a key.
LEMMA SealedByServer ==
  ASSUME NEW m \in ServerHellos \cup ServerACKs, NEW id \in Id, NEW key \in Key
  PROVE  /\ m \in ServerMessage
         /\ EncryptedWrapper(id, key, m) \in ServerMessage
BY DEF ServerMessage, EncryptedWrapper, Wrappers

LEMMA SealedByClient ==
  ASSUME NEW m \in ClientHellos \cup ClientACKs, NEW id \in Id, NEW key \in Key
  PROVE  /\ m \in ClientMessage
         /\ EncryptedWrapper(id, key, m) \in ClientMessage
BY DEF ClientMessage, EncryptedWrapper, Wrappers

-----------------------------------------------------------------------------
\* The server's half and the clients' half of the invariant.
ServerInv == ServerTypeOK /\ AckCanBeSealed
ClientInv == ClientTypeOK /\ ClientProgress

Inv == ChannelTypeOK /\ ServerInv /\ ClientInv

\* The loop reads a message, and hands on contents that fit their type.
LEMMA Payload ==
  ASSUME ChannelTypeOK, rx # <<>>
  PROVE  /\ Tail(rx) \in Seq(ClientMessage)
         /\ payload.message_identifier = "CLIENT_HELLO_CRYPTO" =>
              payload \in ClientHelloCryptos
         /\ payload.message_identifier = "CLIENT_HELLO" =>
              payload \in ClientHellos
         /\ payload.message_identifier = "CLIENT_ACK" => payload \in ClientACKs
         /\ payload.message_identifier = "SESSION_TERMINATION" =>
              payload \in SessionTerminations
<1>1. msg \in ClientMessage /\ Tail(rx) \in Seq(ClientMessage)
  BY Queues DEF ChannelTypeOK, msg
<1>2. CASE msg \in Wrappers(ClientHellos \cup ClientACKs)
  <2>1. payload \in ClientHellos \cup ClientACKs
    BY <1>2 DEF payload, Wrappers
  <2> QED
    BY <1>1, <2>1 DEF ClientHellos, ClientACKs
<1>3. CASE msg \notin Wrappers(ClientHellos \cup ClientACKs)
  <2>1. msg \in ClientHelloCryptos \cup ClientHellos \cup ClientACKs
                  \cup SessionTerminations
    BY <1>1, <1>3 DEF ClientMessage
  <2>2. payload = msg
    BY <2>1
    DEF payload, ClientHelloCryptos, ClientHellos, ClientACKs,
        SessionTerminations
  <2> QED
    BY <1>1, <2>1, <2>2
    DEF ClientHelloCryptos, ClientHellos, ClientACKs, SessionTerminations
<1> QED
  BY <1>2, <1>3

LEMMA DefaultTyped == DefaultEntry \in SessionConfig
BY DEF DefaultEntry, SessionConfig, Mode

LEMMA EndTyped ==
  ASSUME Inv, NEW pc \in {"down", "failed"}, ServerProcessEnds(pc)
  PROVE  (ChannelTypeOK /\ ServerInv)'
BY Queues
DEF Inv, ServerInv, ServerTypeOK, ChannelTypeOK, AckCanBeSealed, AckExpected,
    ServerProcessEnds, ServerLeaves, PoolTypeOK, NoEntries

LEMMA StartTyped ==
  ASSUME Inv, StartServer
  PROVE  (ChannelTypeOK /\ ServerInv)'
BY ServerAssumption
DEF Inv, ServerInv, ServerTypeOK, ChannelTypeOK, AckCanBeSealed, AckExpected,
    CanSeal, StartServer, ServerSubscribes, PoolTypeOK, memoryVars

LEMMA HelloCryptoTyped ==
  ASSUME Inv, HandleClientHelloCrypto
  PROVE  (ChannelTypeOK /\ ServerInv)'
<1> DEFINE uid == unique_identifier(payload)
           key == payload.client_ephemeral_public_key
<1>1. payload \in ClientHelloCryptos /\ Tail(rx) \in Seq(ClientMessage)
  BY Payload DEF HandleClientHelloCrypto, Handles, Consumes, Inv
<1>2. uid \in Id /\ key \in Attempt
  BY <1>1, Identifiers DEF unique_identifier, ClientHelloCryptos
<1>3. ServerHelloCrypto(uid, key) \in ServerMessage
  BY <1>2 DEF ServerHelloCrypto, ServerHelloCryptos, ServerMessage
<1>4. ChannelTypeOK'
  BY <1>1, <1>3, SendToClients DEF HandleClientHelloCrypto, Inv, ChannelTypeOK
<1>5. /\ session_map_' \in [Id -> Key \cup {None}]
      /\ \A i \in Id : session_map_[i] # None => session_map_'[i] # None
  BY <1>2
  DEF HandleClientHelloCrypto, establish_server_session, SharedKey, Key, Inv,
      ServerInv, ServerTypeOK
<1>6. PICK entry \in SessionConfig :
        /\ entry.session_state = "HANDSHAKE_CLIENT_HELLO"
        /\ handshake_states_' = [handshake_states_ EXCEPT ![uid] = entry]
  <2> DEFINE old == IF handshake_states_[uid] = None
                    THEN DefaultEntry ELSE handshake_states_[uid]
             new == [old EXCEPT !.session_state = "HANDSHAKE_CLIENT_HELLO"]
  <2>1. old \in SessionConfig
    BY <1>2, DefaultTyped DEF Inv, ServerInv, ServerTypeOK
  <2>2. new \in SessionConfig /\ new.session_state = "HANDSHAKE_CLIENT_HELLO"
    BY <2>1 DEF SessionConfig
  <2>3. handshake_states_' = [handshake_states_ EXCEPT ![uid] = new]
    BY DEF HandleClientHelloCrypto
  <2> QED
    BY <2>2, <2>3
<1>7. ServerTypeOK'
  BY <1>2, <1>5, <1>6
  DEF HandleClientHelloCrypto, Inv, ServerInv, ServerTypeOK, PoolTypeOK
<1>8. AckCanBeSealed'
  <2> SUFFICES ASSUME NEW i \in Id, AckExpected(i)' PROVE CanSeal(i)'
    BY DEF AckCanBeSealed
  <2>1. i # uid
    BY <1>2, <1>6 DEF AckExpected, Inv, ServerInv, ServerTypeOK
  <2>2. AckExpected(i)
    BY <1>6, <2>1 DEF AckExpected, Inv, ServerInv, ServerTypeOK
  <2> QED
    BY <1>5, <2>2 DEF Inv, ServerInv, AckCanBeSealed, CanSeal
<1> QED
  BY <1>4, <1>7, <1>8 DEF ServerInv

LEMMA HelloTyped ==
  ASSUME Inv, HandleClientHello
  PROVE  (ChannelTypeOK /\ ServerInv)'
<1> DEFINE id == payload.client_base_id
           h == payload.handshake_identifier
<1>1. payload \in ClientHellos /\ Tail(rx) \in Seq(ClientMessage)
  BY Payload DEF HandleClientHello, Handles, Consumes, Inv
<1>2. id \in Id /\ h \in Attempt /\ payload.tunnel_mode \in Mode
  BY <1>1 DEF ClientHellos
<1>3. PICK ip \in Address \cup {NoAddress} :
        /\ allocate_ip(ip)
        /\ ToClients(Seal(id, ServerHello(id, h, ip, h)))
        /\ handshake_states_' =
             [handshake_states_ EXCEPT ![id] = Offer(h, ip, payload.tunnel_mode)]
  BY DEF HandleClientHello
<1>4. CanSeal(id)
  BY DEF HandleClientHello
<1>5. ServerHello(id, h, ip, h) \in ServerHellos
  BY <1>2, PoolSizeAssumption DEF ServerHello, ServerHellos, Address, NoAddress
<1>6. Seal(id, ServerHello(id, h, ip, h)) \in ServerMessage
  <2>1. ServerEncrypts => session_map_[id] \in Key
    BY <1>2, <1>4 DEF CanSeal, Inv, ServerInv, ServerTypeOK
  <2> QED
    BY <1>2, <1>5, <2>1, SealedByServer DEF Seal, ServerMessage
<1>7. ChannelTypeOK'
  BY <1>1, <1>3, <1>6, SendToClients DEF HandleClientHello, Inv, ChannelTypeOK
<1>8. Offer(h, ip, payload.tunnel_mode) \in SessionConfig
  BY <1>2 DEF Offer, SessionConfig
<1>9. PoolTypeOK'
  BY <1>3, PoolTyped DEF Inv, ServerInv, ServerTypeOK
<1>10. ServerTypeOK'
  BY <1>2, <1>3, <1>8, <1>9 DEF HandleClientHello, Inv, ServerInv, ServerTypeOK
<1>11. AckCanBeSealed'
  <2> SUFFICES ASSUME NEW i \in Id, AckExpected(i)' PROVE CanSeal(i)'
    BY DEF AckCanBeSealed
  <2>1. CASE i = id
    BY <1>4, <2>1 DEF HandleClientHello, CanSeal
  <2>2. CASE i # id
    <3>1. AckExpected(i)
      BY <1>3, <2>2 DEF AckExpected, Inv, ServerInv, ServerTypeOK
    <3> QED
      BY <3>1 DEF HandleClientHello, Inv, ServerInv, AckCanBeSealed, CanSeal
  <2> QED
    BY <2>1, <2>2
<1> QED
  BY <1>7, <1>10, <1>11 DEF ServerInv

LEMMA AckTyped ==
  ASSUME Inv, HandleClientAck
  PROVE  (ChannelTypeOK /\ ServerInv)'
<1> DEFINE id == payload.client_id
           entry == handshake_states_[id]
<1>1. payload \in ClientACKs /\ Tail(rx) \in Seq(ClientMessage)
  BY Payload DEF HandleClientAck, Handles, Consumes, Inv
<1>2. /\ id \in Id
      /\ entry.handshake_identifier \in Attempt
      /\ AckExpected(id)
  BY <1>1 DEF ClientACKs, HandleClientAck
<1>3. Seal(id, ServerACK(entry.handshake_identifier)) \in ServerMessage
  <2>1. ServerEncrypts => session_map_[id] \in Key
    BY <1>2 DEF AckCanBeSealed, CanSeal, Inv, ServerInv, ServerTypeOK
  <2>2. ServerACK(entry.handshake_identifier) \in ServerACKs
    BY <1>2 DEF ServerACK, ServerACKs
  <2> QED
    BY <1>2, <2>1, <2>2, SealedByServer DEF Seal, ServerMessage
<1>4. ChannelTypeOK'
  BY <1>1, <1>3, SendToClients DEF HandleClientAck, Inv, ChannelTypeOK
<1>5. ServerTypeOK'
  BY <1>2 DEF HandleClientAck, Inv, ServerInv, ServerTypeOK, PoolTypeOK
<1>6. AckCanBeSealed'
  BY DEF HandleClientAck, Inv, ServerInv, AckCanBeSealed, AckExpected, CanSeal
<1> QED
  BY <1>4, <1>5, <1>6 DEF ServerInv

LEMMA FinishTyped ==
  ASSUME Inv, FinishClientAck
  PROVE  (ChannelTypeOK /\ ServerInv)'
<1>1. establishing \in Id
  BY DEF FinishClientAck, Inv, ServerInv, ServerTypeOK
<1>n. nat' \subseteq Address \X {24, 32} /\ routes' \subseteq Address
  BY DEF FinishClientAck, ConfigureNetwork, AddMasquerade, AddRoute, Inv,
         ServerInv, ServerTypeOK
<1>2. ServerTypeOK'
  BY <1>1, <1>n, DefaultTyped
  DEF FinishClientAck, add_session, EraseHandshake, Inv, ServerInv,
      ServerTypeOK, PoolTypeOK
<1>3. AckCanBeSealed'
  <2> SUFFICES ASSUME NEW i \in Id, AckExpected(i)' PROVE CanSeal(i)'
    BY DEF AckCanBeSealed
  <2>1. i # establishing
    BY <1>1
    DEF FinishClientAck, EraseHandshake, AckExpected, DefaultEntry, Inv,
        ServerInv, ServerTypeOK
  <2>2. AckExpected(i)
    BY <1>1, <2>1
    DEF FinishClientAck, EraseHandshake, AckExpected, Inv, ServerInv,
        ServerTypeOK
  <2> QED
    BY <2>2 DEF FinishClientAck, Inv, ServerInv, AckCanBeSealed, CanSeal
<1>4. ChannelTypeOK'
  BY DEF FinishClientAck, Inv, ChannelTypeOK, channelVars
<1> QED
  BY <1>2, <1>3, <1>4 DEF ServerInv

\* A session that is looked up has an address of the pool, or "".
LEMMA SessionTyped ==
  ASSUME ServerTypeOK, NEW id \in Id, has_session(id)
  PROVE  active_clients_[id].client_address \in Address \cup {NoAddress}
<1>1. active_clients_[id] \in SessionConfig
  BY DEF ServerTypeOK, has_session
<1> QED
  BY <1>1 DEF SessionConfig

LEMMA TerminationTyped ==
  ASSUME Inv, HandleSessionTermination
  PROVE  (ChannelTypeOK /\ ServerInv)'
<1> DEFINE id == payload.client_id
<1>1. payload \in SessionTerminations /\ Tail(rx) \in Seq(ClientMessage)
  BY Payload DEF HandleSessionTermination, Handles, Consumes, Inv
<1>2. id \in Id /\ has_session(id)
  BY <1>1 DEF SessionTerminations, HandleSessionTermination
<1>3. PoolTypeOK'
  BY <1>2, SessionTyped, PoolTyped
  DEF HandleSessionTermination, Inv, ServerInv, ServerTypeOK
<1>4. nat' \subseteq Address \X {24, 32}
  BY DEF HandleSessionTermination, RemoveMasquerade, Inv, ServerInv,
         ServerTypeOK
<1>5. ServerTypeOK'
  BY <1>2, <1>3, <1>4
  DEF HandleSessionTermination, remove_session, Inv, ServerInv, ServerTypeOK
<1>6. AckCanBeSealed'
  BY DEF HandleSessionTermination, Inv, ServerInv, AckCanBeSealed, AckExpected,
         CanSeal
<1>7. ChannelTypeOK'
  BY <1>1 DEF HandleSessionTermination, Inv, ChannelTypeOK
<1> QED
  BY <1>5, <1>6, <1>7 DEF ServerInv

\* A message that changes nothing but the queue.
LEMMA DropTyped ==
  ASSUME Inv, rx # <<>>, rx' = Tail(rx), UNCHANGED <<serverVars, inbox, listeners>>
  PROVE  (ChannelTypeOK /\ ServerInv)'
<1>1. ChannelTypeOK'
  BY Payload DEF Inv, ChannelTypeOK
<1>2. ServerInv'
  BY DEF Inv, ServerInv, ServerTypeOK, AckCanBeSealed, AckExpected, CanSeal,
         PoolTypeOK, serverVars, memoryVars
<1> QED
  BY <1>1, <1>2

LEMMA ServerStepTyped ==
  ASSUME Inv, ServerStep
  PROVE  Inv'
<1>1. ClientInv'
  BY DEF ServerStep, clientVars, Inv, ClientInv, ClientTypeOK, ClientProgress
<1>2. ASSUME ServerLoop PROVE (ChannelTypeOK /\ ServerInv)'
  <2>1. CASE RejectClientHello
    BY <2>1, DropTyped DEF RejectClientHello, Handles, Consumes
  <2>2. CASE RejectClientAck
    BY <2>2, DropTyped DEF RejectClientAck, Handles, Consumes
  <2>3. CASE IgnoreSessionTermination
    BY <2>3, DropTyped DEF IgnoreSessionTermination, Handles, Consumes
  <2>4. CASE ThrowUndecryptable \/ ThrowCannotSeal \/ ThrowAckMismatch
    BY <2>4, EndTyped DEF ThrowUndecryptable, ThrowCannotSeal, ThrowAckMismatch
  <2> QED
    BY <1>2, <2>1, <2>2, <2>3, <2>4, HelloCryptoTyped, HelloTyped, AckTyped,
       FinishTyped, TerminationTyped
    DEF ServerLoop
<1>3. ASSUME StopServer \/ KillServer
     PROVE (ChannelTypeOK /\ ServerInv)'
  BY <1>3, EndTyped DEF StopServer, KillServer
<1>4. ASSUME StartServer
     PROVE (ChannelTypeOK /\ ServerInv)'
  BY <1>4, StartTyped
<1>5. (ChannelTypeOK /\ ServerInv)'
  BY <1>2, <1>3, <1>4 DEF ServerStep
<1> QED
  BY <1>1, <1>5 DEF Inv

-----------------------------------------------------------------------------
\* What a client has read and could use, by what it waits for.
LEMMA ReadMessage ==
  ASSUME Inv, NEW c \in Clients, inbox[c] # <<>>
  PROVE  Head(inbox[c]) \in ServerMessage
BY Queues DEF Inv, ChannelTypeOK

LEMMA ReadableServerHello ==
  ASSUME NEW c \in Clients, NEW m \in ServerMessage,
         Readable(c, m, ServerHelloFields)
  PROVE  Plain(c, m) \in ServerHellos
<1>1. CASE c \in EncryptedClients
  <2>1. m.encrypted_payload.plain \in ServerHellos \cup ServerACKs
    BY <1>1, ParsedWrapper DEF Readable
  <2>2. m.encrypted_payload.plain \in ServerMessage
    BY <2>1 DEF ServerMessage
  <2> QED
    BY <1>1, <2>2, ParsedServerHello DEF Readable, Plain
<1>2. CASE c \notin EncryptedClients
  BY <1>2, ParsedServerHello DEF Readable, Plain
<1> QED
  BY <1>1, <1>2

LEMMA AttemptTyped ==
  ASSUME Inv, NEW c \in Clients, cpc[c] # "off"
  PROVE  attempt(c) \in Attempt
BY MaxStartsAssumption
DEF Inv, ClientInv, ClientTypeOK, ClientProgress, attempt, Attempt

LEMMA ProcessEndTyped ==
  ASSUME Inv, NEW c \in Clients, ProcessEnds(c), rx' \in Seq(ClientMessage)
  PROVE  (ChannelTypeOK /\ ClientInv)'
<1>1. ChannelTypeOK'
  BY LeaveChannel DEF ProcessEnds, Inv, ChannelTypeOK
<1>2. ClientTypeOK'
  BY Identifiers DEF ProcessEnds, Inv, ClientInv, ClientTypeOK, Mode, Waiting
<1>3. ClientProgress'
  BY DEF ProcessEnds, Inv, ClientInv, ClientTypeOK, ClientProgress
<1> QED
  BY <1>1, <1>2, <1>3 DEF ClientInv

LEMMA ConnectTyped ==
  ASSUME Inv, NEW c \in Clients, ConnectCommandChannel(c)
  PROVE  (ChannelTypeOK /\ ClientInv)'
<1>1. ChannelTypeOK'
  BY DEF ConnectCommandChannel, ClientSubscribes, Inv, ChannelTypeOK
<1>2. PICK mode \in Mode : tunnel_mode_' = [tunnel_mode_ EXCEPT ![c] = mode]
  BY ClientAssumption DEF ConnectCommandChannel
<1>3. ClientTypeOK'
  BY <1>2, MaxStartsAssumption
  DEF ConnectCommandChannel, Inv, ClientInv, ClientTypeOK, Waiting
<1>4. ClientProgress'
  BY DEF ConnectCommandChannel, Inv, ClientInv, ClientTypeOK, ClientProgress
<1> QED
  BY <1>1, <1>3, <1>4 DEF ClientInv

LEMMA SendFirstTyped ==
  ASSUME Inv, NEW c \in Clients, SendClientHelloCrypto(c) \/ SendClientHello(c)
  PROVE  (ChannelTypeOK /\ ClientInv)'
<1>1. cpc[c] = "connected"
  BY DEF SendClientHelloCrypto, SendClientHello
<1>2. attempt(c) \in Attempt /\ BaseId(c) \in Id /\ tunnel_mode_[c] \in Mode
  BY <1>1, AttemptTyped, Identifiers DEF Inv, ClientInv, ClientTypeOK
<1>3. /\ ClientHelloCrypto(BaseId(c), attempt(c)) \in ClientMessage
      /\ ClientHello(BaseId(c), attempt(c), tunnel_mode_[c]) \in ClientMessage
  BY <1>2
  DEF ClientHelloCrypto, ClientHello, ClientHelloCryptos, ClientHellos,
      ClientMessage
<1>4. ChannelTypeOK'
  BY <1>3, SendToServer
  DEF SendClientHelloCrypto, SendClientHello, Inv, ChannelTypeOK
<1>5. ClientTypeOK'
  BY DEF SendClientHelloCrypto, SendClientHello, Inv, ClientInv, ClientTypeOK,
         Waiting
<1>6. ClientProgress'
  BY <1>1
  DEF SendClientHelloCrypto, SendClientHello, Inv, ClientInv, ClientTypeOK,
      ClientProgress
<1> QED
  BY <1>4, <1>5, <1>6 DEF ClientInv

LEMMA ReceiveHelloCryptoTyped ==
  ASSUME Inv, NEW c \in Clients, ReceiveServerHelloCrypto(c)
  PROVE  (ChannelTypeOK /\ ClientInv)'
<1> DEFINE hello == Head(inbox[c])
           uid == hello.unique_identifier
           key == SharedKey(attempt(c), hello.server_ephemeral_public_key)
           answer == ClientHello(uid, attempt(c), tunnel_mode_[c])
<1>1. hello \in ServerHelloCryptos
  BY ReadMessage, ParsedServerHelloCrypto DEF ReceiveServerHelloCrypto
<1>2. /\ attempt(c) \in Attempt
      /\ uid \in Id
      /\ key \in Key
      /\ hello.server_ephemeral_public_key \in Attempt
  BY <1>1, AttemptTyped
  DEF ReceiveServerHelloCrypto, ServerHelloCryptos, SharedKey, Key
<1>3. answer \in ClientHellos
  BY <1>2 DEF ClientHello, ClientHellos, Inv, ClientInv, ClientTypeOK
<1>4. ClientSeal(c, uid, key, answer) \in ClientMessage
  BY <1>2, <1>3, SealedByClient DEF ClientSeal
<1>5. ChannelTypeOK'
  BY <1>4, SendToServer, ConsumeOne
  DEF ReceiveServerHelloCrypto, Inv, ChannelTypeOK
<1>6. ClientTypeOK'
  <2>1. crosstalk' \in BOOLEAN
    BY DEF ReceiveServerHelloCrypto, Inv, ClientInv, ClientTypeOK
  <2> QED
    BY <1>2, <2>1
    DEF ReceiveServerHelloCrypto, Inv, ClientInv, ClientTypeOK, Waiting
<1>7. session_key'[c] # None
  <2>1. None \notin Key
    BY NoneAssumption
  <2> QED
    BY <1>2, <2>1 DEF ReceiveServerHelloCrypto, Inv, ClientInv, ClientTypeOK
<1>8. ClientProgress'
  BY <1>7
  DEF ReceiveServerHelloCrypto, Inv, ClientInv, ClientTypeOK, ClientProgress
<1> QED
  BY <1>5, <1>6, <1>8 DEF ClientInv

LEMMA ReceiveHelloTyped ==
  ASSUME Inv, NEW c \in Clients, ReceiveServerHello(c)
  PROVE  (ChannelTypeOK /\ ClientInv)'
<1> DEFINE hello == Plain(c, Head(inbox[c]))
           config == [client_id |-> hello.assigned_client_id_,
                      client_address |-> hello.assigned_client_ip,
                      session_id |-> hello.session_id]
           ack == ClientACK(hello.assigned_client_id_,
                            hello.handshake_identifier)
<1>1. Head(inbox[c]) \in ServerMessage /\ hello \in ServerHellos
  BY ReadMessage, ReadableServerHello DEF ReceiveServerHello
<1>2. config \in ClientConfig /\ ack \in ClientACKs
  BY <1>1 DEF ServerHellos, ClientConfig, ClientACK, ClientACKs
<1>3. ClientSeal(c, client_base_id_[c], session_key[c], ack) \in ClientMessage
  <2>1. c \in EncryptedClients => session_key[c] \in Key
    BY DEF ReceiveServerHello, Inv, ClientInv, ClientTypeOK, ClientProgress
  <2>2. client_base_id_[c] \in Id
    BY DEF Inv, ClientInv, ClientTypeOK
  <2> QED
    BY <1>2, <2>1, <2>2, SealedByClient DEF ClientSeal, ClientMessage
<1>4. ChannelTypeOK'
  BY <1>3, SendToServer, ConsumeOne DEF ReceiveServerHello, Inv, ChannelTypeOK
<1>5. ClientTypeOK'
  <2>1. crosstalk' \in BOOLEAN
    BY DEF ReceiveServerHello, Inv, ClientInv, ClientTypeOK
  <2> QED
    BY <1>1, <1>2, <2>1
    DEF ReceiveServerHello, Inv, ClientInv, ClientTypeOK, Waiting
<1>6. config # None /\ Head(inbox[c]) # None
  BY <1>1, <1>2, NoneAssumption
<1>7. ClientProgress'
  BY <1>6
  DEF ReceiveServerHello, Inv, ClientInv, ClientTypeOK, ClientProgress
<1> QED
  BY <1>4, <1>5, <1>7 DEF ClientInv

LEMMA ActiveTyped ==
  ASSUME Inv, NEW c \in Clients, cpc[c] = "wait_ack", BecomesActive(c)
  PROVE  (ChannelTypeOK /\ ClientInv)'
<1>1. ChannelTypeOK'
  BY LeaveChannel DEF BecomesActive, Inv, ChannelTypeOK
<1>2. ClientTypeOK'
  BY DEF BecomesActive, Inv, ClientInv, ClientTypeOK
<1>3. ClientProgress'
  BY DEF BecomesActive, Inv, ClientInv, ClientTypeOK, ClientProgress
<1> QED
  BY <1>1, <1>2, <1>3 DEF ClientInv

LEMMA StopTyped ==
  ASSUME Inv, NEW c \in Clients, StopTunnel(c)
  PROVE  (ChannelTypeOK /\ ClientInv)'
<1>1. session_config_[c] \in ClientConfig
  BY DEF StopTunnel, Inv, ClientInv, ClientTypeOK, ClientProgress
<1>2. SessionTermination(session_config_[c].client_id,
                         session_config_[c].session_id) \in ClientMessage
  BY <1>1
  DEF ClientConfig, SessionTermination, SessionTerminations, ClientMessage
<1>3. rx' \in Seq(ClientMessage)
  BY <1>2, SendToServer DEF StopTunnel, Inv, ChannelTypeOK
<1> QED
  BY <1>3, ProcessEndTyped DEF StopTunnel

LEMMA ClientStepTyped ==
  ASSUME Inv, NEW c \in Clients, ClientStep(c)
  PROVE  Inv'
<1>1. ServerInv'
  BY DEF ClientStep, serverVars, memoryVars, Inv, ServerInv, ServerTypeOK,
         PoolTypeOK, AckCanBeSealed, AckExpected, CanSeal
<1>2. ASSUME ProcessEnds(c), UNCHANGED rx PROVE (ChannelTypeOK /\ ClientInv)'
  BY <1>2, ProcessEndTyped DEF Inv, ChannelTypeOK
<1>3. ASSUME SetupStep(c)
     PROVE (ChannelTypeOK /\ ClientInv)'
  <2>1. ASSUME ReceiveServerAck(c)
       PROVE (ChannelTypeOK /\ ClientInv)'
    BY <2>1, ActiveTyped DEF ReceiveServerAck
  <2>2. ASSUME ThrowUnusable(c)
       PROVE (ChannelTypeOK /\ ClientInv)'
    BY <1>2, <2>2 DEF ThrowUnusable
  <2> QED
    BY <1>3, <2>1, <2>2, SendFirstTyped, ReceiveHelloCryptoTyped,
       ReceiveHelloTyped
    DEF SetupStep
<1>4. ASSUME Timeout(c)
     PROVE (ChannelTypeOK /\ ClientInv)'
  <2>1. ASSUME HelloTimeout(c)
       PROVE (ChannelTypeOK /\ ClientInv)'
    BY <1>2, <2>1 DEF HelloTimeout
  <2>2. ASSUME AckTimeout(c)
       PROVE (ChannelTypeOK /\ ClientInv)'
    BY <1>2, <2>2, ActiveTyped DEF AckTimeout
  <2> QED
    BY <1>4, <2>1, <2>2 DEF Timeout
<1>5. ASSUME Crash(c)
     PROVE (ChannelTypeOK /\ ClientInv)'
  BY <1>2, <1>5 DEF Crash
<1>6. (ChannelTypeOK /\ ClientInv)'
  BY <1>3, <1>4, <1>5, ConnectTyped, StopTyped DEF ClientStep
<1> QED
  BY <1>1, <1>6 DEF Inv

-----------------------------------------------------------------------------
LEMMA InvInit == Init => Inv
<1> SUFFICES ASSUME Init PROVE Inv
  OBVIOUS
<1>1. ChannelTypeOK
  BY Queues DEF Init, ChannelInit, ChannelTypeOK
<1>2. ServerInv
  BY ServerAssumption
  DEF Init, ServerInit, ServerInv, ServerTypeOK, AckCanBeSealed, AckExpected,
      PoolInit, PoolTypeOK, NoEntries
<1>3. ClientTypeOK
  <2>1. \A c \in Clients : BaseId(c) \in Id
    BY Identifiers
  <2>2. client_base_id_ \in [Clients -> Id]
    BY <2>1 DEF Init, ClientInit
  <2>3. starts \in [Clients -> 0 .. MaxStarts]
    BY MaxStartsAssumption DEF Init, ClientInit
  <2> QED
    BY <2>2, <2>3 DEF Init, ClientInit, ClientTypeOK, Mode
<1>4. ClientProgress
  BY DEF Init, ClientInit, ClientProgress
<1> QED
  BY <1>1, <1>2, <1>3, <1>4 DEF Inv, ClientInv

LEMMA InvNext == Inv /\ [Next]_vars => Inv'
<1> SUFFICES ASSUME Inv, [Next]_vars PROVE Inv'
  OBVIOUS
<1>1. CASE UNCHANGED vars
  BY <1>1
  DEF vars, serverVars, memoryVars, clientVars, channelVars, Inv, ServerInv,
      ClientInv, ChannelTypeOK, ServerTypeOK, ClientTypeOK, PoolTypeOK,
      AckCanBeSealed, AckExpected, CanSeal, ClientProgress
<1> QED
  BY <1>1, ServerStepTyped, ClientStepTyped DEF Next

(***************************************************************************)
(* Type correctness of server, clients and channel.  In particular every   *)
(* message that is read has the fields the reader looks at, and the server *)
(* never seals an answer without a key.                                    *)
(***************************************************************************)
THEOREM TypeCorrect == Spec => []TypeOK
<1>1. Inv => TypeOK
  BY DEF Inv, ServerInv, ClientInv, TypeOK
<1> QED
  BY <1>1, InvInit, InvNext, PTL DEF Spec

-----------------------------------------------------------------------------
\* The addresses.  Exclusive and reserved need each other: a new address is
\* nobody else's because what others have is reserved, and a release leaves
\* the others' reserved because the released one is nobody else's.
AddressInv == AddressExclusive /\ AddressReserved

IInv == Inv /\ AddressInv

LEMMA AddressTyped ==
  ASSUME ServerTypeOK, NEW id \in Id
  PROVE  /\ HandshakeAddress(id) \in Address \cup {NoAddress}
         /\ SessionAddress(id) \in Address \cup {NoAddress}
BY DEF ServerTypeOK, SessionConfig, HandshakeAddress, SessionAddress, AddressOf

\* Nothing is allocated or released, and no address gets another owner.
LEMMA AddressesKept ==
  ASSUME AddressInv, UNCHANGED ip_usage,
         \A id \in Id : /\ HandshakeAddress(id)' \in {HandshakeAddress(id), NoAddress}
                        /\ SessionAddress(id)' \in {SessionAddress(id), NoAddress}
  PROVE  AddressInv'
<1>1. AddressExclusive'
  BY DEF AddressInv, AddressExclusive, Clash
<1>2. AddressReserved'
  BY DEF AddressInv, AddressReserved, InUse
<1> QED
  BY <1>1, <1>2 DEF AddressInv

LEMMA SameAddresses ==
  ASSUME AddressInv, UNCHANGED <<ip_usage, handshake_states_, active_clients_>>
  PROVE  AddressInv'
BY DEF AddressInv, AddressExclusive, AddressReserved, Clash, InUse,
       HandshakeAddress, SessionAddress, AddressOf

LEMMA EndAddresses ==
  ASSUME NEW pc, ServerProcessEnds(pc)
  PROVE  AddressInv'
BY DEF ServerProcessEnds, NoEntries, AddressInv, AddressExclusive,
       AddressReserved, Clash, InUse, HandshakeAddress, SessionAddress,
       AddressOf

LEMMA HelloCryptoAddresses ==
  ASSUME IInv, HandleClientHelloCrypto
  PROVE  AddressInv'
<1> DEFINE uid == unique_identifier(payload)
<1>1. uid \in Id
  <2>1. payload \in ClientHelloCryptos
    BY Payload DEF HandleClientHelloCrypto, Handles, Consumes, IInv, Inv
  <2> QED
    BY <2>1, Identifiers DEF unique_identifier, ClientHelloCryptos
<1>2. handshake_states_ \in [Id -> SessionConfig \cup {None}]
  BY DEF IInv, Inv, ServerInv, ServerTypeOK
<1>3. \A id \in Id :
        HandshakeAddress(id)' \in {HandshakeAddress(id), NoAddress}
  <2> SUFFICES ASSUME NEW id \in Id
               PROVE  HandshakeAddress(id)' \in {HandshakeAddress(id), NoAddress}
    OBVIOUS
  <2>1. CASE id # uid
    BY <1>1, <1>2, <2>1
    DEF HandleClientHelloCrypto, HandshakeAddress, AddressOf
  <2>2. CASE id = uid /\ handshake_states_[uid] = None
    <3> DEFINE new == [DefaultEntry EXCEPT
                         !.session_state = "HANDSHAKE_CLIENT_HELLO"]
    <3>1. handshake_states_'[uid] = new
      BY <1>1, <1>2, <2>2 DEF HandleClientHelloCrypto
    <3>2. new.client_address = NoAddress
      BY DEF DefaultEntry
    <3> HIDE DEF new, uid
    <3> QED
      BY <2>2, <3>1, <3>2 DEF HandshakeAddress, AddressOf
  <2>3. CASE id = uid /\ handshake_states_[uid] # None
    <3> DEFINE old == handshake_states_[uid]
               new == [old EXCEPT !.session_state = "HANDSHAKE_CLIENT_HELLO"]
    <3>1. handshake_states_'[uid] = new
      BY <1>1, <1>2, <2>3 DEF HandleClientHelloCrypto
    <3>2. old \in SessionConfig
      BY <1>1, <1>2, <2>3
    <3>3. new.client_address = old.client_address
      BY <3>2 DEF SessionConfig
    <3> HIDE DEF new, uid
    <3> QED
      BY <2>3, <3>1, <3>3 DEF HandshakeAddress, AddressOf
  <2> QED
    BY <2>1, <2>2, <2>3
<1>4. \A id \in Id : SessionAddress(id)' = SessionAddress(id)
  BY DEF HandleClientHelloCrypto, SessionAddress, AddressOf
<1> QED
  BY <1>3, <1>4, AddressesKept DEF HandleClientHelloCrypto, IInv

LEMMA HelloAddresses ==
  ASSUME IInv, HandleClientHello
  PROVE  AddressInv'
<1> DEFINE h == payload.handshake_identifier
<1>1. PICK id \in Id : id = payload.client_base_id
  BY Payload DEF HandleClientHello, Handles, Consumes, IInv, Inv, ClientHellos
<1>2. PICK ip \in Address \cup {NoAddress} :
        /\ allocate_ip(ip)
        /\ handshake_states_' =
             [handshake_states_ EXCEPT ![id] = Offer(h, ip, payload.tunnel_mode)]
  BY <1>1 DEF HandleClientHello
<1>3. /\ ServerTypeOK /\ PoolTypeOK
      /\ handshake_states_ \in [Id -> SessionConfig \cup {None}]
  BY DEF IInv, Inv, ServerInv, ServerTypeOK
<1>4. Offer(h, ip, payload.tunnel_mode) # None
  <2>1. payload \in ClientHellos
    BY Payload DEF HandleClientHello, Handles, Consumes, IInv, Inv
  <2>2. Offer(h, ip, payload.tunnel_mode) \in SessionConfig
    BY <2>1 DEF ClientHellos, Offer, SessionConfig
  <2> QED
    BY <2>2, NoneAssumption
<1>5. HandshakeAddress(id)' = ip
  BY <1>1, <1>2, <1>3, <1>4 DEF HandshakeAddress, AddressOf, Offer
<1>6. \A i \in Id : /\ i # id => HandshakeAddress(i)' = HandshakeAddress(i)
                    /\ SessionAddress(i)' = SessionAddress(i)
  BY <1>1, <1>2, <1>3
  DEF HandleClientHello, HandshakeAddress, SessionAddress, AddressOf
<1>7. CASE ip = NoAddress
  <2>1. UNCHANGED ip_usage
    BY <1>2, <1>3, <1>7, AllocateNothing
  <2> QED
    BY <1>5, <1>6, <1>7, <2>1, AddressesKept DEF IInv
<1>8. CASE ip \in Address
  <2>1. /\ ip_usage[ip - 1] = FALSE
        /\ ip_usage' = [ip_usage EXCEPT ![ip - 1] = TRUE]
    BY <1>2, <1>3, <1>8, AllocateAddress
  <2>2. \A i \in Id : HandshakeAddress(i) # ip /\ SessionAddress(i) # ip
    <3>1. ip # NoAddress
      BY <1>8, PoolSizeAssumption DEF Address, NoAddress
    <3> QED
      BY <2>1, <3>1 DEF IInv, AddressInv, AddressReserved, InUse
  <2>3. AddressExclusive'
    BY <1>1, <1>5, <1>6, <2>2
    DEF IInv, AddressInv, AddressExclusive, Clash
  <2>4. \A a : InUse(a) /\ a \in Address \cup {NoAddress} => InUse(a)'
    BY <1>3, <2>1, SlotOfAddress DEF InUse, PoolTypeOK
  <2>5. InUse(ip)'
    BY <1>3, <1>8, <2>1, SlotOfAddress DEF InUse, PoolTypeOK
  <2>6. AddressReserved'
    BY <1>3, <1>5, <1>6, <2>4, <2>5, AddressTyped
    DEF IInv, AddressInv, AddressReserved, InUse
  <2> QED
    BY <2>3, <2>6 DEF AddressInv
<1> QED
  BY <1>2, <1>7, <1>8

LEMMA FinishAddresses ==
  ASSUME IInv, FinishClientAck
  PROVE  AddressInv'
<1>1. PICK e \in Id : e = establishing
  BY DEF FinishClientAck, IInv, Inv, ServerInv, ServerTypeOK
<1>2. /\ handshake_states_ \in [Id -> SessionConfig \cup {None}]
      /\ active_clients_ \in [Id -> SessionConfig \cup {None}]
  BY DEF IInv, Inv, ServerInv, ServerTypeOK
<1>3. SessionAddress(e)' = HandshakeAddress(e)
  BY <1>1, <1>2
  DEF FinishClientAck, add_session, HandshakeAddress, SessionAddress, AddressOf
<1>4. HandshakeAddress(e)' = NoAddress
  BY <1>1, <1>2
  DEF FinishClientAck, EraseHandshake, DefaultEntry, HandshakeAddress, AddressOf
<1>5. \A i \in Id : i # e => /\ HandshakeAddress(i)' = HandshakeAddress(i)
                             /\ SessionAddress(i)' = SessionAddress(i)
  BY <1>1, <1>2
  DEF FinishClientAck, add_session, EraseHandshake, HandshakeAddress,
      SessionAddress, AddressOf
<1>6. AddressExclusive'
  BY <1>1, <1>2, <1>3, <1>4, <1>5 DEF IInv, AddressInv, AddressExclusive, Clash
<1>7. AddressReserved'
  BY <1>1, <1>2, <1>3, <1>4, <1>5
  DEF FinishClientAck, IInv, AddressInv, AddressReserved, InUse
<1> QED
  BY <1>6, <1>7 DEF AddressInv

LEMMA TerminationAddresses ==
  ASSUME IInv, HandleSessionTermination
  PROVE  AddressInv'
<1>1. PICK id \in Id, a \in Address \cup {NoAddress} :
        /\ id = payload.client_id
        /\ has_session(id)
        /\ a = active_clients_[id].client_address
        /\ release_ip(a)
  BY Payload, SessionTyped
  DEF HandleSessionTermination, Handles, Consumes, IInv, Inv,
      ServerInv, SessionTerminations
<1>2. /\ ServerTypeOK /\ PoolTypeOK
      /\ active_clients_ \in [Id -> SessionConfig \cup {None}]
  BY DEF IInv, Inv, ServerInv, ServerTypeOK
<1>3. SessionAddress(id) = a
  BY <1>1 DEF has_session, SessionAddress, AddressOf
<1>4. /\ SessionAddress(id)' = NoAddress
      /\ \A i \in Id : /\ HandshakeAddress(i)' = HandshakeAddress(i)
                       /\ i # id => SessionAddress(i)' = SessionAddress(i)
  BY <1>1, <1>2
  DEF HandleSessionTermination, remove_session, HandshakeAddress,
      SessionAddress, AddressOf
<1>5. CASE a = NoAddress
  <2>1. UNCHANGED ip_usage
    BY <1>1, <1>5 DEF release_ip, Releasable, NoAddress
  <2> QED
    BY <1>1, <1>4, <2>1, AddressesKept DEF IInv
<1>6. CASE a \in Address
  <2>1. ip_usage' = [ip_usage EXCEPT ![a - 1] = FALSE]
    BY <1>1, <1>2, <1>6, ReleaseAddress
  <2>2. a # NoAddress
    BY <1>6, PoolSizeAssumption DEF Address, NoAddress
  <2>3. \A i \in Id : /\ HandshakeAddress(i) # a
                      /\ i # id => SessionAddress(i) # a
    BY <1>1, <1>3, <2>2 DEF IInv, AddressInv, AddressExclusive, Clash
  <2>4. AddressExclusive'
    BY <1>1, <1>4 DEF IInv, AddressInv, AddressExclusive, Clash
  <2>5. \A b \in Address \cup {NoAddress} : b # a /\ InUse(b) => InUse(b)'
    BY <1>2, <1>6, <2>1, SlotOfAddress DEF InUse, PoolTypeOK
  <2>6. AddressReserved'
    BY <1>1, <1>2, <1>4, <2>3, <2>5, AddressTyped
    DEF IInv, AddressInv, AddressReserved, InUse
  <2> QED
    BY <2>4, <2>6 DEF AddressInv
<1> QED
  BY <1>5, <1>6

LEMMA AddressNext == IInv /\ [Next]_vars => AddressInv'
<1> SUFFICES ASSUME IInv, [Next]_vars PROVE AddressInv'
  OBVIOUS
<1>1. ASSUME UNCHANGED <<ip_usage, handshake_states_, active_clients_>>
      PROVE  AddressInv'
  BY <1>1, SameAddresses DEF IInv
<1>2. CASE UNCHANGED vars
  BY <1>1, <1>2 DEF vars, serverVars, memoryVars
<1>3. ASSUME NEW c \in Clients, ClientStep(c) PROVE AddressInv'
  BY <1>1, <1>3 DEF ClientStep, serverVars, memoryVars
<1>4. ASSUME StartServer \/ HandleClientAck PROVE AddressInv'
  BY <1>1, <1>4 DEF StartServer, HandleClientAck, memoryVars
<1>5. ASSUME RejectClientHello \/ RejectClientAck \/ IgnoreSessionTermination
      PROVE  AddressInv'
  BY <1>1, <1>5
  DEF RejectClientHello, RejectClientAck, IgnoreSessionTermination,
      serverVars, memoryVars
<1>6. ASSUME StopServer \/ KillServer \/ ThrowUndecryptable \/ ThrowCannotSeal
               \/ ThrowAckMismatch
      PROVE  AddressInv'
  BY <1>6, EndAddresses
  DEF StopServer, KillServer, ThrowUndecryptable, ThrowCannotSeal,
      ThrowAckMismatch
<1>7. ASSUME ServerStep PROVE AddressInv'
  BY <1>4, <1>5, <1>6, <1>7, HelloCryptoAddresses, HelloAddresses,
     FinishAddresses, TerminationAddresses
  DEF ServerStep, ServerLoop
<1> QED
  BY <1>2, <1>3, <1>7 DEF Next

LEMMA AddressInit == Init => AddressInv
BY DEF Init, ServerInit, NoEntries, AddressInv, AddressExclusive,
       AddressReserved, Clash, InUse, HandshakeAddress, SessionAddress,
       AddressOf

LEMMA IInvHolds == Spec => []IInv
<1>1. Init => IInv
  BY InvInit, AddressInit DEF IInv
<1>2. IInv /\ [Next]_vars => IInv'
  BY InvNext, AddressNext DEF IInv
<1> QED
  BY <1>1, <1>2, PTL DEF Spec

(***************************************************************************)
(* No tunnel address ever belongs to two clients, whatever clients, server *)
(* and waits do, for any number of clients, runs and addresses.            *)
(***************************************************************************)
THEOREM AddressesExclusive == Spec => []AddressExclusive
<1>1. IInv => AddressExclusive
  BY DEF IInv, AddressInv
<1> QED
  BY <1>1, IInvHolds, PTL

(***************************************************************************)
(* The pool never hands out an address that is still in use.               *)
(***************************************************************************)
THEOREM AddressesReserved == Spec => []AddressReserved
<1>1. IInv => AddressReserved
  BY DEF IInv, AddressInv
<1> QED
  BY <1>1, IInvHolds, PTL
=============================================================================
