-------------------------- MODULE Handshake_proofs --------------------------
(***************************************************************************)
(* Who encrypts.  What the server answers to a hello or an ACK is sealed   *)
(* exactly when the server encrypts, and a client that has got past its    *)
(* ServerHello has read such an answer.                                    *)
(***************************************************************************)
EXTENDS MQTTTunnel_proofs

\* The answers that tell a client how the server does it.
ModeShown ==
  {m \in ServerMessage :
     \/ m.message_identifier = "SERVER_HELLO_CRYPTO"
     \/ m.message_identifier = "ENCRYPTED_WRAPPER" <=> ServerEncrypts}

AnswersShowMode == inbox \in [Clients -> Seq(ModeShown)]

\* The mode of a client that waits for its ServerACK, or is done, matches.
ModesMatch ==
  \A c \in Clients :
    cpc[c] \in {"wait_ack", "active"} =>
      (c \in EncryptedClients <=> ServerEncrypts)

ModeInv == AnswersShowMode /\ ModesMatch

LEMMA AnswerShowsMode ==
  ASSUME AnswersShowMode, NEW m \in ModeShown, ToClients(m)
  PROVE  AnswersShowMode'
<1>1. \A c \in Clients : Append(inbox[c], m) \in Seq(ModeShown)
  BY Queues DEF AnswersShowMode
<1> QED
  BY <1>1 DEF AnswersShowMode, ToClients

LEMMA SealShowsMode ==
  ASSUME NEW m \in ServerHellos \cup ServerACKs, NEW id \in Id,
         ServerEncrypts => session_map_[id] \in Key
  PROVE  Seal(id, m) \in ModeShown
<1>1. m.message_identifier # "ENCRYPTED_WRAPPER"
  BY DEF ServerHellos, ServerACKs
<1>2. CASE ServerEncrypts
  <2>1. Seal(id, m) = EncryptedWrapper(id, session_map_[id], m)
    BY <1>2 DEF Seal
  <2>2. Seal(id, m) \in ServerMessage
    BY <1>2, <2>1, SealedByServer
  <2> QED
    BY <1>2, <2>1, <2>2 DEF EncryptedWrapper, ModeShown
<1>3. CASE ~ServerEncrypts
  BY <1>1, <1>3, SealedByServer DEF Seal, ServerMessage, ModeShown
<1> QED
  BY <1>2, <1>3

\* The server's answers.
LEMMA ServerShowsMode ==
  ASSUME Inv, ModeInv, ServerStep
  PROVE  ModeInv'
<1>1. ModesMatch'
  BY DEF ServerStep, clientVars, ModeInv, ModesMatch
<1>2. ASSUME UNCHANGED inbox PROVE AnswersShowMode'
  BY <1>2 DEF ModeInv, AnswersShowMode
<1>3. ASSUME HandleClientHelloCrypto PROVE AnswersShowMode'
  <2> DEFINE uid == unique_identifier(payload)
             key == payload.client_ephemeral_public_key
  <2>1. payload \in ClientHelloCryptos
    BY <1>3, Payload DEF HandleClientHelloCrypto, Handles, Consumes, Inv
  <2>2. uid \in Id /\ key \in Attempt
    BY <2>1, Identifiers DEF unique_identifier, ClientHelloCryptos
  <2>3. ServerHelloCrypto(uid, key) \in ModeShown
    BY <2>2 DEF ServerHelloCrypto, ServerHelloCryptos, ServerMessage, ModeShown
  <2> QED
    BY <1>3, <2>3, AnswerShowsMode DEF HandleClientHelloCrypto, ModeInv
<1>4. ASSUME HandleClientHello PROVE AnswersShowMode'
  <2> DEFINE id == payload.client_base_id
             h == payload.handshake_identifier
  <2>1. id \in Id /\ h \in Attempt
    BY <1>4, Payload DEF HandleClientHello, Handles, Consumes, Inv, ClientHellos
  <2>2. PICK ip \in Address \cup {NoAddress} :
          ToClients(Seal(id, ServerHello(id, h, ip, h)))
    BY <1>4 DEF HandleClientHello
  <2>3. ServerHello(id, h, ip, h) \in ServerHellos
    BY <2>1, PoolSizeAssumption DEF ServerHello, ServerHellos, Address, NoAddress
  <2>4. ServerEncrypts => session_map_[id] \in Key
    BY <1>4, <2>1
    DEF HandleClientHello, CanSeal, Inv, ServerInv, ServerTypeOK
  <2>5. Seal(id, ServerHello(id, h, ip, h)) \in ModeShown
    BY <2>1, <2>3, <2>4, SealShowsMode
  <2> QED
    BY <2>2, <2>5, AnswerShowsMode DEF ModeInv
<1>5. ASSUME HandleClientAck PROVE AnswersShowMode'
  <2> DEFINE id == payload.client_id
             h == handshake_states_[id].handshake_identifier
  <2>1. id \in Id /\ h \in Attempt /\ AckExpected(id)
    BY <1>5, Payload DEF HandleClientAck, Handles, Consumes, Inv, ClientACKs
  <2>2. ToClients(Seal(id, ServerACK(h)))
    BY <1>5 DEF HandleClientAck
  <2>3. ServerACK(h) \in ServerACKs
    BY <2>1 DEF ServerACK, ServerACKs
  <2>4. ServerEncrypts => session_map_[id] \in Key
    BY <2>1 DEF AckCanBeSealed, CanSeal, Inv, ServerInv, ServerTypeOK
  <2>5. Seal(id, ServerACK(h)) \in ModeShown
    BY <2>1, <2>3, <2>4, SealShowsMode
  <2> QED
    BY <2>2, <2>5, AnswerShowsMode DEF ModeInv
<1>6. AnswersShowMode'
  BY <1>2, <1>3, <1>4, <1>5
  DEF ServerStep, ServerLoop, StartServer, ServerSubscribes, StopServer,
      KillServer, ServerProcessEnds, ServerLeaves, RejectClientHello,
      FinishClientAck, channelVars, RejectClientAck, HandleSessionTermination,
      IgnoreSessionTermination, ThrowUndecryptable, ThrowCannotSeal,
      ThrowAckMismatch
<1> QED
  BY <1>1, <1>6 DEF ModeInv

\* A client gets past its ServerHello by a message that shows its own mode.
LEMMA HelloShowsMode ==
  ASSUME NEW c \in Clients, NEW m \in ModeShown,
         Readable(c, m, ServerHelloFields)
  PROVE  c \in EncryptedClients <=> ServerEncrypts
<1>1. m \in ServerMessage
  BY DEF ModeShown
<1>2. CASE c \in EncryptedClients
  <2>1. "encrypted_payload" \in DOMAIN m
    BY <1>2 DEF Readable, ParsesAs, EncryptedWrapperFields
  <2>2. m \in Wrappers(ServerHellos \cup ServerACKs)
    BY <1>1, <2>1
    DEF ServerMessage, ServerHelloCryptos, ServerHellos, ServerACKs
  <2>3. m.message_identifier = "ENCRYPTED_WRAPPER"
    BY <2>2 DEF Wrappers
  <2> QED
    BY <1>2, <2>3 DEF ModeShown
<1>3. CASE c \notin EncryptedClients
  <2>1. m \in ServerHellos
    BY <1>1, <1>3, ParsedServerHello DEF Readable
  <2>2. m.message_identifier = "SERVER_HELLO"
    BY <2>1 DEF ServerHellos
  <2> QED
    BY <1>3, <2>2 DEF ModeShown
<1> QED
  BY <1>2, <1>3

LEMMA ClientShowsMode ==
  ASSUME Inv, ModeInv, NEW c \in Clients, ClientStep(c)
  PROVE  ModeInv'
<1> USE DEF ModeInv, AnswersShowMode, ModesMatch
<1>t. cpc \in [Clients -> {"off", "connected", "active"} \cup Waiting]
  BY DEF Inv, ClientInv, ClientTypeOK
<1>1. ASSUME ClientLeaves(c) PROVE AnswersShowMode'
  <2>1. <<>> \in Seq(ModeShown)
    BY Queues
  <2> QED
    BY <1>1, <2>1 DEF ClientLeaves
<1>2. ASSUME inbox[c] # <<>>, Consume(c) PROVE AnswersShowMode'
  <2>1. Tail(inbox[c]) \in Seq(ModeShown)
    BY <1>2, Queues
  <2> QED
    BY <1>2, <2>1 DEF Consume
<1>3. ASSUME ProcessEnds(c) PROVE ModeInv'
  BY <1>1, <1>3, <1>t DEF ProcessEnds
<1>4. ASSUME cpc[c] = "wait_ack", BecomesActive(c) PROVE ModeInv'
  BY <1>1, <1>4, <1>t DEF BecomesActive
<1>5. ASSUME ConnectCommandChannel(c) \/ SendClientHelloCrypto(c)
               \/ SendClientHello(c)
      PROVE  ModeInv'
  BY <1>5, <1>t DEF ConnectCommandChannel, ClientSubscribes,
     SendClientHelloCrypto, SendClientHello
<1>6. ASSUME ReceiveServerHelloCrypto(c) PROVE ModeInv'
  BY <1>2, <1>6, <1>t DEF ReceiveServerHelloCrypto
<1>7. ASSUME ReceiveServerHello(c) PROVE ModeInv'
  <2>1. Head(inbox[c]) \in ModeShown
    BY <1>7, Queues DEF ReceiveServerHello
  <2>2. c \in EncryptedClients <=> ServerEncrypts
    BY <1>7, <2>1, HelloShowsMode DEF ReceiveServerHello
  <2> QED
    BY <1>2, <1>7, <1>t, <2>2 DEF ReceiveServerHello
<1>8. ASSUME SetupStep(c) PROVE ModeInv'
  BY <1>3, <1>4, <1>5, <1>6, <1>7, <1>8
  DEF SetupStep, ReceiveServerAck, ThrowUnusable
<1>9. ASSUME Timeout(c) PROVE ModeInv'
  BY <1>3, <1>4, <1>9 DEF Timeout, HelloTimeout, AckTimeout
<1> QED
  BY <1>3, <1>5, <1>8, <1>9 DEF ClientStep, StopTunnel, Crash

LEMMA ModeInvHolds == Spec => []ModeInv
<1>1. Init => ModeInv
  BY Queues DEF Init, ChannelInit, ClientInit, ModeInv, AnswersShowMode,
     ModesMatch
<1>2. Inv /\ ModeInv /\ [Next]_vars => ModeInv'
  <2> SUFFICES ASSUME Inv, ModeInv, [Next]_vars PROVE ModeInv'
    OBVIOUS
  <2>1. CASE UNCHANGED vars
    BY <2>1 DEF vars, clientVars, channelVars, ModeInv, AnswersShowMode,
       ModesMatch
  <2> QED
    BY <2>1, ServerShowsMode, ClientShowsMode DEF Next
<1>3. IInv => Inv
  BY DEF IInv
<1> QED
  BY <1>1, <1>2, <1>3, IInvHolds, PTL DEF Spec

(***************************************************************************)
(* A client and a server of which only one encrypts never get to a tunnel. *)
(***************************************************************************)
THEOREM NeverMixed ==
  Spec => []NoMixedTunnel
<1>1. ModeInv => NoMixedTunnel
  BY DEF ModeInv, ModesMatch, NoMixedTunnel
<1> QED
  BY <1>1, ModeInvHolds, PTL
=============================================================================
