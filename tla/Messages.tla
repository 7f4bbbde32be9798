------------------------------ MODULE Messages ------------------------------
(***************************************************************************)
(* The messages of the command channel, as records whose fields are the    *)
(* names that cereal writes.  Fields that are constant, or a function of   *)
(* the fields kept here (server_address, the two topics of an identifier,  *)
(* authentication data, the reason of a termination), are left out.        *)
(*                                                                         *)
(* One run of the client program draws one key pair and one handshake      *)
(* identifier, both random: an attempt names them.  The same goes for what *)
(* the server draws when it answers (a time stamp in the unique identifier *)
(* and in the session identifier, a key pair): it is named by the attempt  *)
(* it answers.                                                             *)
(***************************************************************************)
EXTENDS Integers, Sequences

CONSTANTS Clients,      \* the values of --client-id
          MaxStarts,    \* bound: how often each client program is run
          None          \* an absent entry, key or message

ASSUME MaxStartsAssumption == MaxStarts \in Nat

\* <<c, n>>: the n-th run of client c.
Attempt == Clients \X (1 .. MaxStarts)

\* <<c, 0>> is the base identifier of c; <<c, n>> is the unique identifier
\* that the server makes of it, by appending "_" and the time, for attempt n.
Id == Clients \X (0 .. MaxStarts)

BaseId(c) == <<c, 0>>

\* The session keys of both directions follow from the two ephemeral keys.
SharedKey(client_key, server_key) == <<client_key, server_key>>

Key == Attempt \X Attempt

Mode == {"CONNECTION", "GATEWAY"}

-----------------------------------------------------------------------------
ClientHelloCrypto(id, key) ==
  [message_identifier |-> "CLIENT_HELLO_CRYPTO",
   client_base_id |-> id, client_ephemeral_public_key |-> key]

ServerHelloCrypto(id, key) ==
  [message_identifier |-> "SERVER_HELLO_CRYPTO",
   unique_identifier |-> id, server_ephemeral_public_key |-> key]

ClientHello(id, h, mode) ==
  [message_identifier |-> "CLIENT_HELLO",
   client_base_id |-> id, handshake_identifier |-> h, tunnel_mode |-> mode]

ServerHello(id, h, ip, sid) ==
  [message_identifier |-> "SERVER_HELLO", assigned_client_id_ |-> id,
   handshake_identifier |-> h, assigned_client_ip |-> ip, session_id |-> sid]

ClientACK(id, h) ==
  [message_identifier |-> "CLIENT_ACK",
   client_id |-> id, handshake_identifier |-> h]

ServerACK(h) ==
  [message_identifier |-> "SERVER_ACK", handshake_identifier |-> h]

SessionTermination(id, sid) ==
  [message_identifier |-> "SESSION_TERMINATION",
   client_id |-> id, session_id |-> sid]

\* A sealed message: only the holder of the key can open it.
EncryptedWrapper(id, key, m) ==
  [message_identifier |-> "ENCRYPTED_WRAPPER",
   client_id |-> id, encrypted_payload |-> [key |-> key, plain |-> m]]

-----------------------------------------------------------------------------
\* cereal looks the fields of a struct up by name and throws when one is
\* missing; it ignores the others, and no from_string() looks at the type.
ParsesAs(fields, m) == fields \subseteq DOMAIN m

ServerHelloCryptoFields ==
  {"message_identifier", "unique_identifier", "server_ephemeral_public_key"}

ServerHelloFields ==
  {"message_identifier", "handshake_identifier", "assigned_client_id_",
   "assigned_client_ip", "session_id"}

ServerACKFields == {"message_identifier", "handshake_identifier"}

EncryptedWrapperFields ==
  {"message_identifier", "client_id", "encrypted_payload"}

-----------------------------------------------------------------------------
\* What each side can put on its topic, for the type invariants.
ClientHelloCryptos ==
  [message_identifier : {"CLIENT_HELLO_CRYPTO"}, client_base_id : Id,
   client_ephemeral_public_key : Attempt]

ServerHelloCryptos ==
  [message_identifier : {"SERVER_HELLO_CRYPTO"}, unique_identifier : Id,
   server_ephemeral_public_key : Attempt]

ClientHellos ==
  [message_identifier : {"CLIENT_HELLO"}, client_base_id : Id,
   handshake_identifier : Attempt, tunnel_mode : Mode]

ServerHellos ==
  [message_identifier : {"SERVER_HELLO"}, assigned_client_id_ : Id,
   handshake_identifier : Attempt, assigned_client_ip : Nat,
   session_id : Attempt]

ClientACKs ==
  [message_identifier : {"CLIENT_ACK"}, client_id : Id,
   handshake_identifier : Attempt]

ServerACKs ==
  [message_identifier : {"SERVER_ACK"}, handshake_identifier : Attempt]

SessionTerminations ==
  [message_identifier : {"SESSION_TERMINATION"}, client_id : Id,
   session_id : Attempt]

Wrappers(plain) ==
  [message_identifier : {"ENCRYPTED_WRAPPER"}, client_id : Id,
   encrypted_payload : [key : Key, plain : plain]]

ClientMessage ==
  ClientHelloCryptos \cup ClientHellos \cup ClientACKs
    \cup SessionTerminations \cup Wrappers(ClientHellos \cup ClientACKs)

ServerMessage ==
  ServerHelloCryptos \cup ServerHellos \cup ServerACKs
    \cup Wrappers(ServerHellos \cup ServerACKs)
=============================================================================
