---------------------------- MODULE TunnelClient ----------------------------
(***************************************************************************)
(* The client program up to the active session, and its end: main(),       *)
(* start_tunnel(), setup_session(), stop_tunnel().  One process per client *)
(* identifier, run up to MaxStarts times.                                  *)
(*                                                                         *)
(* setup_session() is straight-line code that waits three times: for the   *)
(* ServerHelloCrypto (with encryption), the ServerHello and the ServerACK. *)
(* Each wait takes the first message of the queue, whatever it is and      *)
(* whomever it answers, or gives up after three polls of an empty queue.   *)
(* What lies between two waits is one action.                              *)
(***************************************************************************)
EXTENDS CommandChannel

CONSTANTS EncryptedClients, \* those with encryption_enabled, not --insecure
          Modes             \* the tunnel modes the clients are run with

ASSUME ClientAssumption ==
  EncryptedClients \subseteq Clients /\ Modes \subseteq Mode

VARIABLES
  cpc,               \* where the program is
  starts,            \* how often it was run
  client_base_id_,   \* the identifier it was given, then the unique one
  tunnel_mode_,
  session_key,       \* the key in the session_map_ of its CryptoManager
  session_config_,   \* what the ServerHello told it
  response,          \* the last message a wait took, for the wait after it
  crosstalk          \* did any client adopt the answer to another attempt,
                     \* another client's or an earlier one of its own?
                     \* (not in the code: for the properties only)

clientVars == <<cpc, starts, client_base_id_, tunnel_mode_, session_key,
                session_config_, response, crosstalk>>

Waiting == {"wait_crypto", "wait_hello", "wait_ack"}

ClientConfig == [client_id : Id, client_address : Nat, session_id : Attempt]

ClientInit ==
  /\ cpc = [c \in Clients |-> "off"]
  /\ starts = [c \in Clients |-> 0]
  /\ client_base_id_ = [c \in Clients |-> BaseId(c)]
  /\ tunnel_mode_ = [c \in Clients |-> "CONNECTION"]
  /\ session_key = [c \in Clients |-> None]
  /\ session_config_ = [c \in Clients |-> None]
  /\ response = [c \in Clients |-> None]
  /\ crosstalk = FALSE

ClientTypeOK ==
  /\ cpc \in [Clients -> {"off", "connected", "active"} \cup Waiting]
  /\ starts \in [Clients -> 0 .. MaxStarts]
  /\ client_base_id_ \in [Clients -> Id]
  /\ tunnel_mode_ \in [Clients -> Mode]
  /\ session_key \in [Clients -> Key \cup {None}]
  /\ session_config_ \in [Clients -> ClientConfig \cup {None}]
  /\ response \in [Clients -> ServerMessage \cup {None}]
  /\ crosstalk \in BOOLEAN

\* What this run of c drew: its key pair and its handshake identifier.
attempt(c) == <<c, starts[c]>>

-----------------------------------------------------------------------------
\* start_tunnel(), connect_command_channel()
ConnectCommandChannel(c) ==
  /\ cpc[c] = "off"
  /\ starts[c] < MaxStarts
  /\ cpc' = [cpc EXCEPT ![c] = "connected"]
  /\ starts' = [starts EXCEPT ![c] = @ + 1]
  /\ \E mode \in Modes : tunnel_mode_' = [tunnel_mode_ EXCEPT ![c] = mode]
  /\ ClientSubscribes(c)
  /\ UNCHANGED <<client_base_id_, session_key, session_config_, response,
                 crosstalk>>

\* The process ends: by exit(), by an exception, or because it was stopped.
ProcessEnds(c) ==
  /\ cpc' = [cpc EXCEPT ![c] = "off"]
  /\ client_base_id_' = [client_base_id_ EXCEPT ![c] = BaseId(c)]
  /\ tunnel_mode_' = [tunnel_mode_ EXCEPT ![c] = "CONNECTION"]
  /\ session_key' = [session_key EXCEPT ![c] = None]
  /\ session_config_' = [session_config_ EXCEPT ![c] = None]
  /\ response' = [response EXCEPT ![c] = None]
  /\ ClientLeaves(c)
  /\ UNCHANGED <<starts, crosstalk>>

ClientSeal(c, id, key, m) ==
  IF c \in EncryptedClients THEN EncryptedWrapper(id, key, m) ELSE m

SendClientHelloCrypto(c) ==
  /\ c \in EncryptedClients
  /\ cpc[c] = "connected"
  /\ ToServer(ClientHelloCrypto(BaseId(c), attempt(c)))
  /\ cpc' = [cpc EXCEPT ![c] = "wait_crypto"]
  /\ UNCHANGED <<starts, client_base_id_, tunnel_mode_, session_key,
                 session_config_, response, crosstalk, inbox, listeners>>

SendClientHello(c) ==
  /\ c \notin EncryptedClients
  /\ cpc[c] = "connected"
  /\ ToServer(ClientHello(BaseId(c), attempt(c), tunnel_mode_[c]))
  /\ cpc' = [cpc EXCEPT ![c] = "wait_hello"]
  /\ UNCHANGED <<starts, client_base_id_, tunnel_mode_, session_key,
                 session_config_, response, crosstalk, inbox, listeners>>

\* Signature and format are those of any ServerHelloCrypto of the server; the
\* unique identifier and the key in it are taken over unseen.
ReceiveServerHelloCrypto(c) ==
  /\ cpc[c] = "wait_crypto"
  /\ inbox[c] # <<>>
  /\ LET hello == Head(inbox[c])
         key == SharedKey(attempt(c), hello.server_ephemeral_public_key)
     IN /\ ParsesAs(ServerHelloCryptoFields, hello)
        /\ session_key' = [session_key EXCEPT ![c] = key]
        /\ client_base_id_' = [client_base_id_ EXCEPT
                                 ![c] = hello.unique_identifier]
        /\ ToServer(ClientSeal(c, hello.unique_identifier, key,
                      ClientHello(hello.unique_identifier, attempt(c),
                                  tunnel_mode_[c])))
        /\ crosstalk' = (crosstalk \/
                         hello.server_ephemeral_public_key # attempt(c))
  /\ Consume(c)
  /\ cpc' = [cpc EXCEPT ![c] = "wait_hello"]
  /\ UNCHANGED <<starts, tunnel_mode_, session_config_, response, listeners>>

\* Message m, taken by c, has the fields of a struct once it is decrypted.
Readable(c, m, fields) ==
  IF c \in EncryptedClients
  THEN /\ ParsesAs(EncryptedWrapperFields, m)
       /\ m.encrypted_payload.key = session_key[c]
       /\ ParsesAs(fields, m.encrypted_payload.plain)
  ELSE ParsesAs(fields, m)

Plain(c, m) == IF c \in EncryptedClients THEN m.encrypted_payload.plain ELSE m

\* The answer is not compared with the question: the client becomes what the
\* ServerHello says, and acknowledges the handshake identifier in it.
ReceiveServerHello(c) ==
  /\ cpc[c] = "wait_hello"
  /\ inbox[c] # <<>>
  /\ Readable(c, Head(inbox[c]), ServerHelloFields)
  /\ LET hello == Plain(c, Head(inbox[c]))
     IN /\ session_config_' = [session_config_ EXCEPT ![c] =
             [client_id |-> hello.assigned_client_id_,
              client_address |-> hello.assigned_client_ip,
              session_id |-> hello.session_id]]
        /\ ToServer(ClientSeal(c, client_base_id_[c], session_key[c],
                      ClientACK(hello.assigned_client_id_,
                                hello.handshake_identifier)))
        /\ crosstalk' = (crosstalk \/ hello.handshake_identifier # attempt(c))
  /\ response' = [response EXCEPT ![c] = Head(inbox[c])]
  /\ Consume(c)
  /\ cpc' = [cpc EXCEPT ![c] = "wait_ack"]
  /\ UNCHANGED <<starts, client_base_id_, tunnel_mode_, session_key, listeners>>

\* setup_session() from the ServerACK on: it is satisfied with message m.
Acknowledges(c, m) ==
  /\ Readable(c, m, ServerACKFields)
  /\ Plain(c, m).handshake_identifier = attempt(c)

\* From here on nothing reads the queue of the command channel.
BecomesActive(c) ==
  /\ cpc' = [cpc EXCEPT ![c] = "active"]
  /\ response' = [response EXCEPT ![c] = None]
  /\ ClientLeaves(c)
  /\ UNCHANGED <<rx, starts, client_base_id_, tunnel_mode_, session_key,
                 session_config_, crosstalk>>

ReceiveServerAck(c) ==
  /\ cpc[c] = "wait_ack"
  /\ inbox[c] # <<>>
  /\ Acknowledges(c, Head(inbox[c]))
  /\ BecomesActive(c)

\* A message that the wait cannot use: an exception ends the process.
ThrowUnusable(c) ==
  /\ inbox[c] # <<>>
  /\ \/ /\ cpc[c] = "wait_crypto"
        /\ ~ParsesAs(ServerHelloCryptoFields, Head(inbox[c]))
     \/ /\ cpc[c] = "wait_hello"
        /\ ~Readable(c, Head(inbox[c]), ServerHelloFields)
     \/ /\ cpc[c] = "wait_ack"
        /\ ~Acknowledges(c, Head(inbox[c]))
  /\ ProcessEnds(c)
  /\ UNCHANGED rx

\* Mutant: the wait for the ServerHello has no end.
HelloTimeout_crypto_only(c) ==
  /\ cpc[c] = "wait_crypto"
  /\ inbox[c] = <<>>
  /\ ProcessEnds(c)
  /\ UNCHANGED rx

\* Three polls found nothing, and nothing was ever received: exit().
HelloTimeout(c) ==
  /\ cpc[c] \in {"wait_crypto", "wait_hello"}
  /\ inbox[c] = <<>>
  /\ ProcessEnds(c)
  /\ UNCHANGED rx

\* In the last wait the variable still holds the message of the wait before,
\* so that the test for no message fails and that message is used again.
AckTimeout(c) ==
  /\ cpc[c] = "wait_ack"
  /\ inbox[c] = <<>>
  /\ IF Acknowledges(c, response[c])
     THEN BecomesActive(c)
     ELSE ProcessEnds(c) /\ UNCHANGED rx

StopTunnel(c) ==
  /\ cpc[c] = "active"
  /\ ToServer(SessionTermination(session_config_[c].client_id,
                                 session_config_[c].session_id))
  /\ ProcessEnds(c)

Crash(c) ==
  /\ cpc[c] # "off"
  /\ ProcessEnds(c)
  /\ UNCHANGED rx

-----------------------------------------------------------------------------
\* The steps of setup_session() that are not the passing of time.
SetupStep(c) ==
  \/ SendClientHelloCrypto(c)
  \/ SendClientHello(c)
  \/ ReceiveServerHelloCrypto(c)
  \/ ReceiveServerHello(c)
  \/ ReceiveServerAck(c)
  \/ ThrowUnusable(c)

Timeout(c) == HelloTimeout(c) \/ AckTimeout(c)
=============================================================================
