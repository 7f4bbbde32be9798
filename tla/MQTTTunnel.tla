----------------------------- MODULE MQTTTunnel -----------------------------
(***************************************************************************)
(* The server, the clients and the command channel between them.           *)
(***************************************************************************)
EXTENDS TunnelServer, TunnelClient

CONSTANT Faults       \* which of "timeout", "crash" (of a client),
                      \* "stop_server" and "kill_server" happen

ASSUME NoneAssumption ==
  None \notin Id \cup Key \cup SessionConfig \cup ClientConfig
                 \cup ServerMessage \cup Address \cup {NoAddress}

vars == <<serverVars, clientVars, channelVars>>

Init ==
  /\ ChannelInit
  /\ ServerInit
  /\ ClientInit

ServerStep ==
  /\ \/ StartServer
     \/ ServerLoop
     \/ "stop_server" \in Faults /\ StopServer
     \/ "kill_server" \in Faults /\ KillServer
  /\ UNCHANGED clientVars

ClientStep(c) ==
  /\ \/ ConnectCommandChannel(c)
     \/ SetupStep(c)
     \/ "timeout" \in Faults /\ Timeout(c)
     \/ StopTunnel(c)
     \/ "crash" \in Faults /\ Crash(c)
  /\ UNCHANGED serverVars

Next == ServerStep \/ \E c \in Clients : ClientStep(c)

Spec == Init /\ [][Next]_vars

TypeOK ==
  /\ ChannelTypeOK
  /\ ServerTypeOK
  /\ ClientTypeOK

\* An entry that waits for its ClientACK can be answered.
AckCanBeSealed == \A id \in Id : AckExpected(id) => CanSeal(id)

\* What a client has by the time it is where it is.
ClientProgress ==
  \A c \in Clients :
    /\ cpc[c] # "off" => starts[c] > 0
    /\ cpc[c] \in {"wait_hello", "wait_ack", "active"}
         /\ c \in EncryptedClients => session_key[c] # None
    /\ cpc[c] = "active" => session_config_[c] # None
    /\ cpc[c] = "wait_ack" =>
         session_config_[c] # None /\ response[c] # None

-----------------------------------------------------------------------------
\* The server process that is running is the first one, so that it has not
\* forgotten any client.
NeverRestarted == serverPc = "running" /\ server_starts = 1

\* No client has taken a tunnel by an answer to another attempt: the keys see to
\* it, or no client has adopted such an answer so far.
Trusted == ServerEncrypts \/ ~crosstalk

\* An entry of the server agrees with the configuration of client c.
Agrees(c, entry) ==
  /\ entry # None
  /\ entry.session_id = session_config_[c].session_id
  /\ entry.client_address = session_config_[c].client_address
  /\ entry.tunnel_mode = tunnel_mode_[c]

(***************************************************************************)
(* A client that is active has the address, the session and the mode that  *)
(* the server has down for it, be the session established or still in the  *)
(* handshake: neither a later run of the same client, nor a termination,   *)
(* nor another client's handshake has replaced them.  The exceptions are a *)
(* server that was restarted, and so forgot its clients, and, without      *)
(* encryption, that a client has adopted an answer to another attempt on   *)
(* the shared topic.                                                       *)
(***************************************************************************)
ActiveIsReserved ==
  \A c \in Clients :
    cpc[c] = "active" /\ NeverRestarted /\ Trusted =>
      LET id == session_config_[c].client_id
      IN Agrees(c, handshake_states_[id]) \/ Agrees(c, active_clients_[id])

\* The server forwards packets of the session of id.
Wired(id) ==
  LET ip == active_clients_[id].client_address
  IN /\ id \in data_subscriptions
     /\ ip \in Address => ip \in routes
     /\ ip \in Address /\ active_clients_[id].tunnel_mode = "GATEWAY" =>
          <<ip, 32>> \in nat

\* The server has the session of c, with subscription, route and NAT rule in
\* place, or is about to finish the very handler that answered.
Served(c) ==
  LET id == session_config_[c].client_id
  IN \/ establishing = id /\ Agrees(c, handshake_states_[id])
     \/ Agrees(c, active_clients_[id]) /\ Wired(id)

(***************************************************************************)
(* A client that becomes active by a message that it received, and not by  *)
(* a wait that ran out, is served from then on for as long as it is        *)
(* active: time limits, crashes and terminations of others, and late or    *)
(* repeated handshakes, leave session, route, NAT rule and subscription    *)
(* alone.  The time between the ServerACK and the end of the handler that  *)
(* sent it counts as served.  The exceptions are a server that ends or is  *)
(* restarted, and, without encryption, that a client has adopted an answer *)
(* to another attempt: with the other one's identifier it may end that     *)
(* one's session by its own termination.                                   *)
(***************************************************************************)
ServedOnceAcknowledged ==
  [][\A c \in Clients :
       /\ cpc'[c] = "active"
       /\ NeverRestarted' /\ Trusted'
       /\ \/ cpc[c] = "wait_ack" /\ inbox[c] # <<>>
          \/ cpc[c] = "active" /\ Served(c)
       => Served(c)']_vars

(***************************************************************************)
(* Two clients that are active have different identifiers, hence different *)
(* data topics, and, unless they got them from two runs of the server,     *)
(* different addresses.                                                    *)
(***************************************************************************)
DistinctTunnels ==
  \A c, d \in Clients :
    cpc[c] = "active" /\ cpc[d] = "active" /\ c # d =>
      LET x == session_config_[c]
          y == session_config_[d]
      IN /\ x.client_id # y.client_id
         /\ server_starts = 1 => ~Clash(x.client_address, y.client_address)

\* The four ways in which a message ends the server.
FromBaselineClient ==
  ServerEncrypts /\ msg.message_identifier = "CLIENT_HELLO"

SealedUnderAnother ==
  /\ msg.message_identifier = "ENCRYPTED_WRAPPER"
  /\ msg.client_id # payload.handshake_identifier

SealedForEarlierServer ==
  /\ server_starts > 1
  /\ msg.message_identifier = "ENCRYPTED_WRAPPER"
  /\ session_map_[msg.client_id] = None

(***************************************************************************)
(* Not every message ends the server by an exception: handshakes given up, *)
(* begun again and continued late, crashes and time limits never do.  What *)
(* does is exactly this: the hello of a client without encryption, at a    *)
(* server with it (TunnelServer.cpp:256); a message sealed under the       *)
(* identifier of another attempt, by a client that adopted the             *)
(* ServerHelloCrypto to another client or a late one to an earlier run of  *)
(* its own (line 112); a message for a server that was restarted and does  *)
(* not know the key (line 112); and, without encryption, the handshake     *)
(* identifier of another attempt (line 285), once a client has adopted an  *)
(* answer to one.                                                          *)
(***************************************************************************)
ServerOutlivesClients ==
  [][serverPc = "running" /\ serverPc' = "failed" =>
       \/ FromBaselineClient
       \/ SealedUnderAnother
       \/ SealedForEarlierServer
       \/ ~ServerEncrypts /\ crosstalk]_vars

(***************************************************************************)
(* A client and a server of which only one encrypts never get to a tunnel, *)
(* not even by the wait for the ServerACK that runs out or by an answer to *)
(* another client: no client takes the tunnel for encrypted, or for open,  *)
(* when the server does not.  It is what the code does; the doc has such a *)
(* pair measured (see HandshakeCompletes).                                 *)
(***************************************************************************)
NoMixedTunnel ==
  \A c \in Clients :
    cpc[c] = "active" => (c \in EncryptedClients <=> ServerEncrypts)

(***************************************************************************)
(* A session that ends, other than with the server, ends by a termination  *)
(* of that very session: the request of an earlier run of a client does    *)
(* not hit a later session, although only the client_id is looked at.  The *)
(* exception is that, without encryption, a client has adopted an answer   *)
(* to another attempt: it ends the session whose identifier it got.        *)
(***************************************************************************)
OnlyOwnTermination ==
  [][\A id \in Id :
       /\ active_clients_[id] # None
       /\ active_clients_'[id] = None
       /\ serverPc' = "running"
       /\ Trusted
       => /\ msg.message_identifier = "SESSION_TERMINATION"
          /\ msg.client_id = id
          /\ msg.session_id = active_clients_[id].session_id]_vars

-----------------------------------------------------------------------------
\* The doc: the server keeps an assignment client identifier <-> tunnel
\* address.  Every client that is active has an address, the pool being empty
\* (TunnelServer.cpp:216), or used up by handshakes that were given up, or not.
ActiveHasAddress ==
  \A c \in Clients :
    cpc[c] = "active" => session_config_[c].client_address # NoAddress

\* The doc: the topics of a session are assigned by the client identifier.
OwnTopics ==
  \A c \in Clients : cpc[c] = "active" => session_config_[c].client_id[1] = c

\* The log message "Received Server ACK, session handshake complete": when a
\* client is active the server has left the handshake of its session.
ActiveHasServerACK ==
  \A c \in Clients :
    cpc[c] = "active" /\ NeverRestarted =>
      LET id == session_config_[c].client_id
      IN Agrees(c, handshake_states_[id]) => establishing = id

-----------------------------------------------------------------------------
(***************************************************************************)
(* What the server is for, seen from the addresses: handshake states, keys *)
(* and sessions as the SessionService has them.  An offer is an entry that *)
(* waits for its ClientACK.                                                *)
(***************************************************************************)
OfferOf(id) ==
  IF AckExpected(id) THEN handshake_states_[id].client_address ELSE None

SessionOf(id) ==
  IF has_session(id) THEN active_clients_[id].client_address ELSE None

Keyed == {id \in Id : session_map_[id] # None}
Held == {ip \in Address : ip_usage[ip - 1]}
Offers == [id \in Id |-> OfferOf(id)]
Sessions == [id \in Id |-> SessionOf(id)]

Service == INSTANCE SessionService WITH
  Addresses <- Address,
  encrypts <- ServerEncrypts,
  keyed <- Keyed,
  held <- Held,
  offers <- Offers,
  sessions <- Sessions

(***************************************************************************)
(* The server with its messages, exceptions, half-done handlers and        *)
(* restarts implements the service: whatever clients send, each of its     *)
(* steps grants a key, makes an offer, establishes or ends one session, or *)
(* ends all, and none of them mixes up two identifiers.                    *)
(***************************************************************************)
ImplementsSessionService == Service!ServiceSpec

-----------------------------------------------------------------------------
(***************************************************************************)
(* Fairness.  The loop of the server polls every 100 ms and a client polls *)
(* every second, so each goes on as long as it has something to do.  That  *)
(* the server is started, and that a client is started or stopped, is up   *)
(* to their users.  A wait gives up after three polls: it does not last.   *)
(***************************************************************************)
FairSpec ==
  /\ Spec
  /\ WF_vars(ServerLoop /\ UNCHANGED clientVars)
  /\ \A c \in Clients :
       /\ WF_vars(SetupStep(c) /\ UNCHANGED serverVars)
       /\ "timeout" \in Faults => WF_vars(Timeout(c) /\ UNCHANGED serverVars)

\* A start of the client program ends in a tunnel or in the end of the
\* process: no wait of the handshake is for ever.
HandshakeSettles ==
  \A c \in Clients : cpc[c] = "connected" ~> cpc[c] \in {"active", "off"}

\* The doc: one server is started for secure and baseline mode, and the tunnel
\* of a client with --insecure is measured.  A client that is started while the
\* server runs gets its tunnel (TunnelServer.cpp:256 is what happens instead).
HandshakeCompletes ==
  \A c \in Clients :
    cpc[c] = "connected" /\ serverPc = "running" ~> cpc[c] = "active"

\* The session of a client that ends its tunnel in an orderly way is ended by
\* the server, which cannot get stuck, or die, with the session still there.
TerminationSent(s) ==
  \E k \in 1 .. Len(rx) :
    rx[k].message_identifier = "SESSION_TERMINATION" /\ rx[k].session_id = s

SessionExists(s) ==
  \E id \in Id : has_session(id) /\ active_clients_[id].session_id = s

TerminationTakesEffect ==
  \A s \in Attempt : TerminationSent(s) ~> ~SessionExists(s)
=============================================================================
