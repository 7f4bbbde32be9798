----------------------------- MODULE DataPlane ------------------------------
(***************************************************************************)
(* The packets, and what happens to them while sessions come and go.  Both *)
(* programs have a thread that reads packets from the TUN device and       *)
(* publishes them, and a callback thread of the MQTT library that writes   *)
(* what arrives to the TUN device.  On the server they work next to the    *)
(* main thread, which is the SessionService here: the sessions are behind  *)
(* a mutex, the map of the keys is not.                                    *)
(*                                                                         *)
(* The module is about the encrypted mode: without encryption a callback   *)
(* writes every packet as it is.  Of the handshake only what it leaves     *)
(* behind is here, and no client takes the answer to another one.          *)
(***************************************************************************)
EXTENDS SessionService, Topics

CONSTANTS TopicLevels,      \* names of levels of command topics
          CommandTopics,    \* the values of --command-topic
          SlashedClients,   \* clients whose --client-id is of two levels
          MaxQueue,         \* bound: packets under way to one receiver
          MaxServerStarts   \* bound: how often the server program is run

ASSUME DataPlaneAssumption ==
  /\ CommandTopics \subseteq Seq(TopicLevels) \ {<<>>}
  /\ SlashedClients \subseteq Clients
  /\ MaxQueue \in Nat
  /\ MaxServerStarts \in Nat
  /\ None \notin Id \cup Addresses \cup {NoAddress}

VARIABLES
  command_topic,   \* the command topic, the same at both ends; never changes
  server_starts,   \* how often the server program was run
  hellos,          \* runs of clients whose hello the server has not read
  terminations,    \* identifiers with a termination the server has not read
  inserting,       \* identifier whose key is being put into session_map_
  subscriptions,   \* identifiers whose outbound topic the server reads
  reader,          \* the packet and the session copy of the TUN reader
  to_server,       \* identifiers of packets under way to its callback
  starts,          \* how often the program of each client was run
  running,         \* the clients whose program runs
  tunnel,          \* identifier and address of each client, or None
  to_client        \* packets under way to each client's callback

controlVars == <<serviceVars, command_topic, server_starts, hellos,
                 terminations, inserting, subscriptions>>
packetVars == <<reader, to_server, to_client>>
clientVars == <<starts, running, tunnel>>
dataVars == <<controlVars, packetVars, clientVars>>

\* A packet is published on a topic of an identifier and sealed with the key
\* that goes with the identifier.  On the way to a client ip is its
\* destination; on the way to the server nobody looks at an address, and the
\* identifier is all there is to a packet.  The tunnel of a client, too, is an
\* identifier and an address.
Packet == [id : Id, ip : Addresses \cup {NoAddress}]

DataInit ==
  /\ ServiceInit
  /\ encrypts = TRUE
  /\ command_topic \in CommandTopics
  /\ server_starts = 1
  /\ hellos = {}
  /\ terminations = {}
  /\ inserting = None
  /\ subscriptions = {}
  /\ reader = None
  /\ to_server = <<>>
  /\ starts = [c \in Clients |-> 0]
  /\ running = {}
  /\ tunnel = [c \in Clients |-> None]
  /\ to_client = [c \in Clients |-> <<>>]

DataTypeOK ==
  /\ ServiceTypeOK
  /\ command_topic \in CommandTopics
  /\ server_starts \in Nat
  /\ hellos \subseteq Attempt
  /\ terminations \subseteq Id
  /\ inserting \in Id \cup {None}
  /\ subscriptions \subseteq Id
  /\ reader \in Packet \cup {None}
  /\ to_server \in Seq(Id)
  /\ starts \in [Clients -> 0 .. MaxStarts]
  /\ running \subseteq Clients
  /\ tunnel \in [Clients -> Packet \cup {None}]
  /\ to_client \in [Clients -> Seq(Packet)]

Elements(q) == {q[k] : k \in 1 .. Len(q)}

-----------------------------------------------------------------------------
\* Mutant: no time stamp.
IdentifierOf_base(t) == BaseId(t[1])

\* The server makes an identifier for each run of a client.
IdentifierOf(t) == t

\* The levels of an identifier.  The time stamp goes to the end of the last.
Levels(id) == IF id[1] \in SlashedClients THEN <<id[1], id>> ELSE <<id>>

\* What a callback finds in the topic of an identifier is that identifier, so
\* that it looks for the right key.  Both directions are alike.
Found(id) ==
  extract_client_id_from_topic(data_topic(command_topic, Levels(id), "A"))
    = Levels(id)

-----------------------------------------------------------------------------
\* The server's main thread is not in the middle of an insertion.
MainIdle == inserting = None

StartClient(c) ==
  /\ c \notin running
  /\ starts[c] < MaxStarts
  /\ running' = running \cup {c}
  /\ starts' = [starts EXCEPT ![c] = @ + 1]
  /\ hellos' = hellos \cup {<<c, starts[c] + 1>>}
  /\ UNCHANGED <<serviceVars, command_topic, server_starts, terminations,
                 inserting, subscriptions, packetVars, tunnel>>

\* emplace() into session_map_ begins and, in a step of its own, ends: the
\* other threads look the map up without a lock.
BeginKey(t) ==
  /\ MainIdle
  /\ t \in hellos
  /\ IdentifierOf(t) \notin keyed
  /\ inserting' = IdentifierOf(t)
  /\ UNCHANGED <<serviceVars, command_topic, server_starts, hellos,
                 terminations, subscriptions, packetVars, clientVars>>

EndKey ==
  /\ ~MainIdle
  /\ GrantKey(inserting)
  /\ inserting' = None
  /\ UNCHANGED <<command_topic, server_starts, hellos, terminations,
                 subscriptions, packetVars, clientVars>>

AnswerHello(t) ==
  /\ MainIdle
  /\ t \in hellos
  /\ \E ip \in Addresses \cup {NoAddress} : Offer(IdentifierOf(t), ip)
  /\ hellos' = hellos \ {t}
  /\ UNCHANGED <<command_topic, server_starts, terminations, inserting,
                 subscriptions, packetVars, clientVars>>

\* The client's ACK makes the offer a session.
EstablishSession(id) ==
  /\ MainIdle
  /\ Establish(id)
  /\ subscriptions' = subscriptions \cup {id}
  /\ UNCHANGED <<command_topic, server_starts, hellos, terminations, inserting,
                 packetVars, clientVars>>

\* Mutant: keys go with a session, those of others too.
EndSession_clears_keys(id) ==
  /\ MainIdle
  /\ id \in terminations
  /\ terminations' = terminations \ {id}
  /\ IF sessions[id] # None
     THEN /\ sessions' = [sessions EXCEPT ![id] = None]
          /\ held' = held \ {sessions[id]}
          /\ keyed' = {}
          /\ UNCHANGED <<encrypts, offers>>
     ELSE UNCHANGED serviceVars
  /\ UNCHANGED <<command_topic, server_starts, hellos, inserting,
                 subscriptions, packetVars, clientVars>>

\* The subscription and the key stay.
EndSession(id) ==
  /\ MainIdle
  /\ id \in terminations
  /\ terminations' = terminations \ {id}
  /\ IF sessions[id] # None THEN Terminate(id) ELSE UNCHANGED serviceVars
  /\ UNCHANGED <<command_topic, server_starts, hellos, inserting,
                 subscriptions, packetVars, clientVars>>

\* The process ends in whatever way, and is started again.
ServerRestarts ==
  /\ server_starts < MaxServerStarts
  /\ server_starts' = server_starts + 1
  /\ EndOfService
  /\ hellos' = {}
  /\ terminations' = {}
  /\ inserting' = None
  /\ subscriptions' = {}
  /\ reader' = None
  /\ to_server' = <<>>
  /\ UNCHANGED <<command_topic, to_client, clientVars>>

-----------------------------------------------------------------------------
\* The tunnel of c opens when its offer has reached it, before the server has
\* read the acknowledgement or after.
OpenTunnel(c) ==
  /\ c \in running
  /\ tunnel[c] = None
  /\ LET id == IdentifierOf(<<c, starts[c]>>)
     IN \E ip \in {offers[id], sessions[id]} \ {None} :
          tunnel' = [tunnel EXCEPT ![c] = [id |-> id, ip |-> ip]]
  /\ UNCHANGED <<controlVars, packetVars, starts, running>>

ClientEnds(c) ==
  /\ running' = running \ {c}
  /\ tunnel' = [tunnel EXCEPT ![c] = None]
  /\ to_client' = [to_client EXCEPT ![c] = <<>>]
  /\ UNCHANGED <<serviceVars, command_topic, server_starts, hellos, inserting,
                 subscriptions, reader, to_server, starts>>

\* stop_tunnel()
CloseTunnel(c) ==
  /\ tunnel[c] # None
  /\ terminations' = terminations \cup {tunnel[c].id}
  /\ ClientEnds(c)

ClientCrashes(c) ==
  /\ c \in running
  /\ UNCHANGED terminations
  /\ ClientEnds(c)

\* The clients that are subscribed to the inbound topic of an identifier.
Subscribers(id) == {c \in Clients : tunnel[c] # None /\ tunnel[c].id = id}

\* A packet for an address of the network: get_session_by_ip() copies the
\* session that has it, or the packet is dropped.
ReadPacket(ip) ==
  /\ reader = None
  /\ \E id \in Id : sessions[id] = ip /\ reader' = [id |-> id, ip |-> ip]
  /\ UNCHANGED <<controlVars, to_server, to_client, clientVars>>

\* The packet is sealed for the session of the copy and published with QoS 0.
PublishPacket ==
  /\ reader # None
  /\ \A c \in Subscribers(reader.id) : Len(to_client[c]) < MaxQueue
  /\ to_client' = [c \in Clients |-> IF c \in Subscribers(reader.id)
                                     THEN Append(to_client[c], reader)
                                     ELSE to_client[c]]
  /\ reader' = None
  /\ UNCHANGED <<controlVars, to_server, clientVars>>

\* The packet is lost on its way, or the look-up of the key runs into the
\* insertion of another and misses: encrypt_data() throws and is caught.
LosePacket ==
  /\ reader # None
  /\ reader' = None
  /\ UNCHANGED <<controlVars, to_server, to_client, clientVars>>

\* The TUN reader of a client publishes whatever packet it reads.
SendPacket(c) ==
  /\ tunnel[c] # None
  /\ tunnel[c].id \in subscriptions
  /\ Len(to_server) < MaxQueue
  /\ to_server' = Append(to_server, tunnel[c].id)
  /\ UNCHANGED <<controlVars, reader, to_client, clientVars>>

\* The callback takes a packet: it writes it to the TUN device or, when it
\* cannot open it, drops it.  Nothing else depends on which.
ServerReceives ==
  /\ to_server # <<>>
  /\ to_server' = Tail(to_server)
  /\ UNCHANGED <<controlVars, reader, to_client, clientVars>>

ClientReceives(c) ==
  /\ to_client[c] # <<>>
  /\ to_client' = [to_client EXCEPT ![c] = Tail(@)]
  /\ UNCHANGED <<controlVars, reader, to_server, clientVars>>

\* Whether it can: with the key under the identifier found in the topic.  The
\* server's look-up may also miss while another key is being inserted.
ServerWrites(id) == Found(id) /\ id \in keyed

ClientWrites(c, p) == Found(p.id) /\ p.id = tunnel[c].id

-----------------------------------------------------------------------------
DataNext ==
  \/ \E t \in Attempt : BeginKey(t) \/ AnswerHello(t)
  \/ EndKey
  \/ \E id \in Id : EstablishSession(id) \/ EndSession(id)
  \/ ServerRestarts
  \/ \E ip \in Addresses : ReadPacket(ip)
  \/ PublishPacket
  \/ LosePacket
  \/ ServerReceives
  \/ \E c \in Clients :
       \/ StartClient(c)
       \/ OpenTunnel(c)
       \/ CloseTunnel(c)
       \/ ClientCrashes(c)
       \/ SendPacket(c)
       \/ ClientReceives(c)

DataSpec == DataInit /\ [][DataNext]_dataVars

-----------------------------------------------------------------------------
\* Identifiers and addresses that are tied to each other: at the server, by a
\* client, or by a packet that is being published or under way.
Ties ==
  {p \in Packet : p.ip \in {offers[p.id], sessions[p.id]}}
    \cup ({reader} \ {None})
    \cup UNION {({tunnel[c]} \ {None}) \cup Elements(to_client[c]) :
                c \in Clients}

\* An identifier is tied to one address, and to none before its hello is read.
OneAddress ==
  /\ \A p, q \in Ties : p.id = q.id => p = q
  /\ \A p \in Ties : p.id \notin hellos /\ p.id[2] <= starts[p.id[1]]
  /\ \A t \in hellos : t[2] <= starts[t[1]]

\* A client has the tunnel of its latest run, and reads that tunnel's topic.
OwnTunnel ==
  \A c \in Clients :
    /\ tunnel[c] # None => c \in running /\ tunnel[c].id = <<c, starts[c]>>
    /\ \A p \in Elements(to_client[c]) :
         tunnel[c] # None /\ p.id = tunnel[c].id

\* Keys are there before the topics they are for, and stay as long.
KeysStay ==
  /\ encrypts
  /\ \A id \in Id : offers[id] # None => id \in keyed
  /\ subscriptions \subseteq keyed
  /\ Elements(to_server) \subseteq subscriptions

\* What is inductive.
DataInv ==
  /\ DataTypeOK
  /\ OneAddress
  /\ OwnTunnel
  /\ KeysStay

(***************************************************************************)
(* What is under way to a client is for the address of its tunnel: the     *)
(* reader publishes with a copy of the session that may have ended, whose  *)
(* address may belong to another client and whose client may have been     *)
(* started again, but the topic it uses is read by that one run only.      *)
(***************************************************************************)
DeliveredToAddressee ==
  \A c \in Clients : \A p \in Elements(to_client[c]) :
    tunnel[c] # None /\ p.ip = tunnel[c].ip

\* Command topic and --client-id without a slash.
PlainNames(id) == Len(command_topic) = 1 /\ id[1] \notin SlashedClients

(***************************************************************************)
(* With names without slashes, no callback drops a packet of a session     *)
(* that is there: whatever keys and sessions came and went in the          *)
(* meantime, the receiver has the key under the identifier that it finds   *)
(* in the topic.  It says nothing of packets that arrive after their       *)
(* session (see OnlyActiveSessions), nor of a packet that arrives while    *)
(* the server inserts a key: that look-up may miss, for want of a lock.    *)
(***************************************************************************)
PacketsAccepted ==
  /\ \A id \in Elements(to_server) :
       PlainNames(id) /\ sessions[id] # None /\ MainIdle => ServerWrites(id)
  /\ \A c \in Clients : \A p \in Elements(to_client[c]) :
       PlainNames(p.id) /\ sessions[p.id] # None => ClientWrites(c, p)

\* The doc: packets are exchanged on mqtt_tunnel/commands/<client-id>/A and
\* /B.  What arrives at a client is written to its TUN device.
PacketsReachClient ==
  \A c \in Clients : \A p \in Elements(to_client[c]) : ClientWrites(c, p)

\* The doc: the server accepts packets for active sessions only.
OnlyActiveSessions ==
  to_server # <<>> /\ ServerWrites(Head(to_server)) =>
    sessions[Head(to_server)] # None
=============================================================================
