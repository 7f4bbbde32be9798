-------------------------- MODULE DataPlane_proofs --------------------------
(***************************************************************************)
(* DataInv is inductive.  All but two actions take away from Ties or leave *)
(* it alone; AnswerHello adds the one tie of an identifier that had none,  *)
(* and StartClient makes an identifier that nobody has heard of.           *)
(***************************************************************************)
EXTENDS DataPlane, SequenceTheorems, TLAPS

LEMMA AppendElements ==
  ASSUME NEW S, NEW q \in Seq(S), NEW e \in S
  PROVE  /\ Append(q, e) \in Seq(S)
         /\ Elements(Append(q, e)) = Elements(q) \cup {e}
<1>1. /\ Append(q, e) \in Seq(S)
      /\ Len(Append(q, e)) = Len(q) + 1
      /\ Len(q) \in Nat
      /\ \A k \in 1 .. Len(q) : Append(q, e)[k] = q[k]
      /\ Append(q, e)[Len(q) + 1] = e
  OBVIOUS
<1>2. 1 .. Len(q) + 1 = (1 .. Len(q)) \cup {Len(q) + 1}
  BY <1>1
<1>3. Elements(Append(q, e)) =
        {Append(q, e)[k] : k \in (1 .. Len(q)) \cup {Len(q) + 1}}
  BY <1>1, <1>2 DEF Elements
<1> QED
  BY <1>1, <1>3 DEF Elements

LEMMA TailElements ==
  ASSUME NEW S, NEW q \in Seq(S), q # <<>>
  PROVE  /\ Tail(q) \in Seq(S)
         /\ Elements(Tail(q)) \subseteq Elements(q)
<1>1. /\ Tail(q) \in Seq(S)
      /\ Len(q) \in Nat \ {0}
      /\ Len(Tail(q)) = Len(q) - 1
      /\ \A k \in 1 .. Len(Tail(q)) : Tail(q)[k] = q[k + 1]
  OBVIOUS
<1>2. \A k \in 1 .. Len(Tail(q)) : k + 1 \in 1 .. Len(q)
  BY <1>1
<1> QED
  BY <1>1, <1>2 DEF Elements

LEMMA NoElements == Elements(<<>>) = {}
  BY DEF Elements

LEMMA TypedElements ==
  ASSUME NEW S, NEW q \in Seq(S)
  PROVE  Elements(q) \subseteq S
  BY DEF Elements

-----------------------------------------------------------------------------
\* One level, one identifier of one level: what the callback finds in a topic.
LEMMA PlainNamesFound ==
  ASSUME NEW id \in Id, command_topic \in Seq(TopicLevels), PlainNames(id)
  PROVE  Found(id)
<1> DEFINE S == TopicLevels \cup Id \cup {"A"}
           front == command_topic \o <<id>>
<1>1. command_topic \in Seq(S) /\ Len(command_topic) = 1
  BY DEF PlainNames
<1>2. <<id>> \in Seq(S) /\ Len(<<id>>) = 1 /\ <<id>>[1] = id
  OBVIOUS
<1>3. <<"A">> \in Seq(S) /\ Len(<<"A">>) = 1
  OBVIOUS
<1> HIDE DEF S
<1>4. front \in Seq(S) /\ Len(front) = 2 /\ front[2] = id
  BY <1>1, <1>2, ConcatProperties
<1> DEFINE direction == <<"A">>
<1> HIDE DEF front, direction
<1>5. Len(front \o direction) = 3 /\ (front \o direction)[2] = id
  <2>1. direction \in Seq(S) /\ Len(direction) = 1
    BY <1>3 DEF direction
  <2>2. /\ Len(front \o direction) = Len(front) + Len(direction)
        /\ \A i \in 1 .. Len(front) + Len(direction) : (front \o direction)[i] =
             IF i <= Len(front) THEN front[i] ELSE direction[i - Len(front)]
    BY <2>1, <1>4, ConcatProperties
  <2>3. Len(front) = 2 /\ front[2] = id
    BY <1>4
  <2> QED
    BY <2>1, <2>2, <2>3
<1>6. Levels(id) = <<id>>
  BY DEF PlainNames, Levels
<1> QED
  BY <1>5, <1>6 DEF front, direction, Found, data_topic, extract_client_id_from_topic

-----------------------------------------------------------------------------
\* Type correctness, action by action.
LEMMA TypeStep ==
  ASSUME DataTypeOK, DataNext
  PROVE  DataTypeOK'
<1> USE DEF DataTypeOK, ServiceTypeOK, controlVars, serviceVars, packetVars,
        clientVars, IdentifierOf
<1>id. Attempt \subseteq Id
  BY MaxStartsAssumption DEF Attempt, Id
<1>1. ASSUME NEW t \in Attempt, BeginKey(t) PROVE DataTypeOK'
  BY <1>1, <1>id DEF BeginKey
<1>2. ASSUME NEW t \in Attempt, AnswerHello(t) PROVE DataTypeOK'
  BY <1>2, <1>id DEF AnswerHello, Offer
<1>3. ASSUME EndKey PROVE DataTypeOK'
  BY <1>3 DEF EndKey, GrantKey, MainIdle
<1>4. ASSUME NEW id \in Id, EstablishSession(id) PROVE DataTypeOK'
  BY <1>4 DEF EstablishSession, Establish
<1>5. ASSUME NEW id \in Id, EndSession(id) PROVE DataTypeOK'
  BY <1>5 DEF EndSession, Terminate
<1>6. ASSUME ServerRestarts PROVE DataTypeOK'
  BY <1>6 DEF ServerRestarts, EndOfService, NobodyHasOne
<1>7. ASSUME NEW ip \in Addresses, ReadPacket(ip) PROVE DataTypeOK'
  <2>1. PICK id \in Id : reader' = [id |-> id, ip |-> ip]
    BY <1>7 DEF ReadPacket
  <2>2. reader' \in Packet
    BY <2>1 DEF Packet
  <2> QED
    BY <1>7, <2>2 DEF ReadPacket
<1>8. ASSUME PublishPacket PROVE DataTypeOK'
  <2>1. \A c \in Clients : Append(to_client[c], reader) \in Seq(Packet)
    BY <1>8, AppendElements DEF PublishPacket
  <2> QED
    BY <1>8, <2>1 DEF PublishPacket
<1>9. ASSUME LosePacket PROVE DataTypeOK'
  BY <1>9 DEF LosePacket
<1>10. ASSUME ServerReceives PROVE DataTypeOK'
  BY <1>10, TailElements DEF ServerReceives
<1>11. ASSUME NEW c \in Clients, StartClient(c) PROVE DataTypeOK'
  BY <1>11, MaxStartsAssumption DEF StartClient, Attempt
<1>12. ASSUME NEW c \in Clients, OpenTunnel(c) PROVE DataTypeOK'
  <2> DEFINE id == <<c, starts[c]>>
  <2>1. id \in Id
    BY DEF Id
  <2>2. PICK ip \in {offers[id], sessions[id]} \ {None} :
          tunnel' = [tunnel EXCEPT ![c] = [id |-> id, ip |-> ip]]
    BY <1>12 DEF OpenTunnel
  <2>3. [id |-> id, ip |-> ip] \in Packet
    BY <2>1, <2>2 DEF Packet
  <2> QED
    BY <1>12, <2>2, <2>3 DEF OpenTunnel
<1>13. ASSUME NEW c \in Clients, CloseTunnel(c) PROVE DataTypeOK'
  <2>1. tunnel[c].id \in Id
    BY <1>13 DEF CloseTunnel, Packet
  <2>2. terminations' \subseteq Id
    BY <1>13, <2>1 DEF CloseTunnel
  <2> QED
    BY <1>13, <2>2 DEF CloseTunnel, ClientEnds
<1>14. ASSUME NEW c \in Clients, ClientCrashes(c) PROVE DataTypeOK'
  BY <1>14 DEF ClientCrashes, ClientEnds
<1>15. ASSUME NEW c \in Clients, SendPacket(c) PROVE DataTypeOK'
  <2>1. tunnel[c].id \in Id
    BY <1>15 DEF SendPacket, Packet
  <2> QED
    BY <1>15, <2>1, AppendElements DEF SendPacket
<1>16. ASSUME NEW c \in Clients, ClientReceives(c) PROVE DataTypeOK'
  BY <1>16, TailElements DEF ClientReceives
<1> QED
  BY <1>1, <1>2, <1>3, <1>4, <1>5, <1>6, <1>7, <1>8, <1>9, <1>10, <1>11,
     <1>12, <1>13, <1>14, <1>15, <1>16 DEF DataNext

-----------------------------------------------------------------------------
\* A tunnel is closed before its client runs again, and what was under way to
\* it goes with it.
LEMMA TunnelStep ==
  ASSUME DataTypeOK, OwnTunnel, DataNext
  PROVE  OwnTunnel'
<1> USE DEF DataTypeOK, ServiceTypeOK, OwnTunnel, controlVars, packetVars,
        clientVars, IdentifierOf
<1>1. ASSUME UNCHANGED <<starts, running, tunnel, to_client>>
      PROVE  OwnTunnel'
  BY <1>1
<1>2. ASSUME PublishPacket PROVE OwnTunnel'
  <2>1. \A c \in Subscribers(reader.id) :
          /\ tunnel[c] # None /\ tunnel[c].id = reader.id
          /\ Elements(Append(to_client[c], reader))
               = Elements(to_client[c]) \cup {reader}
    BY <1>2, AppendElements DEF PublishPacket, Subscribers
  <2>2. ASSUME NEW c \in Clients
        PROVE  Elements(to_client'[c]) =
                 IF c \in Subscribers(reader.id)
                 THEN Elements(to_client[c]) \cup {reader}
                 ELSE Elements(to_client[c])
    BY <1>2, <2>1 DEF PublishPacket
  <2> QED
    BY <1>2, <2>1, <2>2 DEF PublishPacket
<1>3. ASSUME NEW c \in Clients, StartClient(c) PROVE OwnTunnel'
  <2>1. tunnel[c] = None /\ Elements(to_client[c]) = {}
    BY <1>3 DEF StartClient
  <2> QED
    BY <1>3, <2>1 DEF StartClient
<1>4. ASSUME NEW c \in Clients, OpenTunnel(c) PROVE OwnTunnel'
  <2>1. tunnel'[c].id = <<c, starts[c]>> /\ Elements(to_client[c]) = {}
    BY <1>4 DEF OpenTunnel
  <2> QED
    BY <1>4, <2>1 DEF OpenTunnel
<1>5. ASSUME NEW c \in Clients, ClientEnds(c) PROVE OwnTunnel'
  BY <1>5, NoElements DEF ClientEnds
<1>6. ASSUME NEW c \in Clients, ClientReceives(c) PROVE OwnTunnel'
  <2>1. Elements(Tail(to_client[c])) \subseteq Elements(to_client[c])
    BY <1>6, TailElements DEF ClientReceives
  <2> QED
    BY <1>6, <2>1 DEF ClientReceives
<1> QED
  BY <1>1, <1>2, <1>3, <1>4, <1>5, <1>6
  DEF DataNext, BeginKey, AnswerHello, EndKey, EstablishSession, EndSession,
      ServerRestarts, ReadPacket, LosePacket, ServerReceives, CloseTunnel,
      ClientCrashes, SendPacket

-----------------------------------------------------------------------------
\* The server forgets keys and subscriptions only together, when it ends.
LEMMA KeyStep ==
  ASSUME DataTypeOK, KeysStay, DataNext
  PROVE  KeysStay'
<1> USE DEF DataTypeOK, ServiceTypeOK, KeysStay, controlVars, serviceVars,
        packetVars, clientVars, IdentifierOf
<1>1. ASSUME UNCHANGED <<encrypts, keyed, offers, subscriptions>>,
             Elements(to_server)' \subseteq Elements(to_server)
      PROVE  KeysStay'
  BY <1>1
<1>2. ASSUME UNCHANGED to_server
      PROVE  Elements(to_server)' = Elements(to_server)
  BY <1>2 DEF Elements
<1>3. ASSUME NEW t \in Attempt, AnswerHello(t) PROVE KeysStay'
  BY <1>2, <1>3 DEF AnswerHello, Offer
<1>4. ASSUME EndKey PROVE KeysStay'
  BY <1>2, <1>4 DEF EndKey, GrantKey, MainIdle
<1>5. ASSUME NEW id \in Id, EstablishSession(id) PROVE KeysStay'
  BY <1>2, <1>5 DEF EstablishSession, Establish
<1>6. ASSUME NEW id \in Id, EndSession(id) PROVE KeysStay'
  BY <1>1, <1>2, <1>6 DEF EndSession, Terminate
<1>7. ASSUME ServerRestarts PROVE KeysStay'
  BY <1>7, NoElements DEF ServerRestarts, EndOfService, NobodyHasOne
<1>8. ASSUME ServerReceives PROVE KeysStay'
  BY <1>1, <1>8, TailElements DEF ServerReceives
<1>9. ASSUME NEW c \in Clients, SendPacket(c) PROVE KeysStay'
  <2>1. tunnel[c].id \in Id
    BY <1>9 DEF SendPacket, Packet
  <2>2. Elements(to_server)' = Elements(to_server) \cup {tunnel[c].id}
    BY <1>9, <2>1, AppendElements DEF SendPacket
  <2> QED
    BY <1>9, <2>2 DEF SendPacket
<1> QED
  BY <1>1, <1>2, <1>3, <1>4, <1>5, <1>6, <1>7, <1>8, <1>9
  DEF DataNext, BeginKey, ReadPacket, PublishPacket, LosePacket, StartClient,
      OpenTunnel, CloseTunnel, ClientCrashes, ClientEnds, ClientReceives

-----------------------------------------------------------------------------
\* Ties that go, and hellos that are read or lost, disturb nothing.
LEMMA FewerTies ==
  ASSUME OneAddress, Ties' \subseteq Ties, hellos' \subseteq hellos,
         UNCHANGED starts
  PROVE  OneAddress'
  BY DEF OneAddress

\* The actions of the server's main thread.
LEMMA ServiceTies ==
  ASSUME DataTypeOK, OneAddress, UNCHANGED <<reader, to_client, starts,
                                             tunnel>>
  PROVE  /\ \A t \in Attempt : AnswerHello(t) => OneAddress'
         /\ EndKey => OneAddress'
         /\ \A id \in Id : EstablishSession(id) => OneAddress'
         /\ \A id \in Id : EndSession(id) => OneAddress'
<1> USE DEF DataTypeOK, ServiceTypeOK, IdentifierOf
<1>none. \A p \in Packet : p.id \in Id /\ p.ip # None
  BY DataPlaneAssumption DEF Packet
<1>ties. ASSUME \A p \in Packet : p.ip \in {offers'[p.id], sessions'[p.id]} =>
                                    p.ip \in {offers[p.id], sessions[p.id]}
         PROVE  Ties' \subseteq Ties
  BY <1>ties DEF Ties, Elements
<1>1. ASSUME NEW t \in Attempt, AnswerHello(t) PROVE OneAddress'
  <2>1. PICK ip \in Addresses \cup {NoAddress} : Offer(t, ip)
    BY <1>1 DEF AnswerHello
  <2> DEFINE new == [id |-> t, ip |-> ip]
  <2>2. t \in Id /\ offers' = [offers EXCEPT ![t] = ip]
    BY <2>1, MaxStartsAssumption DEF Offer, Attempt, Id
  <2>3. \A p \in Packet : p.ip \in {offers'[p.id], sessions'[p.id]} =>
          p = new \/ p.ip \in {offers[p.id], sessions[p.id]}
    BY <2>1, <2>2, <1>none DEF Packet, Offer
  <2>4. Ties' \subseteq Ties \cup {new}
    BY <2>3 DEF Ties, Elements
  <2>5. t \in hellos /\ hellos' = hellos \ {t}
    BY <1>1 DEF AnswerHello
  <2>6. new.id = t /\ t[2] <= starts[t[1]] /\ \A p \in Ties : p.id # t
    BY <2>5 DEF OneAddress
  <2> HIDE DEF new
  <2> QED
    BY <2>4, <2>5, <2>6 DEF OneAddress
<1>2. ASSUME EndKey PROVE OneAddress'
  <2>1. offers' = [offers EXCEPT ![inserting] = None] /\ inserting \in Id
    BY <1>2 DEF EndKey, GrantKey, MainIdle
  <2>2. UNCHANGED <<sessions, hellos>>
    BY <1>2 DEF EndKey, GrantKey
  <2> QED
    BY <2>1, <2>2, <1>none, <1>ties, FewerTies
<1>3. ASSUME NEW id \in Id, EstablishSession(id) PROVE OneAddress'
  <2>1. /\ sessions' = [sessions EXCEPT ![id] = offers[id]]
        /\ offers' = [offers EXCEPT ![id] = None]
        /\ UNCHANGED hellos
    BY <1>3 DEF EstablishSession, Establish
  <2> QED
    BY <2>1, <1>none, <1>ties, FewerTies
<1>4. ASSUME NEW id \in Id, EndSession(id) PROVE OneAddress'
  <2>1. /\ \/ sessions' = [sessions EXCEPT ![id] = None]
           \/ UNCHANGED sessions
        /\ UNCHANGED <<offers, hellos>>
    BY <1>4 DEF EndSession, Terminate, serviceVars
  <2> QED
    BY <2>1, <1>none, <1>ties, FewerTies
<1> QED
  BY <1>1, <1>2, <1>3, <1>4

\* A new tie belongs to an identifier and an address that are tied already.
LEMMA OneAddressStep ==
  ASSUME DataTypeOK, OneAddress, DataNext
  PROVE  OneAddress'
<1> USE DEF DataTypeOK, ServiceTypeOK, controlVars, serviceVars, packetVars,
        clientVars, IdentifierOf
<1>1. ASSUME UNCHANGED <<offers, sessions, reader, to_client, tunnel, hellos,
                         starts>>
      PROVE  OneAddress'
  <2>1. Ties' \subseteq Ties
    BY <1>1 DEF Ties, Elements
  <2> QED
    BY <1>1, <2>1, FewerTies
<1>2. ASSUME ServerRestarts PROVE OneAddress'
  <2>1. \A p \in Packet : p.id \in Id /\ p.ip # None
    BY DataPlaneAssumption DEF Packet
  <2>2. \A p \in Packet : p.ip \notin {offers'[p.id], sessions'[p.id]}
    BY <1>2, <2>1 DEF ServerRestarts, EndOfService, NobodyHasOne
  <2>3. Ties' \subseteq Ties
    BY <1>2, <2>2 DEF ServerRestarts, Ties, Elements
  <2> QED
    BY <1>2, <2>3, FewerTies DEF ServerRestarts
<1>3. ASSUME NEW ip \in Addresses, ReadPacket(ip) PROVE OneAddress'
  <2>1. PICK id \in Id : sessions[id] = ip /\ reader' = [id |-> id, ip |-> ip]
    BY <1>3 DEF ReadPacket
  <2>2. reader' \in Packet /\ reader'.ip = sessions[reader'.id]
    BY <2>1 DEF Packet
  <2>3. Ties' \subseteq Ties
    BY <1>3, <2>2 DEF ReadPacket, Ties, Elements
  <2> QED
    BY <1>3, <2>3, FewerTies DEF ReadPacket
<1>4. ASSUME PublishPacket PROVE OneAddress'
  <2>1. \A c \in Clients : Elements(to_client'[c]) \subseteq
                             Elements(to_client[c]) \cup ({reader} \ {None})
    BY <1>4, AppendElements DEF PublishPacket
  <2>2. Ties' \subseteq Ties
    BY <1>4, <2>1 DEF PublishPacket, Ties
  <2> QED
    BY <1>4, <2>2, FewerTies DEF PublishPacket
<1>5. ASSUME LosePacket PROVE OneAddress'
  <2>1. Ties' \subseteq Ties
    BY <1>5 DEF LosePacket, Ties, Elements
  <2> QED
    BY <1>5, <2>1, FewerTies DEF LosePacket
<1>6. ASSUME ServerReceives PROVE OneAddress'
  BY <1>1, <1>6 DEF ServerReceives
<1>7. ASSUME NEW c \in Clients, StartClient(c) PROVE OneAddress'
  <2> DEFINE t == <<c, starts[c] + 1>>
  <2>1. Ties' \subseteq Ties
    BY <1>7 DEF StartClient, Ties, Elements
  <2>2. hellos' = hellos \cup {t} /\ starts' = [starts EXCEPT ![c] = @ + 1]
    BY <1>7 DEF StartClient
  <2>3. \A p \in Ties : p.id # t
    BY DEF OneAddress
  <2>4. \A d \in Clients : starts[d] \in Nat /\ starts'[d] \in Nat
                            /\ starts[d] <= starts'[d]
    BY <2>2, MaxStartsAssumption
  <2>t. \A d \in Clients : Elements(to_client[d]) \subseteq Packet
    BY TypedElements
  <2>5. \A p \in Ties : p.id \in Id
    BY <2>t DEF Ties, Packet
  <2>6. \A p \in Ties : p.id[2] <= starts'[p.id[1]]
    BY <2>4, <2>5 DEF OneAddress, Id
  <2>7. \A s \in hellos' : s[2] <= starts'[s[1]]
    BY <2>2, <2>4 DEF OneAddress, Attempt
  <2> QED
    BY <2>1, <2>2, <2>3, <2>6, <2>7 DEF OneAddress
<1>8. ASSUME NEW c \in Clients, OpenTunnel(c) PROVE OneAddress'
  <2> DEFINE id == <<c, starts[c]>>
  <2>1. PICK ip \in {offers[id], sessions[id]} \ {None} :
          tunnel' = [tunnel EXCEPT ![c] = [id |-> id, ip |-> ip]]
    BY <1>8 DEF OpenTunnel
  <2>2. [id |-> id, ip |-> ip] \in Packet
    BY <2>1 DEF Packet, Id
  <2>3. [id |-> id, ip |-> ip] \in Ties
    BY <2>1, <2>2 DEF Ties
  <2>o. UNCHANGED <<offers, sessions, reader, to_client>>
    BY <1>8 DEF OpenTunnel
  <2>t. \A d \in Clients : tunnel[d] \in Ties \cup {None}
    BY DEF Ties
  <2>n. \A d \in Clients : tunnel'[d] \in Ties \cup {None}
    BY <2>1, <2>3, <2>t
  <2>4. ASSUME NEW p \in Ties' PROVE p \in Ties
    <3>1. \/ p \in Packet /\ p.ip \in {offers[p.id], sessions[p.id]}
          \/ p \in {reader} \ {None}
          \/ \E d \in Clients : p = tunnel'[d] /\ p # None
          \/ \E d \in Clients : p \in Elements(to_client[d])
      BY <2>o DEF Ties
    <3>2. CASE \E d \in Clients : p = tunnel'[d] /\ p # None
      BY <3>2, <2>n
    <3> QED
      BY <3>1, <3>2 DEF Ties
  <2> QED
    BY <1>8, <2>4, FewerTies DEF OpenTunnel
<1>9. ASSUME NEW c \in Clients, ClientEnds(c) PROVE OneAddress'
  <2>1. Ties' \subseteq Ties
    BY <1>9, NoElements DEF ClientEnds, Ties, Elements
  <2> QED
    BY <1>9, <2>1, FewerTies DEF ClientEnds
<1>10. ASSUME NEW c \in Clients, SendPacket(c) PROVE OneAddress'
  BY <1>1, <1>10 DEF SendPacket
<1>11. ASSUME NEW c \in Clients, ClientReceives(c) PROVE OneAddress'
  <2>1. \A d \in Clients : Elements(to_client'[d]) \subseteq
                             Elements(to_client[d])
    BY <1>11, TailElements DEF ClientReceives
  <2>2. Ties' \subseteq Ties
    BY <1>11, <2>1 DEF ClientReceives, Ties
  <2> QED
    BY <1>11, <2>2, FewerTies DEF ClientReceives
<1>12. ASSUME NEW t \in Attempt, BeginKey(t) PROVE OneAddress'
  BY <1>1, <1>12 DEF BeginKey
<1>13. CASE \/ \E t \in Attempt : AnswerHello(t)
            \/ EndKey
            \/ \E id \in Id : EstablishSession(id) \/ EndSession(id)
  BY <1>13, ServiceTies DEF AnswerHello, EndKey, EstablishSession, EndSession
<1> QED
  BY <1>2, <1>3, <1>4, <1>5, <1>6, <1>7, <1>8, <1>9, <1>10, <1>11, <1>12,
     <1>13 DEF DataNext, CloseTunnel, ClientCrashes

-----------------------------------------------------------------------------
LEMMA DataInit_DataInv ==
  DataInit => DataInv
<1> SUFFICES ASSUME DataInit PROVE DataInv
  OBVIOUS
<1> USE DEF DataInit, ServiceInit, NobodyHasOne
<1>1. DataTypeOK
  BY DataPlaneAssumption, MaxStartsAssumption DEF DataTypeOK, ServiceTypeOK
<1>2. \A p \in Packet : p.id \in Id /\ p.ip # None
  BY DataPlaneAssumption DEF Packet
<1>3. Ties = {}
  <2>1. {p \in Packet : p.ip \in {offers[p.id], sessions[p.id]}} = {}
    BY <1>2
  <2>2. {reader} \ {None} = {}
    OBVIOUS
  <2>3. \A c \in Clients : ({tunnel[c]} \ {None}) \cup Elements(to_client[c]) = {}
    BY NoElements
  <2> QED
    BY <2>1, <2>2, <2>3 DEF Ties
<1>4. OneAddress
  BY <1>3 DEF OneAddress
<1>5. OwnTunnel
  BY NoElements DEF OwnTunnel
<1>6. KeysStay
  BY NoElements DEF KeysStay
<1> QED
  BY <1>1, <1>4, <1>5, <1>6 DEF DataInv

LEMMA DataInvStep ==
  DataInv /\ [DataNext]_dataVars => DataInv'
<1>1. CASE DataNext
  BY <1>1, TypeStep, OneAddressStep, TunnelStep, KeyStep DEF DataInv
<1>2. CASE UNCHANGED dataVars
  <2> USE <1>2 DEF dataVars, controlVars, serviceVars, packetVars, clientVars
  <2>1. DataTypeOK => DataTypeOK'
    BY DEF DataTypeOK, ServiceTypeOK
  <2>2. OneAddress => OneAddress'
    <3>1. Ties' = Ties
      BY DEF Ties, Elements
    <3> QED
      BY <3>1 DEF OneAddress
  <2>3. OwnTunnel => OwnTunnel'
    BY DEF OwnTunnel, Elements
  <2>4. KeysStay => KeysStay'
    BY DEF KeysStay, Elements
  <2> QED
    BY <2>1, <2>2, <2>3, <2>4 DEF DataInv
<1> QED
  BY <1>1, <1>2

(***************************************************************************)
(* The inductive invariant of the data plane: identifiers and addresses    *)
(* are tied one to one, clients read only their own topic, and keys stay.  *)
(***************************************************************************)
THEOREM DataInvHolds ==
  DataSpec => []DataInv
  BY DataInit_DataInv, DataInvStep, PTL DEF DataSpec

(***************************************************************************)
(* What is under way to a client is for the address of its tunnel.         *)
(***************************************************************************)
THEOREM PacketsDelivered ==
  DataSpec => []DeliveredToAddressee
<1>1. DataInv => DeliveredToAddressee
  BY DEF DataInv, OneAddress, OwnTunnel, DeliveredToAddressee, Ties
<1> QED
  BY <1>1, DataInvHolds, PTL

(***************************************************************************)
(* With names without slashes the receiver of a packet of a session that   *)
(* is there has its key, but for a look-up during an insertion.            *)
(***************************************************************************)
THEOREM PacketsHaveKeys ==
  DataSpec => []PacketsAccepted
<1>1. ASSUME DataInv PROVE PacketsAccepted
  <2>1. command_topic \in Seq(TopicLevels)
    BY <1>1, DataPlaneAssumption DEF DataInv, DataTypeOK
  <2>2. ASSUME NEW id \in Elements(to_server), PlainNames(id)
        PROVE  ServerWrites(id)
    <3>1. id \in Id
      BY <1>1, TypedElements DEF DataInv, DataTypeOK
    <3>2. Found(id)
      BY <2>1, <2>2, <3>1, PlainNamesFound
    <3> QED
      BY <1>1, <3>2 DEF DataInv, KeysStay, ServerWrites
  <2>3. ASSUME NEW c \in Clients, NEW p \in Elements(to_client[c]),
               PlainNames(p.id)
        PROVE  ClientWrites(c, p)
    <3>1. p \in Packet
      BY <1>1, TypedElements DEF DataInv, DataTypeOK
    <3>2. Found(p.id)
      BY <2>1, <2>3, <3>1, PlainNamesFound DEF Packet
    <3> QED
      BY <1>1, <3>2 DEF DataInv, OwnTunnel, ClientWrites
  <2> QED
    BY <2>2, <2>3 DEF PacketsAccepted
<1> QED
  BY <1>1, DataInvHolds, PTL
=============================================================================
