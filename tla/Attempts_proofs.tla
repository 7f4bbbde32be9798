-------------------------- MODULE Attempts_proofs --------------------------
(***************************************************************************)
(* Proofs that the attempts of the clients are followed, and of what this  *)
(* means for the tunnel.                                                   *)
(*                                                                         *)
(* AttemptsInv is inductive on top of IInv and ModeInv.  Done(c, n) is the *)
(* thread: what was handled up to place n stays handled, because messages  *)
(* are read in the order in which a client sends them, and a client never  *)
(* goes back to an earlier place (lemma DoneKept).                         *)
(*                                                                         *)
(* The steps of the server come in two parts: what a handler does, given   *)
(* that the invariant holds (the lemmas named Effects), and that this      *)
(* keeps the invariant (the lemmas named Right).  Elsewhere settles all    *)
(* the identifiers that a handler does not touch.  The steps of a client   *)
(* are settled by ClientMovesRight, from what the client sends and what it *)
(* takes into its configuration.                                           *)
(***************************************************************************)
EXTENDS Attempts, Handshake_proofs

-----------------------------------------------------------------------------
\* What a message of a client is, and where it has its place.
LEMMA ClientMessages ==
  ASSUME NEW m \in ClientMessage
  PROVE  /\ Sender(m) \in Attempt
         /\ Place(m) \in Int
         /\ m \in ClientHelloCryptos \/ m \in SessionTerminations
              \/ Text(m) \in ClientHellos \/ Text(m) \in ClientACKs
         /\ IsCrypto(m) => /\ m \in ClientHelloCryptos /\ Text(m) = m
                           /\ Sender(m) = m.client_ephemeral_public_key
                           /\ Place(m) = Nth(Sender(m), 0)
         /\ IsHello(m) => /\ Text(m) \in ClientHellos
                          /\ Sender(m) = Text(m).handshake_identifier
                          /\ Place(m) = Nth(Sender(m), 1)
         /\ IsAck(m) => /\ Text(m) \in ClientACKs
                        /\ Sender(m) = Text(m).handshake_identifier
                        /\ Place(m) = Nth(Sender(m), 2)
         /\ IsTermination(m) => /\ m \in SessionTerminations /\ Text(m) = m
                                /\ Sender(m) = m.session_id
                                /\ Place(m) = Nth(Sender(m), 3)
<1> USE DEF Sender, Place, IsCrypto, IsHello, IsAck, IsTermination
<1>n. \A t \in Attempt, k \in 0 .. 3 : Nth(t, k) \in Int
  BY MaxStartsAssumption DEF Attempt, Nth
<1>1. CASE m \in ClientHelloCryptos
  <2>1. Text(m) = m /\ m.message_identifier = "CLIENT_HELLO_CRYPTO"
    BY <1>1 DEF Text, ClientHelloCryptos
  <2> QED
    BY <1>1, <1>n, <2>1 DEF ClientHelloCryptos
<1>2. CASE m \in SessionTerminations
  <2>1. Text(m) = m /\ m.message_identifier = "SESSION_TERMINATION"
    BY <1>2 DEF Text, SessionTerminations
  <2> QED
    BY <1>2, <1>n, <2>1 DEF SessionTerminations
<1>3. CASE m \notin ClientHelloCryptos \cup SessionTerminations
  <2>1. Text(m) \in ClientHellos \/ Text(m) \in ClientACKs
    BY <1>3
    DEF Text, ClientMessage, Wrappers, ClientHellos, ClientACKs
  <2>2. CASE Text(m) \in ClientHellos
    <3>1. Text(m).message_identifier = "CLIENT_HELLO"
      BY <2>2 DEF ClientHellos
    <3> QED
      BY <1>n, <2>2, <3>1 DEF ClientHellos
  <2>3. CASE Text(m) \in ClientACKs
    <3>1. Text(m).message_identifier = "CLIENT_ACK"
      BY <2>3 DEF ClientACKs
    <3> QED
      BY <1>n, <2>3, <3>1 DEF ClientACKs
  <2> QED
    BY <2>1, <2>2, <2>3
<1> QED
  BY <1>1, <1>2, <1>3

\* What the clients make is what it looks like, sealed or not.
LEMMA MadeMessages ==
  ASSUME NEW id \in Id, NEW i \in Id, NEW t \in Attempt, NEW mode \in Mode,
         NEW key \in Key
  PROVE  /\ IsCrypto(ClientHelloCrypto(id, t))
         /\ IsHello(ClientHello(id, t, mode))
         /\ IsHello(EncryptedWrapper(i, key, ClientHello(id, t, mode)))
         /\ IsAck(ClientACK(id, t))
         /\ IsAck(EncryptedWrapper(i, key, ClientACK(id, t)))
         /\ IsTermination(SessionTermination(id, t))
         /\ Text(ClientHello(id, t, mode)) = ClientHello(id, t, mode)
         /\ Text(ClientACK(id, t)) = ClientACK(id, t)
         /\ \A p : Text(EncryptedWrapper(i, key, p)) = p
BY DEF IsCrypto, IsHello, IsAck, IsTermination, Text, EncryptedWrapper,
       ClientHelloCrypto, ClientHello, ClientACK, SessionTermination

-----------------------------------------------------------------------------
\* What is in a queue when it is read and when something is added.
LEMMA Contents ==
  ASSUME NEW M, NEW q \in Seq(M)
  PROVE  LET Elements(s) == {s[k] : k \in 1 .. Len(s)}
         IN /\ Elements(q) \subseteq M
            /\ \A m \in M : Elements(Append(q, m)) = Elements(q) \cup {m}
            /\ q # <<>> => Elements(q) = Elements(Tail(q)) \cup {Head(q)}
            /\ Elements(<<>>) = {}
<1> DEFINE Elements(s) == {s[k] : k \in 1 .. Len(s)}
<1>1. Elements(q) \subseteq M
  OBVIOUS
<1>2. ASSUME NEW m \in M PROVE Elements(Append(q, m)) = Elements(q) \cup {m}
  <2>1. /\ Len(Append(q, m)) = Len(q) + 1
        /\ Append(q, m)[Len(q) + 1] = m
        /\ \A k \in 1 .. Len(q) : Append(q, m)[k] = q[k]
    OBVIOUS
  <2>2. Len(q) \in Nat
    OBVIOUS
  <2>3. 1 .. Len(q) + 1 = (1 .. Len(q)) \cup {Len(q) + 1}
    BY <2>2
  <2> QED
    BY <2>1, <2>3
<1>3. ASSUME q # <<>> PROVE Elements(q) = Elements(Tail(q)) \cup {Head(q)}
  <2>1. /\ 1 \in 1 .. Len(q) /\ Head(q) = q[1]
        /\ \A k \in 1 .. Len(Tail(q)) : k + 1 \in 1 .. Len(q)
        /\ \A k \in 1 .. Len(Tail(q)) : Tail(q)[k] = q[k + 1]
        /\ \A k \in 1 .. Len(q) : k # 1 => k - 1 \in 1 .. Len(Tail(q))
        /\ \A k \in 1 .. Len(q) : k # 1 => Tail(q)[k - 1] = q[k]
    BY <1>3
  <2> QED
    BY <2>1
<1>4. Elements(<<>>) = {}
  OBVIOUS
<1> QED
  BY <1>1, <1>2, <1>3, <1>4

LEMMA PendingTyped ==
  /\ ChannelTypeOK => Pending \subseteq ClientMessage
  /\ ChannelTypeOK' => Pending' \subseteq ClientMessage
BY Contents DEF ChannelTypeOK, Pending

LEMMA PendingRead ==
  ASSUME ChannelTypeOK, rx # <<>>, rx' = Tail(rx)
  PROVE  Pending = Pending' \cup {msg}
BY Contents DEF ChannelTypeOK, Pending, msg

LEMMA PendingSent ==
  ASSUME ChannelTypeOK, NEW m \in ClientMessage, ToServer(m)
  PROVE  /\ Pending \subseteq Pending'
         /\ Pending' \subseteq Pending \cup {m}
         /\ Server \in listeners => m \in Pending'
<1>1. CASE Server \in listeners
  BY <1>1, Contents DEF ChannelTypeOK, Pending, ToServer
<1>2. CASE Server \notin listeners
  BY <1>2 DEF Pending, ToServer
<1> QED
  BY <1>1, <1>2

LEMMA ReceivedTyped ==
  ASSUME ChannelTypeOK, NEW c \in Clients
  PROVE  /\ Received(c) \subseteq ServerMessage
         /\ inbox[c] # <<>> => Head(inbox[c]) \in Received(c)
BY Contents DEF ChannelTypeOK, Received

LEMMA ReceivedRead ==
  ASSUME ChannelTypeOK, NEW c \in Clients, inbox[c] # <<>>, Consume(c)
  PROVE  \A d \in Clients : /\ Received(d)' \subseteq Received(d)
                            /\ d # c => inbox'[d] = inbox[d]
<1>1. inbox'[c] = Tail(inbox[c])
  BY DEF Consume, ChannelTypeOK
<1>2. \A d \in Clients : d # c => inbox'[d] = inbox[d]
  BY DEF Consume, ChannelTypeOK
<1>3. Received(c)' \subseteq Received(c)
  BY <1>1, Contents DEF ChannelTypeOK, Received
<1> QED
  BY <1>2, <1>3 DEF Received

LEMMA ReceivedSent ==
  ASSUME ChannelTypeOK, NEW m \in ServerMessage, ToClients(m), NEW c \in Clients
  PROVE  /\ Received(c)' \subseteq Received(c) \cup {m}
         /\ c \notin listeners => inbox'[c] = inbox[c]
         /\ c \in listeners => inbox'[c] = Append(inbox[c], m)
<1>1. CASE c \in listeners
  <2>1. inbox'[c] = Append(inbox[c], m)
    BY <1>1 DEF ToClients
  <2> QED
    BY <1>1, <2>1, Contents DEF ChannelTypeOK, Received
<1>2. CASE c \notin listeners
  BY <1>2 DEF ToClients, Received
<1> QED
  BY <1>1, <1>2

LEMMA ReceivedLeft ==
  ASSUME ChannelTypeOK, NEW c \in Clients, ClientLeaves(c)
  PROVE  /\ inbox'[c] = <<>> /\ Received(c)' = {}
         /\ \A d \in Clients : d # c => inbox'[d] = inbox[d]
         /\ \A d \in Clients : Received(d)' \subseteq Received(d)
<1>1. inbox'[c] = <<>>
  BY DEF ClientLeaves, ChannelTypeOK
<1>2. Received(c)' = {}
  BY <1>1 DEF Received
<1>3. \A d \in Clients : d # c => inbox'[d] = inbox[d]
  BY DEF ClientLeaves, ChannelTypeOK
<1> QED
  BY <1>1, <1>2, <1>3 DEF Received

-----------------------------------------------------------------------------
\* The ways of a client program through its states.
Moves(x, y) ==
  \/ x = "connected" /\ y \in {"wait_crypto", "wait_hello"}
  \/ x = "wait_crypto" /\ y = "wait_hello"
  \/ x = "wait_hello" /\ y = "wait_ack"
  \/ x = "wait_ack" /\ y = "active"

Starts(c) ==
  /\ cpc[c] = "off"
  /\ cpc' = [cpc EXCEPT ![c] = "connected"]
  /\ starts' = [starts EXCEPT ![c] = @ + 1]
  /\ \E mode : tunnel_mode_' = [tunnel_mode_ EXCEPT ![c] = mode]

GoesOn(c) ==
  /\ starts' = starts
  /\ tunnel_mode_' = tunnel_mode_
  /\ \E pc : Moves(cpc[c], pc) /\ cpc' = [cpc EXCEPT ![c] = pc]

Ends(c) ==
  /\ starts' = starts
  /\ tunnel_mode_' = [tunnel_mode_ EXCEPT ![c] = "CONNECTION"]
  /\ cpc' = [cpc EXCEPT ![c] = "off"]

LEMMA ClientMoves ==
  ASSUME NEW c \in Clients, ClientStep(c)
  PROVE  Starts(c) \/ GoesOn(c) \/ Ends(c)
<1>1. ASSUME ConnectCommandChannel(c)
      PROVE  Starts(c)
  BY <1>1 DEF ConnectCommandChannel, Starts
<1>2. ASSUME ProcessEnds(c) PROVE Ends(c)
  BY <1>2 DEF ProcessEnds, Ends
<1>3. ASSUME cpc[c] = "wait_ack", BecomesActive(c) PROVE GoesOn(c)
  BY <1>3 DEF BecomesActive, GoesOn, Moves
<1>4. ASSUME SendClientHelloCrypto(c) PROVE GoesOn(c)
  BY <1>4 DEF SendClientHelloCrypto, GoesOn, Moves
<1>5. ASSUME SendClientHello(c) PROVE GoesOn(c)
  BY <1>5 DEF SendClientHello, GoesOn, Moves
<1>6. ASSUME ReceiveServerHelloCrypto(c) PROVE GoesOn(c)
  BY <1>6 DEF ReceiveServerHelloCrypto, GoesOn, Moves
<1>7. ASSUME ReceiveServerHello(c) PROVE GoesOn(c)
  BY <1>7 DEF ReceiveServerHello, GoesOn, Moves
<1> QED
  BY <1>1, <1>2, <1>3, <1>4, <1>5, <1>6, <1>7
  DEF ClientStep, SetupStep, ReceiveServerAck, ThrowUnusable, Timeout,
      HelloTimeout, AckTimeout, StopTunnel, Crash

\* The place of a client moves forward only.
LEMMA SentTyped ==
  ASSUME NEW c \in Clients
  PROVE  /\ Inv => Sent(c) \in Int
         /\ Inv' => Sent(c)' \in Int
<1>1. Inv => starts[c] \in Nat
  BY MaxStartsAssumption DEF Inv, ClientInv, ClientTypeOK
<1>2. Inv' => starts'[c] \in Nat
  BY MaxStartsAssumption DEF Inv, ClientInv, ClientTypeOK
<1> QED
  BY <1>1, <1>2 DEF Sent

LEMMA SentBetween ==
  ASSUME Inv, NEW c \in Clients
  PROVE  /\ starts[c] \in Nat
         /\ 4 * starts[c] - 1 <= Sent(c) /\ Sent(c) <= 4 * starts[c] + 3
         /\ cpc[c] = "connected" => Sent(c) = 4 * starts[c] - 1
         /\ cpc[c] = "wait_crypto" => Sent(c) = 4 * starts[c]
         /\ cpc[c] = "wait_hello" => Sent(c) = 4 * starts[c] + 1
         /\ cpc[c] \in {"wait_ack", "active"} => Sent(c) = 4 * starts[c] + 2
         /\ cpc[c] = "off" => Sent(c) = 4 * starts[c] + 3
<1>1. starts[c] \in Nat
  BY MaxStartsAssumption DEF Inv, ClientInv, ClientTypeOK
<1> QED
  BY <1>1 DEF Sent

LEMMA SentByClient ==
  ASSUME Inv, NEW c \in Clients, ClientStep(c)
  PROVE  /\ Sent(c) <= Sent(c)'
         /\ \A d \in Clients : d # c => /\ Sent(d)' = Sent(d)
                                        /\ attempt(d)' = attempt(d)
                                        /\ cpc'[d] = cpc[d]
                                        /\ tunnel_mode_'[d] = tunnel_mode_[d]
         /\ attempt(c)' # attempt(c) => Nth(attempt(c)', 0) > Sent(c)
<1>1. /\ starts[c] \in Nat
      /\ cpc[c] \in {"off", "connected", "active"} \cup Waiting
      /\ cpc \in [Clients -> {"off", "connected", "active"} \cup Waiting]
      /\ starts \in [Clients -> 0 .. MaxStarts]
      /\ tunnel_mode_ \in [Clients -> Mode]
  BY MaxStartsAssumption DEF Inv, ClientInv, ClientTypeOK
<1>2. CASE Starts(c)
  <2>1. starts'[c] = starts[c] + 1 /\ cpc'[c] = "connected" /\ cpc[c] = "off"
    BY <1>1, <1>2 DEF Starts
  <2>2. Sent(c) <= Sent(c)'
    BY <1>1, <2>1 DEF Sent
  <2>3. Nth(attempt(c)', 0) > Sent(c)
    BY <1>1, <2>1 DEF Sent, Nth, attempt
  <2> QED
    BY <1>1, <1>2, <2>2, <2>3 DEF Starts, Sent, attempt
<1>3. CASE GoesOn(c)
  <2>1. PICK pc : Moves(cpc[c], pc) /\ cpc' = [cpc EXCEPT ![c] = pc]
    BY <1>3 DEF GoesOn
  <2>2. starts' = starts /\ cpc'[c] = pc
    BY <1>1, <1>3, <2>1 DEF GoesOn
  <2>3. Sent(c) <= Sent(c)'
    BY <1>1, <2>1, <2>2 DEF Sent, Moves
  <2> QED
    BY <1>1, <1>3, <2>1, <2>2, <2>3 DEF GoesOn, Sent, attempt
<1>4. CASE Ends(c)
  <2>1. starts' = starts /\ cpc'[c] = "off"
    BY <1>1, <1>4 DEF Ends
  <2>2. Sent(c) <= Sent(c)'
    BY <1>1, <2>1 DEF Sent
  <2> QED
    BY <1>1, <1>4, <2>1, <2>2 DEF Ends, Sent, attempt
<1> QED
  BY <1>2, <1>3, <1>4, ClientMoves

\* An attempt that has begun is not the one that a client starts.
LEMMA ModeKept ==
  ASSUME Inv, NEW c \in Clients, ClientStep(c), NEW t \in Attempt,
         Nth(t, 0) <= Sent(t[1]), Current(t)'
  PROVE  Current(t) /\ tunnel_mode_'[t[1]] = tunnel_mode_[t[1]]
<1>1. t[1] \in Clients
  BY DEF Attempt
<1>2. CASE t[1] # c
  BY <1>1, <1>2, SentByClient DEF Current
<1>3. CASE t[1] = c
  <2>1. t = attempt(c)' /\ cpc'[c] # "off"
    BY <1>3 DEF Current
  <2>2. Sent(c) \in Int /\ Nth(t, 0) \in Int
    BY SentTyped, MaxStartsAssumption DEF Nth, Attempt
  <2>3. attempt(c)' = attempt(c)
    BY <1>3, <2>1, <2>2, SentByClient
  <2>4. cpc \in [Clients -> {"off", "connected", "active"} \cup Waiting]
    BY DEF Inv, ClientInv, ClientTypeOK
  <2>5. GoesOn(c)
    <3>1. ~Ends(c)
      BY <2>1, <2>4 DEF Ends
    <3>2. ~Starts(c)
      <4>1. starts \in [Clients -> 0 .. MaxStarts] /\ starts[c] \in Nat
        BY MaxStartsAssumption DEF Inv, ClientInv, ClientTypeOK
      <4> QED
        BY <2>3, <4>1 DEF Starts, attempt
    <3> QED
      BY <3>1, <3>2, ClientMoves
  <2>6. cpc[c] # "off"
    BY <2>5 DEF GoesOn, Moves
  <2> QED
    BY <1>3, <2>1, <2>3, <2>5, <2>6 DEF GoesOn, Current
<1> QED
  BY <1>2, <1>3

\* What every step does to the queue of the server and to the places.
Forward ==
  /\ \A c \in Clients : Sent(c) <= Sent(c)'
  /\ \A m \in Pending' : m \in Pending \/ Sent(Sender(m)[1]) < Place(m)

LEMMA DoneKept ==
  ASSUME Inv, Inv', Forward, NEW c \in Clients, NEW n \in Int, Done(c, n)
  PROVE  Done(c, n)'
<1>1. Sent(c) \in Int /\ Sent(c)' \in Int
  BY SentTyped
<1>2. n <= Sent(c)'
  BY <1>1 DEF Done, Forward
<1>3. ASSUME NEW m \in Pending', Sender(m)[1] = c PROVE n < Place(m)
  <2>1. Place(m) \in Int
    BY PendingTyped, ClientMessages DEF Inv
  <2> QED
    BY <1>1, <1>3, <2>1 DEF Done, Forward
<1> QED
  BY <1>2, <1>3 DEF Done

-----------------------------------------------------------------------------
\* The queue keeps the order of the places, when it is read and when a client
\* sends what comes next.
LEMMA ReadInOrder ==
  ASSUME Inv, Ordered, rx # <<>>, rx' = Tail(rx)
  PROVE  /\ Ordered'
         /\ \A m \in Pending' :
              Sender(m)[1] = Sender(msg)[1] => Place(msg) < Place(m)
<1>1. rx \in Seq(ClientMessage)
  BY DEF Inv, ChannelTypeOK
<1>2. /\ 1 \in 1 .. Len(rx) /\ msg = rx[1]
      /\ \A k \in 1 .. Len(rx') : /\ k + 1 \in 1 .. Len(rx)
                                  /\ 1 < k + 1
                                  /\ rx'[k] = rx[k + 1]
  BY <1>1 DEF msg
<1>3. Ordered'
  <2> SUFFICES ASSUME NEW j \in 1 .. Len(rx'), NEW k \in 1 .. Len(rx'), j < k,
                      Sender(rx'[j])[1] = Sender(rx'[k])[1]
               PROVE  Place(rx'[j]) < Place(rx'[k])
    BY DEF Ordered
  <2>1. j + 1 < k + 1
    OBVIOUS
  <2> QED
    BY <1>2, <2>1 DEF Ordered
<1>4. ASSUME NEW m \in Pending', Sender(m)[1] = Sender(msg)[1]
      PROVE  Place(msg) < Place(m)
  <2>1. PICK k \in 1 .. Len(rx') : m = rx'[k]
    BY DEF Pending
  <2> QED
    BY <1>2, <1>4, <2>1 DEF Ordered
<1> QED
  BY <1>3, <1>4

LEMMA SentInOrder ==
  ASSUME Inv, Ordered, NotAhead, NEW m \in ClientMessage, ToServer(m),
         Sent(Sender(m)[1]) < Place(m)
  PROVE  Ordered'
<1>1. rx \in Seq(ClientMessage)
  BY DEF Inv, ChannelTypeOK
<1>2. CASE Server \in listeners
  <2>1. /\ Len(rx') = Len(rx) + 1 /\ rx'[Len(rx) + 1] = m
        /\ \A k \in 1 .. Len(rx) : rx'[k] = rx[k]
    BY <1>1, <1>2 DEF ToServer
  <2> SUFFICES ASSUME NEW j \in 1 .. Len(rx'), NEW k \in 1 .. Len(rx'), j < k,
                      Sender(rx'[j])[1] = Sender(rx'[k])[1]
               PROVE  Place(rx'[j]) < Place(rx'[k])
    BY DEF Ordered
  <2>2. j \in 1 .. Len(rx) /\ (k \in 1 .. Len(rx) \/ k = Len(rx) + 1)
    BY <1>1, <2>1
  <2>3. CASE k \in 1 .. Len(rx)
    BY <2>1, <2>2, <2>3 DEF Ordered
  <2>4. CASE k = Len(rx) + 1
    <3>1. rx[j] \in Pending /\ rx'[j] = rx[j] /\ rx'[k] = m
      BY <2>1, <2>2, <2>4 DEF Pending
    <3>2. Place(rx[j]) <= Sent(Sender(m)[1])
      BY <3>1 DEF NotAhead
    <3>3. Place(rx[j]) \in Int /\ Place(m) \in Int /\ Sender(m)[1] \in Clients
      BY <3>1, PendingTyped, ClientMessages DEF Inv, Attempt
    <3>4. Sent(Sender(m)[1]) \in Int
      BY <3>3, SentTyped
    <3> QED
      BY <3>1, <3>2, <3>3, <3>4
  <2> QED
    BY <2>2, <2>3, <2>4
<1>3. CASE Server \notin listeners
  BY <1>3 DEF ToServer, Ordered
<1> QED
  BY <1>2, <1>3

-----------------------------------------------------------------------------
(***************************************************************************)
(* The steps of the server.  Its loop reads the queue or goes on with the  *)
(* ACK, forgets no key and cuts nobody off the network.                    *)
(***************************************************************************)
Ready == IInv /\ ModeInv /\ ProcessInv /\ Trusted /\ TrustedInv

ServerWorks ==
  /\ UNCHANGED <<clientVars, serverPc, server_starts, listeners>>
  /\ serverPc = "running"
  /\ \/ UNCHANGED rx
     \/ rx # <<>> /\ rx' = Tail(rx)
  /\ \A id \in Id : session_map_[id] # None => session_map_'[id] = session_map_[id]
  /\ data_subscriptions \subseteq data_subscriptions'
  /\ routes \subseteq routes'
  /\ \A ip : <<ip, 32>> \in nat => <<ip, 32>> \in nat'

LEMMA DoneByServer ==
  ASSUME Inv, ServerWorks, NEW c, NEW n, Done(c, n)
  PROVE  Done(c, n)'
<1>1. Pending' \subseteq Pending
  BY PendingRead DEF ServerWorks, Inv, Pending
<1>2. Sent(c)' = Sent(c)
  BY DEF ServerWorks, clientVars, Sent
<1> QED
  BY <1>1, <1>2 DEF Done

\* What is read is done with.
LEMMA DoneByReading ==
  ASSUME Ready, ServerWorks, rx # <<>>, rx' = Tail(rx),
         NEW c, c = Sender(msg)[1], NEW n, n = Place(msg)
  PROVE  Done(c, n)'
<1>1. msg \in Pending
  BY PendingRead DEF Ready, IInv, Inv
<1>2. n <= Sent(c)
  BY <1>1 DEF Ready, TrustedInv, NotAhead
<1>3. Sent(c)' = Sent(c)
  BY DEF ServerWorks, clientVars, Sent
<1>4. \A m \in Pending' : Sender(m)[1] = c => n < Place(m)
  BY ReadInOrder DEF Ready, IInv, TrustedInv
<1> QED
  BY <1>2, <1>3, <1>4 DEF Done

\* What the server does not touch, or touches in the same way in each step.
LEMMA KeptByServer ==
  ASSUME Ready, ServerWorks
  PROVE  Ordered' /\ NotAhead' /\ MessagesInv' /\ ClientsInv'
<1>1. Pending' \subseteq Pending
  BY PendingRead DEF ServerWorks, Ready, IInv, Inv, Pending
<1>2. Ordered'
  BY ReadInOrder DEF ServerWorks, Ready, IInv, TrustedInv, Ordered
<1>3. NotAhead'
  BY <1>1 DEF ServerWorks, clientVars, Ready, TrustedInv, NotAhead, Sent
<1>4. MessagesInv'
  <2> SUFFICES ASSUME NEW m \in Pending'
               PROVE  /\ AddressedRight(m)'
                      /\ IsHello(m) /\ Current(Sender(m))' =>
                           Text(m).tunnel_mode = tunnel_mode_'[Sender(m)[1]]
                      /\ IsAck(m) \/ IsTermination(m) =>
                           Done(Sender(m)[1], Nth(Sender(m), 1))'
    BY DEF MessagesInv, MessageRight
  <2>1. m \in Pending
    BY <1>1
  <2>2. AddressedRight(m)'
    <3>1. AddressedRight(m)
      BY <2>1 DEF Ready, TrustedInv, MessagesInv, MessageRight
    <3>2. SealedRight(m) => SealedRight(m)'
      BY Identifiers DEF SealedRight, ServerWorks, clientVars, NeverRestarted
    <3> QED
      BY <3>1, <3>2 DEF AddressedRight
  <2>3. IsHello(m) /\ Current(Sender(m))' =>
          Text(m).tunnel_mode = tunnel_mode_'[Sender(m)[1]]
    BY <2>1
    DEF Ready, TrustedInv, MessagesInv, MessageRight, ServerWorks, clientVars, Current, attempt
  <2>4. IsAck(m) \/ IsTermination(m) =>
          Done(Sender(m)[1], Nth(Sender(m), 1))'
    BY <2>1, DoneByServer DEF Ready, IInv, TrustedInv, MessagesInv, MessageRight
  <2> QED
    BY <2>2, <2>3, <2>4
<1>5. ClientsInv'
  <2>1. ClientsInv
    BY DEF Ready, TrustedInv
  <2>2. \A c, n : Done(c, n) => Done(c, n)'
    BY DoneByServer DEF Ready, IInv
  <2> SUFFICES ASSUME NEW c \in Clients PROVE ClientRight(c)'
    BY DEF ClientsInv
  <2>3. ClientRight(c)
    BY <2>1 DEF ClientsInv
  <2>4. \A id \in Attempt :
          (NeverRestarted => session_map_[id] # None) =>
            (NeverRestarted' => session_map_'[id] # None)
    BY Identifiers DEF ServerWorks, NeverRestarted
  <2>5. /\ UNCHANGED <<cpc, client_base_id_, session_key, session_config_, crosstalk>>
        /\ attempt(c)' = attempt(c)
    BY DEF ServerWorks, clientVars, attempt
  <2> QED
    BY <2>2, <2>3, <2>4, <2>5 DEF ClientRight
<1> QED
  BY <1>2, <1>3, <1>4, <1>5

-----------------------------------------------------------------------------
\* An attempt and the identifier that the server has for it.
LEMMA OwnIds ==
  /\ \A t \in Attempt : /\ OwnId(t) \in Id
                        /\ OwnId(t)[1] = t[1] /\ t[1] \in Clients
                        /\ OwnId(t) \in Attempt <=> t[1] \in EncryptedClients
                        /\ OwnId(t) \in Attempt => OwnId(t) = t
                        /\ BaseId(t[1]) \notin Attempt
                        /\ t = <<t[1], t[2]>> /\ t[2] \in Nat
BY Identifiers, MaxStartsAssumption DEF OwnId, BaseId, Attempt

\* The message that the loop handles.
LEMMA Handled ==
  ASSUME Ready, rx # <<>>
  PROVE  /\ msg \in Pending /\ msg \in ClientMessage
         /\ payload = Text(msg)
         /\ AddressedRight(msg)
         /\ Sender(msg) \in Attempt
         /\ \A n \in Int : Done(Sender(msg)[1], n) => n < Place(msg)
<1>1. msg \in Pending /\ msg \in ClientMessage
  BY Contents DEF Ready, IInv, Inv, ChannelTypeOK, Pending, msg
<1>2. payload = Text(msg)
  BY DEF payload, Text
<1> QED
  BY <1>1, <1>2, ClientMessages DEF Ready, TrustedInv, MessagesInv, MessageRight,
     Done

LEMMA Places ==
  ASSUME NEW t \in Attempt, NEW k \in {0, 1, 2, 3}
  PROVE  Nth(t, k) \in Int /\ t[2] \in Nat /\ Nth(t, k) = 4 * t[2] + k
BY OwnIds DEF Nth

LEMMA HelloCryptoEffects ==
  ASSUME Ready, HandleClientHelloCrypto, UNCHANGED clientVars
  PROVE  \E t \in Attempt, e \in SessionConfig :
           /\ IsCrypto(msg) /\ Sender(msg) = t /\ Place(msg) = Nth(t, 0)
           /\ t[1] \in EncryptedClients
           /\ session_map_[t] = None
           /\ handshake_states_[t] = None
           /\ session_map_' = [session_map_ EXCEPT ![t] = SharedKey(t, t)]
           /\ handshake_states_' = [handshake_states_ EXCEPT ![t] = e]
           /\ e.session_state = "HANDSHAKE_CLIENT_HELLO"
           /\ e.client_address = NoAddress
           /\ ToClients(ServerHelloCrypto(t, t))
           /\ establishing = None
           /\ ServerWorks /\ rx # <<>> /\ rx' = Tail(rx)
           /\ UNCHANGED <<ip_usage, establishing, active_clients_>>
<1> DEFINE t == Sender(msg)
<1>1. /\ rx # <<>> /\ rx' = Tail(rx) /\ IsCrypto(msg)
      /\ serverPc = "running" /\ establishing = None
  BY Handled DEF HandleClientHelloCrypto, Handles, Consumes, IsCrypto
<1>2. /\ t \in Attempt /\ Place(msg) = Nth(t, 0)
      /\ payload = msg /\ msg.client_ephemeral_public_key = t
      /\ msg.client_base_id = BaseId(t[1]) /\ t[1] \in EncryptedClients
  <2>1. msg \in ClientHelloCryptos /\ Text(msg) = msg
    BY <1>1, Handled, ClientMessages
  <2>2. msg.message_identifier # "ENCRYPTED_WRAPPER"
    BY <2>1 DEF ClientHelloCryptos
  <2> QED
    BY <1>1, <2>1, <2>2, Handled, ClientMessages DEF AddressedRight
<1>3. unique_identifier(payload) = t
  BY <1>2, OwnIds DEF unique_identifier, BaseId
<1>4. session_map_[t] = None
  <2>1. Nth(t, 0) \in Int
    BY <1>2, Places
  <2>2. ~Done(t[1], Nth(t, 0))
    BY <1>1, <1>2, <2>1, Handled
  <2> QED
    BY <1>2, <2>2, Identifiers DEF Ready, TrustedInv, ServiceInv, KeyRight
<1>5. handshake_states_[t] = None
  BY <1>2, <1>4, Identifiers DEF Ready, TrustedInv, ServiceInv, OfferRight
<1>6. session_map_' = [session_map_ EXCEPT ![t] = SharedKey(t, t)]
  BY <1>2, <1>3, <1>4, Identifiers
  DEF HandleClientHelloCrypto, establish_server_session, Ready, IInv, Inv,
      ServerInv, ServerTypeOK
<1>7. ToClients(ServerHelloCrypto(t, t))
  BY <1>2, <1>3 DEF HandleClientHelloCrypto
<1>8. PICK e \in SessionConfig :
        /\ handshake_states_' = [handshake_states_ EXCEPT ![t] = e]
        /\ e.session_state = "HANDSHAKE_CLIENT_HELLO"
        /\ e.client_address = NoAddress
  <2> DEFINE e == [DefaultEntry EXCEPT !.session_state = "HANDSHAKE_CLIENT_HELLO"]
  <2>1. /\ e \in SessionConfig /\ e.client_address = NoAddress
        /\ e.session_state = "HANDSHAKE_CLIENT_HELLO"
    BY DefaultTyped DEF SessionConfig, DefaultEntry
  <2>2. handshake_states_' = [handshake_states_ EXCEPT ![t] = e]
    <3>1. handshake_states_' =
            [handshake_states_ EXCEPT ![t] =
               [(IF handshake_states_[t] = None
                 THEN DefaultEntry ELSE handshake_states_[t])
                  EXCEPT !.session_state = "HANDSHAKE_CLIENT_HELLO"]]
      BY <1>3 DEF HandleClientHelloCrypto
    <3> QED
      BY <1>5, <3>1
  <2> QED
    BY <2>1, <2>2
<1>9. ServerWorks
  <2>1. \A id \in Id : session_map_[id] # None => session_map_'[id] = session_map_[id]
    BY <1>2, <1>4, <1>6 DEF Ready, IInv, Inv, ServerInv, ServerTypeOK
  <2> QED
    BY <1>1, <2>1 DEF HandleClientHelloCrypto, ServerWorks
<1>10. UNCHANGED <<ip_usage, establishing, active_clients_>>
  BY DEF HandleClientHelloCrypto
<1> QED
  BY <1>1, <1>2, <1>4, <1>5, <1>6, <1>7, <1>8, <1>9, <1>10

LEMMA HelloEffects ==
  ASSUME Ready, HandleClientHello, UNCHANGED clientVars
  PROVE  \E t \in Attempt, ip \in Address \cup {NoAddress}, mode \in Mode :
           LET id == OwnId(t) IN
           /\ IsHello(msg) /\ Sender(msg) = t /\ Place(msg) = Nth(t, 1)
           /\ Current(t) => mode = tunnel_mode_[t[1]]
           /\ ~AckExpected(id) /\ establishing = None
           /\ id \in Attempt => session_map_[id] = SharedKey(t, t)
           /\ ServerEncrypts => id \in Attempt
           /\ allocate_ip(ip)
           /\ ToClients(Seal(id, ServerHello(id, t, ip, t)))
           /\ handshake_states_' =
                [handshake_states_ EXCEPT ![id] = Offer(t, ip, mode)]
           /\ ServerWorks /\ rx # <<>> /\ rx' = Tail(rx)
           /\ UNCHANGED <<session_map_, active_clients_, establishing, routes,
                          nat, data_subscriptions>>
<1> DEFINE t == Sender(msg)
           id == OwnId(t)
           mode == payload.tunnel_mode
<1>1. /\ rx # <<>> /\ rx' = Tail(rx) /\ IsHello(msg)
      /\ serverPc = "running" /\ establishing = None /\ Opens(msg)
  BY Handled DEF HandleClientHello, Handles, Consumes, IsHello
<1>2. /\ t \in Attempt /\ Place(msg) = Nth(t, 1)
      /\ payload \in ClientHellos /\ payload.handshake_identifier = t
      /\ mode \in Mode
  BY <1>1, Handled, ClientMessages DEF ClientHellos
<1>3. /\ payload.client_base_id = id
      /\ id \in Attempt => session_map_[id] = SharedKey(t, t)
  <2>1. CASE msg.message_identifier = "ENCRYPTED_WRAPPER"
    <3>1. /\ SealedRight(msg) /\ payload.client_base_id = msg.client_id
      BY <1>1, <2>1, Handled DEF AddressedRight
    <3>2. /\ msg.client_id \in Attempt
          /\ session_map_[msg.client_id] = SharedKey(t, msg.client_id)
          /\ t[1] \in EncryptedClients
      BY <1>1, <2>1, <3>1 DEF SealedRight, Opens
    <3>3. session_map_[msg.client_id] # None
      BY <1>2, <3>2, NoneAssumption DEF SharedKey, Key
    <3>4. session_map_[msg.client_id] = SharedKey(msg.client_id, msg.client_id)
      BY <3>2, <3>3, Identifiers DEF Ready, TrustedInv, ServiceInv, KeyRight
    <3>5. msg.client_id = t
      BY <3>2, <3>4 DEF SharedKey
    <3> QED
      BY <3>1, <3>2, <3>5 DEF OwnId
  <2>2. CASE msg.message_identifier # "ENCRYPTED_WRAPPER"
    <3>1. t[1] \notin EncryptedClients /\ payload.client_base_id = BaseId(t[1])
      BY <1>1, <2>2, Handled DEF AddressedRight
    <3> QED
      BY <1>2, <3>1, OwnIds DEF OwnId
  <2> QED
    BY <2>1, <2>2
<1>4. ~AckExpected(id)
  BY <1>3 DEF HandleClientHello, HelloExpected, AckExpected
<1>5. ServerEncrypts => id \in Attempt
  <2>1. ServerEncrypts => session_map_[id] # None
    BY <1>3 DEF HandleClientHello, CanSeal
  <2> QED
    BY <1>2, <2>1, OwnIds DEF Ready, TrustedInv, ServiceInv, KeyRight
<1>6. Current(t) => mode = tunnel_mode_[t[1]]
  BY <1>1, Handled DEF Ready, TrustedInv, MessagesInv, MessageRight
<1>7. PICK ip \in Address \cup {NoAddress} :
        /\ allocate_ip(ip)
        /\ ToClients(Seal(id, ServerHello(id, t, ip, t)))
        /\ handshake_states_' =
             [handshake_states_ EXCEPT ![id] = Offer(t, ip, mode)]
  BY <1>2, <1>3 DEF HandleClientHello
<1>8. ServerWorks
  BY <1>1 DEF HandleClientHello, ServerWorks
<1> QED
  BY <1>1, <1>2, <1>3, <1>4, <1>5, <1>6, <1>7, <1>8 DEF HandleClientHello

LEMMA AckAddressed ==
  ASSUME Ready, rx # <<>>, IsAck(msg)
  PROVE  payload.client_id = OwnId(Sender(msg))
<1>1. CASE msg.message_identifier = "ENCRYPTED_WRAPPER"
  BY <1>1, Handled DEF AddressedRight, SealedRight, OwnId
<1>2. CASE msg.message_identifier # "ENCRYPTED_WRAPPER"
  BY <1>2, Handled DEF AddressedRight, OwnId
<1> QED
  BY <1>1, <1>2

LEMMA AckEffects ==
  ASSUME Ready, HandleClientAck, UNCHANGED clientVars
  PROVE  \E t \in Attempt :
           LET id == OwnId(t) IN
           /\ IsAck(msg) /\ Sender(msg) = t /\ Place(msg) = Nth(t, 2)
           /\ Offered(t)
           /\ establishing = None /\ establishing' = id
           /\ ToClients(Seal(id, ServerACK(t)))
           /\ ServerWorks /\ rx # <<>> /\ rx' = Tail(rx)
           /\ UNCHANGED <<ip_usage, handshake_states_, active_clients_,
                          session_map_, routes, nat, data_subscriptions>>
<1> DEFINE t == Sender(msg)
           id == OwnId(t)
           e == handshake_states_[id]
<1>1. /\ rx # <<>> /\ rx' = Tail(rx) /\ IsAck(msg)
      /\ serverPc = "running" /\ establishing = None
  BY Handled DEF HandleClientAck, Handles, Consumes, IsAck
<1>2. /\ t \in Attempt /\ Place(msg) = Nth(t, 2)
      /\ payload.handshake_identifier = t
  BY <1>1, Handled, ClientMessages
<1>3. payload.client_id = id
  BY <1>1, AckAddressed
<1>4. /\ AckExpected(id) /\ e.handshake_identifier = t
      /\ ToClients(Seal(id, ServerACK(t)))
      /\ establishing' = id
  BY <1>2, <1>3 DEF HandleClientAck
<1>5. Offered(t)
  <2>1. EntryOf(id, e)
    BY <1>2, <1>4, OwnIds DEF Ready, TrustedInv, ServiceInv, OfferRight
  <2> QED
    BY <1>4, <2>1 DEF EntryOf, Offered
<1>6. ServerWorks
  BY <1>1 DEF HandleClientAck, ServerWorks
<1>7. UNCHANGED <<ip_usage, handshake_states_, active_clients_, session_map_,
                  routes, nat, data_subscriptions>>
  BY DEF HandleClientAck
<1> QED
  BY <1>1, <1>2, <1>4, <1>5, <1>6, <1>7

LEMMA FinishEffects ==
  ASSUME Ready, FinishClientAck, UNCHANGED clientVars
  PROVE  \E t \in Attempt :
           LET id == OwnId(t)
               e == handshake_states_[id]
           IN
           /\ establishing = id /\ Offered(t) /\ establishing' = None
           /\ EntryOf(id, e)
           /\ Done(t[1], Nth(t, 2))
           /\ e.client_address \in Address =>
                /\ e.client_address \in routes'
                /\ e.tunnel_mode = "GATEWAY" => <<e.client_address, 32>> \in nat'
           /\ data_subscriptions' = data_subscriptions \cup {id}
           /\ active_clients_' =
                [active_clients_ EXCEPT ![id] = e]
           /\ handshake_states_' = [handshake_states_ EXCEPT ![id] = DefaultEntry]
           /\ ServerWorks
           /\ UNCHANGED <<ip_usage, session_map_, rx, inbox>>
<1> DEFINE id == establishing
           e == handshake_states_[id]
           t == e.session_id
<1>1. id \in Id /\ id # None
  BY DEF FinishClientAck, Ready, IInv, Inv, ServerInv, ServerTypeOK
<1>2. AckExpected(id)
  BY <1>1 DEF Ready, TrustedInv, ServiceInv,
         EstablishingInv
<1>3. EntryOf(id, e) /\ Done(id[1], Nth(t, 2))
  BY <1>1, <1>2 DEF Ready, TrustedInv, ServiceInv, OfferRight
<1>4. t \in Attempt /\ OwnId(t) = id /\ Offered(t) /\ t[1] = id[1]
  BY <1>2, <1>3, OwnIds DEF EntryOf, Offered
<1>5. serverPc = "running"
  BY <1>1 DEF Ready, ProcessInv
<1>n. /\ routes \subseteq routes' /\ nat \subseteq nat'
      /\ e.client_address \in Address =>
           /\ e.client_address \in routes'
           /\ e.tunnel_mode = "GATEWAY" => <<e.client_address, 32>> \in nat'
  BY DEF FinishClientAck, ConfigureNetwork, AddRoute, AddMasquerade
<1>6. ServerWorks
  BY <1>5, <1>n DEF FinishClientAck, ServerWorks, channelVars
<1> HIDE DEF t
<1> QED
  BY <1>3, <1>4, <1>n, <1>6
  DEF FinishClientAck, add_session, EraseHandshake, channelVars

LEMMA TerminationEffects ==
  ASSUME Ready, HandleSessionTermination, UNCHANGED clientVars
  PROVE  \E t \in Attempt :
           LET id == OwnId(t) IN
           /\ IsTermination(msg) /\ Sender(msg) = t /\ Place(msg) = Nth(t, 3)
           /\ Established(t) /\ establishing = None
           /\ active_clients_' = [active_clients_ EXCEPT ![id] = None]
           /\ release_ip(active_clients_[id].client_address)
           /\ \A ip : <<ip, 32>> \in nat => <<ip, 32>> \in nat'
           /\ ServerWorks /\ rx # <<>> /\ rx' = Tail(rx)
           /\ UNCHANGED <<establishing, handshake_states_, session_map_, routes,
                          data_subscriptions, inbox>>
<1> DEFINE t == Sender(msg)
           id == OwnId(t)
<1>1. /\ rx # <<>> /\ rx' = Tail(rx) /\ IsTermination(msg)
      /\ serverPc = "running" /\ establishing = None
  BY Handled DEF HandleSessionTermination, Handles, Consumes, IsTermination
<1>2. /\ t \in Attempt /\ Place(msg) = Nth(t, 3) /\ payload.client_id = id
  BY <1>1, Handled, ClientMessages DEF AddressedRight
<1>3. has_session(id)
  BY <1>2 DEF HandleSessionTermination
<1>4. Pursued(t)
  BY <1>1, <1>3, Handled DEF Ready, TrustedInv, PromisesInv, PromiseIn,
         Known
<1>5. ASSUME NEW m \in Pending, AckOf(t, m) PROVE FALSE
  <2>1. m \in ClientMessage /\ Place(m) = Nth(t, 2)
    BY <1>5, PendingTyped, ClientMessages DEF AckOf, Ready, IInv, Inv
  <2>2. m # msg
    BY <1>1, <1>5 DEF AckOf, IsAck, IsTermination
  <2>3. Nth(t, 3) < Nth(t, 2)
    <3>1. Inv /\ ChannelTypeOK /\ Ordered
      BY DEF Ready, IInv, Inv, TrustedInv
    <3>2. m \in Pending'
      BY <1>1, <2>2, <3>1, PendingRead
    <3> QED
      BY <1>1, <1>2, <1>5, <2>1, <3>1, <3>2, ReadInOrder DEF AckOf
  <2> QED
    BY <1>2, <2>3, Places
<1>6. Established(t)
  <2>1. establishing # id
    BY <1>1, <1>2, OwnIds, NoneAssumption
  <2> QED
    BY <1>4, <1>5, <2>1 DEF Pursued
<1>7. \A ip : <<ip, 32>> \in nat => <<ip, 32>> \in nat'
  BY DEF HandleSessionTermination, RemoveMasquerade
<1>8. ServerWorks
  BY <1>1, <1>7 DEF HandleSessionTermination, ServerWorks
<1>9. /\ active_clients_' = [active_clients_ EXCEPT ![id] = None]
      /\ release_ip(active_clients_[id].client_address)
      /\ UNCHANGED <<handshake_states_, session_map_, routes,
                     data_subscriptions, inbox>>
  BY <1>2 DEF HandleSessionTermination, remove_session
<1>10. UNCHANGED establishing
  BY DEF HandleSessionTermination
<1> QED
  BY <1>1, <1>2, <1>6, <1>7, <1>8, <1>9, <1>10

-----------------------------------------------------------------------------
(***************************************************************************)
(* What a step of the loop leaves as it is: the clients, and the server's  *)
(* memory of every identifier but one.                                     *)
(***************************************************************************)
LEMMA SameClients ==
  ASSUME ServerWorks
  PROVE  /\ \A c \in Clients : /\ attempt(c)' = attempt(c)
                               /\ Sent(c)' = Sent(c)
         /\ \A t : Current(t)' <=> Current(t)
         /\ NeverRestarted' <=> NeverRestarted
         /\ UNCHANGED <<cpc, starts, tunnel_mode_, client_base_id_, session_key,
                        session_config_, crosstalk, server_starts>>
BY DEF ServerWorks, clientVars, attempt, Sent, Current, NeverRestarted

LEMMA OwnIdOfClient ==
  ASSUME Inv, NEW c \in Clients
  PROVE  /\ OwnId(attempt(c)) \in Id /\ attempt(c)[1] = c
         /\ attempt(c)[2] = starts[c] /\ starts[c] \in Nat
         /\ starts[c] # 0 => attempt(c) \in Attempt
<1>1. starts[c] \in 0 .. MaxStarts
  BY DEF Inv, ClientInv, ClientTypeOK
<1> QED
  BY <1>1, MaxStartsAssumption, Identifiers DEF OwnId, attempt, Id, Attempt

LEMMA KeyKept ==
  ASSUME Ready, ServerWorks, NEW id \in Id,
         session_map_'[id] = session_map_[id]
  PROVE  KeyRight(id)'
BY DoneByServer DEF Ready, IInv, TrustedInv, ServiceInv, KeyRight

LEMMA EntryKept ==
  ASSUME ServerWorks, NEW id, NEW e, EntryOf(id, e)
  PROVE  EntryOf(id, e)'
BY SameClients DEF EntryOf, ServerWorks, clientVars

LEMMA OfferKept ==
  ASSUME Ready, ServerWorks, NEW id \in Id,
         handshake_states_'[id] = handshake_states_[id],
         active_clients_'[id] \in {active_clients_[id], None},
         establishing' = id <=> establishing = id
  PROVE  OfferRight(id)'
<1>1. OfferRight(id)
  BY DEF Ready, TrustedInv, ServiceInv
<1>2. AckExpected(id)' <=> AckExpected(id)
  BY DEF AckExpected
<1>3. handshake_states_[id] # None /\ id \in Attempt => session_map_'[id] # None
  BY <1>1 DEF OfferRight, ServerWorks
<1>4. ASSUME AckExpected(id)
      PROVE  /\ EntryOf(id, handshake_states_[id])'
             /\ Done(id[1], Nth(handshake_states_[id].session_id,
                                IF establishing = id THEN 2 ELSE 1))'
  <2>1. EntryOf(id, handshake_states_[id])
    BY <1>1, <1>4 DEF OfferRight
  <2>2. EntryOf(id, handshake_states_[id])'
    BY <2>1, EntryKept
  <2>3. Done(id[1], Nth(handshake_states_[id].session_id,
                        IF establishing = id THEN 2 ELSE 1))
    BY <1>1, <1>4 DEF OfferRight
  <2> QED
    BY <2>2, <2>3, DoneByServer DEF Ready, IInv
<1> QED
  BY <1>1, <1>2, <1>3, <1>4 DEF OfferRight

LEMMA SessionKept ==
  ASSUME Ready, ServerWorks, NEW id \in Id,
         active_clients_'[id] = active_clients_[id]
  PROVE  SessionRight(id)'
<1>1. SessionRight(id)
  BY DEF Ready, TrustedInv, ServiceInv
<1>2. ASSUME active_clients_[id] # None
      PROVE  /\ EntryOf(id, active_clients_[id])'
             /\ Done(id[1], Nth(active_clients_[id].session_id, 2))'
             /\ Wired(id)'
  <2>1. EntryOf(id, active_clients_[id])'
    BY <1>1, <1>2, EntryKept DEF SessionRight
  <2>2. Done(id[1], Nth(active_clients_[id].session_id, 2))'
    BY <1>1, <1>2, DoneByServer DEF SessionRight, Ready, IInv
  <2>3. Wired(id)'
    BY <1>1, <1>2 DEF SessionRight, Wired, ServerWorks
  <2> QED
    BY <2>1, <2>2, <2>3
<1> QED
  BY <1>2 DEF SessionRight

-----------------------------------------------------------------------------
\* What an answer of the server is.
LEMMA ServerMessages ==
  ASSUME NEW m \in ServerMessage
  PROVE  /\ IsServerCrypto(m) =>
              /\ m \in ServerHelloCryptos /\ Text(m) = m
              /\ m.message_identifier # "ENCRYPTED_WRAPPER"
         /\ IsServerHello(m) => Text(m) \in ServerHellos
         /\ IsServerAck(m) => Text(m) \in ServerACKs
<1> USE DEF IsServerCrypto, IsServerHello, IsServerAck
<1>1. CASE m \in Wrappers(ServerHellos \cup ServerACKs)
  <2>1. Text(m) \in ServerHellos \cup ServerACKs
    BY <1>1 DEF Text, Wrappers
  <2> QED
    BY <2>1 DEF ServerHellos, ServerACKs
<1>2. CASE m \notin Wrappers(ServerHellos \cup ServerACKs)
  <2>1. m.message_identifier # "ENCRYPTED_WRAPPER"
    BY <1>2 DEF ServerMessage, ServerHelloCryptos, ServerHellos, ServerACKs
  <2>2. Text(m) = m
    BY <2>1 DEF Text
  <2> QED
    BY <1>2, <2>1, <2>2
    DEF ServerMessage, ServerHelloCryptos, ServerHellos, ServerACKs
<1> QED
  BY <1>1, <1>2

\* The answers under way stay right while the server works.
LEMMA AnswerKept ==
  ASSUME Ready, ServerWorks, NEW c \in Clients, NEW m \in Received(c)
  PROVE  AnswerRight(c, m)'
<1>1. m \in ServerMessage /\ AnswerRight(c, m)
  BY ReceivedTyped DEF Ready, IInv, Inv, TrustedInv, AnswersInv
<1>2. \A d, n : Done(d, n) => Done(d, n)'
  BY DoneByServer DEF Ready, IInv
<1>3. IsServerCrypto(m) => Text(m).server_ephemeral_public_key \in Id
  BY <1>1, ServerMessages, Identifiers DEF ServerHelloCryptos
<1>4. IsServerCrypto(m) =>
        LET t == Text(m).server_ephemeral_public_key IN
        /\ Text(m).unique_identifier = t
        /\ Done(t[1], Nth(t, 0))'
        /\ NeverRestarted' => session_map_'[t] # None
  BY <1>1, <1>2, <1>3, SameClients DEF AnswerRight, ServerWorks
<1>5. IsServerHello(m) =>
        LET t == Text(m).handshake_identifier IN
        /\ Text(m).session_id = t
        /\ Text(m).assigned_client_id_ = OwnId(t)
        /\ Done(t[1], Nth(t, 1))'
        /\ t = attempt(c)' => cpc'[c] = "wait_hello"
  BY <1>1, <1>2, SameClients DEF AnswerRight
<1> QED
  BY <1>1, <1>2, <1>4, <1>5 DEF AnswerRight

LEMMA AnswersKept ==
  ASSUME Ready, ServerWorks, UNCHANGED inbox
  PROVE  AnswersInv'
<1>1. \A c \in Clients : Received(c)' = Received(c)
  BY DEF Received
<1>2. \A c \in Clients : OneHello(c) => OneHello(c)'
  BY SameClients DEF OneHello, HelloTo
<1> QED
  BY <1>1, <1>2, AnswerKept DEF AnswersInv, Ready, TrustedInv

LEMMA AnswersAdded ==
  ASSUME Ready, ServerWorks, NEW a \in ServerMessage, ToClients(a),
         \A c \in Clients : c \in listeners => AnswerRight(c, a)',
         \A c \in Clients : c \in listeners /\ HelloTo(c, a) =>
                              \A m \in Received(c) : ~HelloTo(c, m)
  PROVE  AnswersInv'
<1> SUFFICES ASSUME NEW c \in Clients
             PROVE  /\ OneHello(c)'
                    /\ \A m \in Received(c)' : AnswerRight(c, m)'
  BY DEF AnswersInv
<1>t. ChannelTypeOK /\ OneHello(c) /\ inbox[c] \in Seq(ServerMessage)
  BY DEF Ready, IInv, Inv, TrustedInv, AnswersInv, ChannelTypeOK
<1>s. \A m : HelloTo(c, m)' <=> HelloTo(c, m)
  BY SameClients DEF HelloTo
<1>1. CASE c \notin listeners
  <2>1. inbox'[c] = inbox[c]
    BY <1>1, <1>t, ReceivedSent
  <2>2. Received(c)' = Received(c)
    BY <2>1 DEF Received
  <2>3. OneHello(c)'
    BY <1>s, <1>t, <2>1 DEF OneHello
  <2> QED
    BY <2>2, <2>3, AnswerKept
<1>2. CASE c \in listeners
  <2>1. inbox'[c] = Append(inbox[c], a) /\ Received(c)' \subseteq Received(c) \cup {a}
    BY <1>2, <1>t, ReceivedSent
  <2>2. /\ Len(inbox'[c]) = Len(inbox[c]) + 1 /\ inbox'[c][Len(inbox[c]) + 1] = a
        /\ \A k \in 1 .. Len(inbox[c]) : /\ inbox'[c][k] = inbox[c][k]
                                         /\ inbox[c][k] \in Received(c)
        /\ Len(inbox[c]) \in Nat
    BY <1>t, <2>1 DEF Received
  <2>3. OneHello(c)'
    <3> SUFFICES ASSUME NEW j \in 1 .. Len(inbox'[c]), NEW k \in 1 .. Len(inbox'[c]),
                        HelloTo(c, inbox'[c][j]), HelloTo(c, inbox'[c][k])
                 PROVE  j = k
      BY <1>s DEF OneHello
    <3>1. /\ j \in 1 .. Len(inbox[c]) \/ j = Len(inbox[c]) + 1
          /\ k \in 1 .. Len(inbox[c]) \/ k = Len(inbox[c]) + 1
      BY <2>2
    <3> QED
      BY <1>2, <1>t, <2>2, <3>1 DEF OneHello
  <2> QED
    BY <1>2, <2>1, <2>3, AnswerKept
<1> QED
  BY <1>1, <1>2

-----------------------------------------------------------------------------
\* Promises are kept as long as offers and sessions are, and no ServerHello
\* is added.
Kept(s) ==
  /\ Known(OwnId(s))' => Known(OwnId(s))
  /\ Offered(s) => Offered(s)'
  /\ Pursued(s) => Pursued(s)'

NoNewHello(c) == \A m \in Received(c)' : HelloTo(c, m) => m \in Received(c)

LEMMA ElsewhereKept ==
  ASSUME Ready, ServerWorks, NEW s,
         handshake_states_'[OwnId(s)] = handshake_states_[OwnId(s)],
         active_clients_'[OwnId(s)] = active_clients_[OwnId(s)],
         establishing = OwnId(s) => establishing' = OwnId(s),
         rx # <<>> /\ rx' = Tail(rx) /\ AckOf(s, msg) /\ Offered(s) =>
           establishing' = OwnId(s)
  PROVE  /\ Kept(s)
         /\ Offered(s)' <=> Offered(s)
         /\ Established(s)' <=> Established(s)
<1>1. Offered(s)' <=> Offered(s)
  BY DEF Offered, AckExpected
<1>2. Established(s)' <=> Established(s)
  BY DEF Established, has_session
<1>3. Known(OwnId(s))' => Known(OwnId(s))
  BY SameClients DEF Known, AckExpected, has_session
<1>4. ASSUME Pursued(s) PROVE Pursued(s)'
  <2>1. CASE Established(s)
    BY <1>2, <2>1 DEF Pursued
  <2>2. CASE Offered(s) /\ establishing = OwnId(s)
    BY <1>1, <2>2 DEF Pursued
  <2>3. ASSUME Offered(s), NEW m \in Pending, AckOf(s, m) PROVE Pursued(s)'
    <3>1. CASE m \in Pending'
      BY <1>1, <2>3, <3>1 DEF Pursued, AckOf
    <3>2. CASE m \notin Pending'
      <4>1. rx # <<>> /\ rx' = Tail(rx) /\ m = msg
        BY <3>2, PendingRead DEF ServerWorks, Ready, IInv, Inv, Pending
      <4> QED
        BY <1>1, <2>3, <4>1 DEF Pursued
    <3> QED
      BY <3>1, <3>2
  <2> QED
    BY <1>4, <2>1, <2>2, <2>3 DEF Pursued
<1> QED
  BY <1>1, <1>2, <1>3, <1>4 DEF Kept

LEMMA PromiseToKept ==
  ASSUME Ready, ServerWorks, NEW c \in Clients, NoNewHello(c),
         NEW s, s = attempt(c), Kept(s)
  PROVE  PromiseTo(c)'
<1>1. PromiseTo(c)
  BY DEF Ready, TrustedInv, PromisesInv
<1>2. attempt(c)' = s /\ cpc' = cpc
  BY SameClients
<1>3. \A m : HelloTo(c, m)' <=> HelloTo(c, m)
  BY SameClients DEF HelloTo
<1>4. (\E m \in Received(c)' : HelloTo(c, m)') =>
        \E m \in Received(c) : HelloTo(c, m)
  BY <1>3 DEF NoNewHello
<1>5. Known(OwnId(s)) =>
        /\ (\E m \in Received(c) : HelloTo(c, m)) => Offered(s)
        /\ cpc[c] \in {"wait_ack", "active"} => Pursued(s)
  BY <1>1 DEF PromiseTo
<1>6. Known(OwnId(s))' =>
        /\ (\E m \in Received(c)' : HelloTo(c, m)') => Offered(s)'
        /\ cpc'[c] \in {"wait_ack", "active"} => Pursued(s)'
  BY <1>2, <1>4, <1>5 DEF Kept
<1> QED
  BY <1>2, <1>6 DEF PromiseTo

LEMMA PromiseInKept ==
  ASSUME Ready, ServerWorks, NEW m \in Pending', Kept(Sender(m))
  PROVE  PromiseIn(m)'
<1>1. m \in Pending
  BY PendingRead DEF ServerWorks, Ready, IInv, Inv, Pending
<1>2. PromiseIn(m)
  BY <1>1 DEF Ready, TrustedInv, PromisesInv
<1> QED
  BY <1>2 DEF PromiseIn, Kept

LEMMA ToldKept ==
  ASSUME Ready, ServerWorks, NEW c \in Clients, NoNewHello(c)
  PROVE  Told(c)' \subseteq Told(c)
<1>1. \A m : HelloTo(c, m)' <=> HelloTo(c, m)
  BY SameClients DEF HelloTo
<1> QED
  BY <1>1, SameClients DEF Told, NoNewHello

LEMMA SameAddressKept ==
  ASSUME Ready, ServerWorks, NEW c \in Clients, NoNewHello(c),
         NEW s, s = attempt(c),
         \A ip \in Told(c) :
           /\ Offered(s)' => handshake_states_'[OwnId(s)].client_address = ip
           /\ Established(s)' => active_clients_'[OwnId(s)].client_address = ip
  PROVE  SameAddress(c)'
<1>1. attempt(c)' = s
  BY SameClients
<1>2. Told(c)' \subseteq Told(c)
  BY ToldKept
<1> QED
  BY <1>1, <1>2 DEF SameAddress

LEMMA OtherAddressKept ==
  ASSUME Ready, ServerWorks, \A c \in Clients : NoNewHello(c)
  PROVE  OtherAddress'
<1>1. \A c \in Clients : Told(c)' \subseteq Told(c)
  BY ToldKept
<1>2. server_starts' = server_starts /\ OtherAddress
  BY SameClients DEF Ready, TrustedInv, AddressesInv
<1> QED
  BY <1>1, <1>2 DEF OtherAddress

\* A step that works for one identifier.
LEMMA Elsewhere ==
  ASSUME Ready, ServerWorks, NEW id \in Id,
         \A i \in Id : i # id =>
           /\ handshake_states_'[i] = handshake_states_[i]
           /\ active_clients_'[i] = active_clients_[i]
           /\ session_map_'[i] = session_map_[i],
         establishing \in {id, None}, establishing' \in {id, None},
         UNCHANGED rx \/ OwnId(Sender(msg)) = id
  PROVE  /\ \A i \in Id : i # id => KeyRight(i)' /\ OfferRight(i)' /\ SessionRight(i)'
         /\ \A m \in Pending' : OwnId(Sender(m)) # id => PromiseIn(m)'
         /\ \A c \in Clients :
              OwnId(attempt(c)) # id /\ NoNewHello(c) =>
                PromiseTo(c)' /\ SameAddress(c)'
<1>n. \A i \in Id : i # None
  BY NoneAssumption
<1>1. ASSUME NEW i \in Id, i # id
      PROVE  KeyRight(i)' /\ OfferRight(i)' /\ SessionRight(i)'
  <2>1. establishing' = i <=> establishing = i
    BY <1>n, <1>1
  <2> QED
    BY <1>1, <2>1, KeyKept, OfferKept, SessionKept
<1>2. ASSUME NEW s, OwnId(s) \in Id, OwnId(s) # id
      PROVE  Kept(s) /\ (Offered(s)' <=> Offered(s))
                     /\ (Established(s)' <=> Established(s))
  <2>1. establishing # OwnId(s)
    BY <1>n, <1>2
  <2>2. ~(rx # <<>> /\ rx' = Tail(rx) /\ AckOf(s, msg))
    <3>1. CASE UNCHANGED rx
      <4>1. rx \in Seq(ClientMessage)
        BY DEF Ready, IInv, Inv, ChannelTypeOK
      <4>2. rx # <<>> => Len(Tail(rx)) # Len(rx)
        BY <4>1
      <4> QED
        BY <3>1, <4>2
    <3>2. CASE OwnId(Sender(msg)) = id
      BY <1>2, <3>2 DEF AckOf
    <3> QED
      BY <3>1, <3>2
  <2> QED
    BY <1>2, <2>1, <2>2, ElsewhereKept
<1>3. ASSUME NEW m \in Pending', OwnId(Sender(m)) # id PROVE PromiseIn(m)'
  <2>1. m \in ClientMessage
    BY PendingTyped, PendingRead DEF ServerWorks, Ready, IInv, Inv, Pending
  <2>2. OwnId(Sender(m)) \in Id
    BY <2>1, ClientMessages, Identifiers, MaxStartsAssumption
    DEF OwnId, Attempt, BaseId
  <2> QED
    BY <1>2, <1>3, <2>2, PromiseInKept
<1>4. ASSUME NEW c \in Clients, OwnId(attempt(c)) # id, NoNewHello(c)
      PROVE  PromiseTo(c)' /\ SameAddress(c)'
  <2>1. PICK s : s = attempt(c)
    OBVIOUS
  <2>2. OwnId(s) \in Id /\ OwnId(s) # id
    BY <1>4, <2>1, OwnIdOfClient DEF Ready, IInv
  <2>3. PromiseTo(c)'
    BY <1>2, <1>4, <2>1, <2>2, PromiseToKept
  <2>4. \A ip \in Told(c) :
          /\ Offered(s) => handshake_states_[OwnId(s)].client_address = ip
          /\ Established(s) => active_clients_[OwnId(s)].client_address = ip
    BY <2>1 DEF Ready, TrustedInv, AddressesInv, SameAddress
  <2>5. SameAddress(c)'
    BY <1>2, <1>4, <2>1, <2>2, <2>4, SameAddressKept
  <2> QED
    BY <2>3, <2>5
<1> QED
  BY <1>1, <1>3, <1>4

-----------------------------------------------------------------------------
\* The invariant and each step of the loop.
LEMMA NetworkKept ==
  ASSUME EstablishingInv, ServerWorks, UNCHANGED establishing,
         handshake_states_'[establishing] = handshake_states_[establishing]
  PROVE  EstablishingInv'
BY DEF EstablishingInv, AckExpected, ServerWorks

LEMMA DropRight ==
  ASSUME Ready, RejectClientHello \/ RejectClientAck \/ IgnoreSessionTermination,
         UNCHANGED clientVars
  PROVE  TrustedInv'
<1>1. /\ serverPc = "running" /\ rx # <<>> /\ rx' = Tail(rx)
      /\ UNCHANGED <<serverVars, inbox, listeners>>
  BY DEF RejectClientHello, RejectClientAck, IgnoreSessionTermination, Handles,
         Consumes
<1>2. ServerWorks
  BY <1>1 DEF serverVars, memoryVars, ServerWorks
<1>3. UNCHANGED <<handshake_states_, active_clients_, session_map_,
                  establishing, inbox>>
  BY <1>1 DEF serverVars, memoryVars
<1>4. ServiceInv'
  BY <1>2, <1>3, KeyKept, OfferKept, SessionKept, NetworkKept
  DEF ServiceInv, Ready, TrustedInv
<1>5. ASSUME NEW s, AckOf(s, msg) PROVE ~Offered(s)
  <2>1. RejectClientAck
    BY <1>1, <1>5, Handled
    DEF AckOf, IsAck, RejectClientHello, IgnoreSessionTermination, Handles
  <2>2. payload.client_id = OwnId(s)
    BY <1>1, <1>5, AckAddressed DEF AckOf
  <2> QED
    BY <2>1, <2>2 DEF RejectClientAck, Offered
<1>6. \A s : Kept(s) /\ (Offered(s)' <=> Offered(s))
                     /\ (Established(s)' <=> Established(s))
  BY <1>2, <1>3, <1>5, ElsewhereKept
<1>7. \A c \in Clients : NoNewHello(c)
  BY <1>3 DEF NoNewHello, Received
<1>8. PromisesInv'
  BY <1>2, <1>6, <1>7, PromiseToKept, PromiseInKept DEF PromisesInv
<1>9. ASSUME NEW c \in Clients PROVE SameAddress(c)'
  <2>1. PICK s : s = attempt(c)
    OBVIOUS
  <2>2. \A ip \in Told(c) :
          /\ Offered(s) => handshake_states_[OwnId(s)].client_address = ip
          /\ Established(s) => active_clients_[OwnId(s)].client_address = ip
    BY <2>1 DEF Ready, TrustedInv, AddressesInv, SameAddress
  <2> QED
    BY <1>2, <1>3, <1>6, <1>7, <2>1, <2>2, SameAddressKept
<1>10. AddressesInv'
  BY <1>2, <1>7, <1>9, OtherAddressKept DEF AddressesInv
<1> QED
  BY <1>2, <1>3, <1>4, <1>8, <1>10, KeptByServer, AnswersKept DEF TrustedInv

LEMMA NoneKeys == \A k \in Key : k # None
BY NoneAssumption

LEMMA NoneEntries == \A e \in SessionConfig : e # None
BY NoneAssumption

\* The messages that the server makes.
LEMMA MadeAnswers ==
  ASSUME NEW id \in Id, NEW t \in Attempt, NEW ip \in Address \cup {NoAddress}
  PROVE  /\ ServerHelloCrypto(t, t) \in ServerMessage
         /\ ~IsServerHello(ServerHelloCrypto(t, t))
         /\ ~IsServerAck(ServerHelloCrypto(t, t))
         /\ Text(ServerHelloCrypto(t, t)) = ServerHelloCrypto(t, t)
         /\ ServerHello(id, t, ip, t) \in ServerHellos
         /\ ServerACK(t) \in ServerACKs
         /\ ServerHello(id, t, ip, t).message_identifier = "SERVER_HELLO"
         /\ ServerACK(t).message_identifier = "SERVER_ACK"
<1>1. t \in Id /\ ip \in Nat
  BY Identifiers, PoolSizeAssumption DEF Address, NoAddress
<1> QED
  BY <1>1 DEF ServerHelloCrypto, ServerHello, ServerACK, ServerMessage,
     ServerHelloCryptos, ServerHellos, ServerACKs, IsServerHello, IsServerAck,
     Text

LEMMA HelloCryptoRight ==
  ASSUME Ready, HandleClientHelloCrypto, UNCHANGED clientVars
  PROVE  TrustedInv'
<1>1. PICK t \in Attempt, e \in SessionConfig :
        /\ IsCrypto(msg) /\ Sender(msg) = t /\ Place(msg) = Nth(t, 0)
        /\ t[1] \in EncryptedClients
        /\ session_map_[t] = None
        /\ handshake_states_[t] = None
        /\ session_map_' = [session_map_ EXCEPT ![t] = SharedKey(t, t)]
        /\ handshake_states_' = [handshake_states_ EXCEPT ![t] = e]
        /\ e.session_state = "HANDSHAKE_CLIENT_HELLO"
        /\ e.client_address = NoAddress
        /\ ToClients(ServerHelloCrypto(t, t))
        /\ establishing = None
        /\ ServerWorks /\ rx # <<>> /\ rx' = Tail(rx)
        /\ UNCHANGED <<ip_usage, establishing, active_clients_>>
  BY HelloCryptoEffects
<1> DEFINE a == ServerHelloCrypto(t, t)
<1>2. /\ t \in Id /\ OwnId(t) = t /\ t[1] \in Clients
      /\ \A u \in Attempt : OwnId(u) = t => u = t
      /\ \A c \in Clients : OwnId(attempt(c)) = t => attempt(c) = t
  BY <1>1, Identifiers, OwnIds DEF OwnId, attempt, BaseId
<1>3. /\ session_map_ \in [Id -> Key \cup {None}]
      /\ handshake_states_ \in [Id -> SessionConfig \cup {None}]
      /\ ChannelTypeOK
  BY DEF Ready, IInv, Inv, ServerInv, ServerTypeOK
<1>4. active_clients_[t] = None
  <2> SUFFICES ASSUME active_clients_[t] # None PROVE FALSE
    OBVIOUS
  <2>1. /\ active_clients_[t].session_id = t
        /\ Done(t[1], Nth(active_clients_[t].session_id, 2))
    BY <1>2 DEF Ready, TrustedInv, ServiceInv, SessionRight, EntryOf
  <2>2. Nth(t, 2) \in Int /\ ~(Nth(t, 2) < Nth(t, 0))
    BY Places
  <2>3. Nth(t, 2) < Place(msg)
    BY <1>1, <2>1, <2>2, Handled
  <2> QED
    BY <1>1, <2>2, <2>3
<1>5. /\ session_map_'[t] = SharedKey(t, t) /\ SharedKey(t, t) # None
      /\ handshake_states_'[t] = e /\ active_clients_'[t] = None
  BY <1>1, <1>2, <1>3, <1>4, NoneKeys DEF SharedKey, Key
<1>6. /\ ~AckExpected(t) /\ ~AckExpected(t)'
      /\ ~has_session(t) /\ ~has_session(t)'
  BY <1>1, <1>4, <1>5 DEF AckExpected, has_session
<1>7. /\ ~Offered(t) /\ ~Offered(t)' /\ ~Established(t) /\ ~Established(t)'
      /\ Kept(t)
  BY <1>1, <1>2, <1>6, SameClients DEF Offered, Established, Pursued, Kept, Known
<1>8. Done(t[1], Nth(t, 0))'
  BY <1>1, DoneByReading
<1>9. a \in ServerMessage /\ \A c \in Clients : ~HelloTo(c, a)
  BY <1>1, <1>2, MadeAnswers, PoolSizeAssumption DEF HelloTo
<1>10. \A c \in Clients : NoNewHello(c)
  BY <1>1, <1>3, <1>9, ReceivedSent DEF NoNewHello
<1>11. /\ \A i \in Id : i # t => KeyRight(i)' /\ OfferRight(i)' /\ SessionRight(i)'
       /\ \A m \in Pending' : OwnId(Sender(m)) # t => PromiseIn(m)'
       /\ \A c \in Clients :
            OwnId(attempt(c)) # t => PromiseTo(c)' /\ SameAddress(c)'
  <2>1. \A i \in Id : i # t =>
          /\ handshake_states_'[i] = handshake_states_[i]
          /\ active_clients_'[i] = active_clients_[i]
          /\ session_map_'[i] = session_map_[i]
    BY <1>1, <1>3
  <2>2. OwnId(Sender(msg)) = t
    BY <1>1, <1>2
  <2> QED
    BY <1>1, <1>2, <1>10, <2>1, <2>2, Elsewhere
<1>12. ServiceInv'
  <2>1. KeyRight(t)'
    BY <1>1, <1>5, <1>8 DEF KeyRight
  <2>2. OfferRight(t)'
    BY <1>1, <1>5, <1>6 DEF OfferRight
  <2>3. SessionRight(t)'
    BY <1>5 DEF SessionRight
  <2>4. EstablishingInv'
    BY <1>1 DEF EstablishingInv
  <2> QED
    BY <1>11, <2>1, <2>2, <2>3, <2>4 DEF ServiceInv
<1>13. AnswersInv'
  <2>1. ASSUME NEW c \in Clients PROVE AnswerRight(c, a)'
    <3>1. Text(a) = a /\ ~IsServerHello(a) /\ ~IsServerAck(a)
      BY <1>1, <1>2, MadeAnswers, PoolSizeAssumption
    <3>2. /\ a.message_identifier # "ENCRYPTED_WRAPPER"
          /\ a.server_ephemeral_public_key = t /\ a.unique_identifier = t
      BY DEF ServerHelloCrypto
    <3> HIDE DEF a
    <3> QED
      BY <1>5, <1>8, <3>1, <3>2 DEF AnswerRight
  <2> HIDE DEF a
  <2>2. ToClients(a)
    BY <1>1 DEF a
  <2> QED
    BY <1>1, <1>9, <2>1, <2>2, AnswersAdded
<1>14. PromisesInv'
  <2>1. ASSUME NEW m \in Pending', OwnId(Sender(m)) = t PROVE PromiseIn(m)'
    <3>1. m \in ClientMessage
      BY <1>1, <1>3, PendingTyped, PendingRead
    <3>2. Sender(m) = t
      BY <1>2, <2>1, <3>1, ClientMessages
    <3> QED
      BY <1>1, <1>7, <3>2, PromiseInKept
  <2>2. ASSUME NEW c \in Clients, OwnId(attempt(c)) = t PROVE PromiseTo(c)'
    BY <1>1, <1>2, <1>7, <1>10, <2>2, PromiseToKept
  <2> QED
    BY <1>11, <2>1, <2>2 DEF PromisesInv
<1>15. AddressesInv'
  <2>1. ASSUME NEW c \in Clients, OwnId(attempt(c)) = t PROVE SameAddress(c)'
    BY <1>1, <1>2, <1>7, <1>10, <2>1, SameAddressKept
  <2> QED
    BY <1>1, <1>10, <1>11, <2>1, OtherAddressKept DEF AddressesInv
<1> QED
  BY <1>1, <1>12, <1>13, <1>14, <1>15, KeptByServer DEF TrustedInv

LEMMA SealedAnswer ==
  ASSUME NEW m \in ServerHellos \cup ServerACKs, NEW id \in Id,
         ServerEncrypts => session_map_[id] \in Key
  PROVE  /\ Seal(id, m) \in ServerMessage /\ Text(Seal(id, m)) = m
         /\ Seal(id, m).message_identifier = "ENCRYPTED_WRAPPER" =>
              /\ ServerEncrypts
              /\ Seal(id, m).encrypted_payload.key = session_map_[id]
<1>1. m.message_identifier # "ENCRYPTED_WRAPPER"
  BY DEF ServerHellos, ServerACKs
<1>2. CASE ServerEncrypts
  <2>1. Seal(id, m) = EncryptedWrapper(id, session_map_[id], m)
    BY <1>2 DEF Seal
  <2>2. Seal(id, m) \in ServerMessage
    BY <1>2, <2>1, SealedByServer
  <2> QED
    BY <1>2, <2>1, <2>2 DEF EncryptedWrapper, Text
<1>3. CASE ~ServerEncrypts
  <2>1. Seal(id, m) = m /\ m \in ServerMessage
    BY <1>3 DEF Seal, ServerMessage
  <2> QED
    BY <1>1, <2>1 DEF Text
<1> QED
  BY <1>2, <1>3

\* While the hello of attempt t waits to be read, nothing that follows it in
\* the handshake can have happened, and no later run gets past its own hello.
LEMMA HelloUnread ==
  ASSUME Ready, rx # <<>>, NEW t \in Attempt, Sender(msg) = t,
         Place(msg) = Nth(t, 1)
  PROVE  /\ \A s \in Attempt, k \in {1, 2} :
              s[1] = t[1] /\ Done(t[1], Nth(s, k)) => s[2] < t[2]
         /\ Nth(t, 1) <= Sent(t[1])
         /\ t[2] <= starts[t[1]] /\ attempt(t[1]) \in Attempt
         /\ \A m \in Received(t[1]) : ~HelloTo(t[1], m)
         /\ cpc[t[1]] \notin {"wait_ack", "active"}
         /\ Told(t[1]) = {}
<1> DEFINE c == t[1]
<1>1. c \in Clients /\ t[2] \in Nat /\ t[2] # 0
  BY OwnIds, MaxStartsAssumption DEF Attempt
<1>2. ASSUME NEW s \in Attempt, NEW k \in {1, 2}, s[1] = c, Done(c, Nth(s, k))
      PROVE  s[2] < t[2]
  <2>1. Nth(s, k) \in Int /\ Nth(s, k) = 4 * s[2] + k /\ s[2] \in Nat
    BY Places
  <2>2. Nth(s, k) < Nth(t, 1)
    BY <1>2, <2>1, Handled
  <2>3. Nth(t, 1) = 4 * t[2] + 1
    BY Places
  <2> QED
    BY <1>1, <2>1, <2>2, <2>3
<1>3. Nth(t, 1) <= Sent(c)
  BY Handled DEF Ready, TrustedInv, NotAhead
<1>4. t[2] <= starts[c] /\ attempt(c) \in Attempt
  <2>1. /\ starts[c] \in Nat /\ Sent(c) \in Int
        /\ Sent(c) <= 4 * starts[c] + 3
    BY <1>1, SentBetween, SentTyped DEF Ready, IInv
  <2>2. Nth(t, 1) = 4 * t[2] + 1
    BY Places
  <2>3. t[2] <= starts[c]
    BY <1>1, <1>3, <2>1, <2>2
  <2>4. \A m, n \in Nat : m # 0 /\ m <= n => n # 0
    OBVIOUS
  <2>5. starts[c] # 0
    BY <1>1, <2>1, <2>3, <2>4
  <2> QED
    BY <1>1, <2>3, <2>5, OwnIdOfClient DEF Ready, IInv
<1>5. ~Done(c, Nth(attempt(c), 1))
  <2>1. /\ attempt(c)[1] = c /\ attempt(c)[2] = starts[c] /\ starts[c] \in Nat
    BY <1>1, OwnIdOfClient DEF Ready, IInv
  <2>2. Done(c, Nth(attempt(c), 1)) => attempt(c)[2] < t[2]
    BY <1>2, <1>4, <2>1
  <2> QED
    BY <1>1, <1>4, <2>1, <2>2
<1>6. ASSUME NEW m \in Received(c), HelloTo(c, m) PROVE FALSE
  BY <1>1, <1>5, <1>6 DEF HelloTo, AnswerRight, Ready, TrustedInv, AnswersInv, attempt
<1>7. cpc[c] \notin {"wait_ack", "active"}
  BY <1>1, <1>5 DEF Ready, TrustedInv, ClientsInv, ClientRight
<1>8. Told(c) = {}
  BY <1>6, <1>7 DEF Told
<1> QED
  BY <1>2, <1>3, <1>4, <1>6, <1>7, <1>8

LEMMA HelloRight ==
  ASSUME Ready, HandleClientHello, UNCHANGED clientVars
  PROVE  TrustedInv'
<1>1. PICK t \in Attempt, ip \in Address \cup {NoAddress}, mode \in Mode,
           id \in Id :
        /\ id = OwnId(t)
        /\ IsHello(msg) /\ Sender(msg) = t /\ Place(msg) = Nth(t, 1)
        /\ Current(t) => mode = tunnel_mode_[t[1]]
        /\ ~AckExpected(id) /\ establishing = None
        /\ id \in Attempt => session_map_[id] = SharedKey(t, t)
        /\ ServerEncrypts => id \in Attempt
        /\ allocate_ip(ip)
        /\ ToClients(Seal(id, ServerHello(id, t, ip, t)))
        /\ handshake_states_' =
             [handshake_states_ EXCEPT ![id] = Offer(t, ip, mode)]
        /\ ServerWorks /\ rx # <<>> /\ rx' = Tail(rx)
        /\ UNCHANGED <<session_map_, active_clients_, establishing, routes,
                       nat, data_subscriptions>>
  BY HelloEffects, OwnIds
<1> DEFINE e == Offer(t, ip, mode)
           hello == ServerHello(id, t, ip, t)
<1>2. PICK c \in Clients : c = t[1] /\ c = id[1]
  BY <1>1, OwnIds
<1>3. /\ session_map_ \in [Id -> Key \cup {None}]
      /\ handshake_states_ \in [Id -> SessionConfig \cup {None}]
      /\ ChannelTypeOK /\ Inv /\ PoolTypeOK
  BY DEF Ready, IInv, Inv, ServerInv, ServerTypeOK
<1>4. /\ e \in SessionConfig /\ handshake_states_'[id] = e /\ e # None
      /\ e.session_id = t /\ e.handshake_identifier = t
      /\ e.client_address = ip /\ e.tunnel_mode = mode
      /\ e.session_state = "HANDSHAKE_CLIENT_ACK"
  <2>1. e \in SessionConfig
    BY DEF Offer, SessionConfig
  <2> QED
    BY <1>1, <1>3, <2>1, NoneEntries DEF Offer
<1> HIDE DEF e
<1>5. AckExpected(id)' /\ Offered(t)'
  BY <1>1, <1>4 DEF AckExpected, Offered
\* Before the hello there was nothing of this attempt or a later one.
<1>6. /\ \A s \in Attempt, k \in {1, 2} :
           s[1] = c /\ Done(c, Nth(s, k)) => s[2] < t[2]
      /\ Nth(t, 1) <= Sent(c)
      /\ \A m \in Received(c) : ~HelloTo(c, m)
      /\ cpc[c] \notin {"wait_ack", "active"}
      /\ Told(c) = {}
  BY <1>1, <1>2, HelloUnread
<1>7. active_clients_[id] # None => active_clients_[id].session_id[2] < t[2]
  <2> SUFFICES ASSUME active_clients_[id] # None
               PROVE  active_clients_[id].session_id[2] < t[2]
    OBVIOUS
  <2>1. SessionRight(id)
    BY DEF Ready, TrustedInv, ServiceInv
  <2>2. PICK s \in Attempt : /\ s = active_clients_[id].session_id
                             /\ OwnId(s) = id /\ Done(id[1], Nth(s, 2))
    BY <2>1 DEF SessionRight, EntryOf
  <2> QED
    BY <1>2, <1>6, <2>2, OwnIds
<1>8. ~Established(t) /\ ~Established(t)'
  <2>1. t[2] \in Nat /\ ~(t[2] < t[2])
    BY OwnIds
  <2> QED
    BY <1>1, <1>7, <2>1 DEF Established, has_session
<1>9. PICK a \in ServerMessage :
        /\ a = Seal(id, hello) /\ Text(a) = hello
        /\ a.message_identifier = "ENCRYPTED_WRAPPER" =>
             a.encrypted_payload.key = SharedKey(t, t)
  <2>1. hello \in ServerHellos
    BY MadeAnswers
  <2>2. ServerEncrypts => /\ session_map_[id] \in Key
                          /\ session_map_[id] = SharedKey(t, t)
    <3>1. id \in Attempt => session_map_[id] = SharedKey(t, t)
      BY <1>1
    <3>2. SharedKey(t, t) \in Key /\ (ServerEncrypts => id \in Attempt)
      BY <1>1 DEF SharedKey, Key
    <3> QED
      BY <3>1, <3>2
  <2> HIDE DEF hello
  <2>3. /\ Seal(id, hello) \in ServerMessage /\ Text(Seal(id, hello)) = hello
        /\ Seal(id, hello).message_identifier = "ENCRYPTED_WRAPPER" =>
             /\ ServerEncrypts
             /\ Seal(id, hello).encrypted_payload.key = session_map_[id]
    BY <2>1, <2>2, SealedAnswer
  <2> QED
    BY <2>2, <2>3
<1>10. ToClients(a)
  BY <1>1, <1>9
<1>11. /\ \A d \in Clients : HelloTo(d, a) <=> attempt(d) = t
       /\ \A d \in Clients : attempt(d) = t => d = c
  <2>1. Text(a).message_identifier = "SERVER_HELLO" /\ Text(a).handshake_identifier = t
    BY <1>9 DEF ServerHello
  <2>2. \A d \in Clients : attempt(d)[1] = d
    BY DEF attempt
  <2> QED
    BY <1>2, <2>1, <2>2 DEF HelloTo, IsServerHello
<1>12. \A d \in Clients :
         /\ Received(d)' \subseteq Received(d) \cup {a}
         /\ d # c \/ attempt(c) # t => NoNewHello(d)
  BY <1>3, <1>9, <1>10, <1>11, ReceivedSent DEF NoNewHello
<1>13. /\ \A i \in Id : i # id => KeyRight(i)' /\ OfferRight(i)' /\ SessionRight(i)'
       /\ \A m \in Pending' : OwnId(Sender(m)) # id => PromiseIn(m)'
       /\ \A d \in Clients : d # c => PromiseTo(d)' /\ SameAddress(d)'
  <2>1. \A i \in Id : i # id =>
          /\ handshake_states_'[i] = handshake_states_[i]
          /\ active_clients_'[i] = active_clients_[i]
          /\ session_map_'[i] = session_map_[i]
    BY <1>1, <1>3
  <2>2. \A d \in Clients : d # c => OwnId(attempt(d)) # id
    BY <1>2 DEF OwnId, attempt, BaseId
  <2> QED
    BY <1>1, <1>12, <2>1, <2>2, Elsewhere
<1>14. ServiceInv'
  <2>1. KeyRight(id)'
    BY <1>1, KeyKept
  <2>2. OfferRight(id)'
    <3>1. EntryOf(id, e)'
      BY <1>1, <1>4, SameClients DEF EntryOf
    <3>2. id \in Attempt => session_map_'[id] # None
      BY <1>1, NoneKeys DEF SharedKey, Key
    <3>3. Done(id[1], Nth(t, 1))'
      BY <1>1, <1>2, DoneByReading
    <3>4. establishing' # id
      BY <1>1, NoneAssumption
    <3> QED
      BY <1>1, <1>4, <1>5, <1>7, <3>1, <3>2, <3>3, <3>4 DEF OfferRight
  <2>3. SessionRight(id)'
    BY <1>1, SessionKept
  <2>4. EstablishingInv'
    BY <1>1 DEF EstablishingInv
  <2> QED
    BY <1>13, <2>1, <2>2, <2>3, <2>4 DEF ServiceInv
<1>15. AnswersInv'
  <2>1. ASSUME NEW d \in Clients, d \in listeners PROVE AnswerRight(d, a)'
    <3>1. /\ IsServerHello(a) /\ ~IsServerCrypto(a) /\ ~IsServerAck(a)
          /\ Text(a).handshake_identifier = t /\ Text(a).session_id = t
          /\ Text(a).assigned_client_id_ = OwnId(t)
      BY <1>1, <1>9
      DEF ServerHello, IsServerHello, IsServerCrypto, IsServerAck
    <3>2. Done(t[1], Nth(t, 1))'
      BY <1>1, DoneByReading
    <3>3. t = attempt(d) => cpc[d] = "wait_hello"
      <4> SUFFICES ASSUME t = attempt(d) PROVE cpc[d] = "wait_hello"
        OBVIOUS
      <4>1. d = c /\ t[2] = starts[c]
        BY <1>11 DEF attempt
      <4>2. cpc[c] \notin {"off", "wait_ack", "active"}
        BY <1>6, <2>1, <4>1 DEF Ready, ProcessInv
      <4>3. Nth(t, 1) = 4 * starts[c] + 1 /\ starts[c] \in Nat
        BY <4>1, OwnIds, Places
      <4>4. cpc[c] # "connected" /\ cpc[c] # "wait_crypto"
        BY <1>3, <1>6, <4>3, SentBetween
      <4>5. cpc[c] \in {"off", "connected", "active"} \cup Waiting
        BY <1>3 DEF Inv, ClientInv, ClientTypeOK
      <4> QED
        BY <4>1, <4>2, <4>4, <4>5 DEF Waiting
    <3>4. t = attempt(d)' => cpc'[d] = "wait_hello"
      BY <1>1, <3>3, SameClients
    <3> QED
      BY <1>9, <3>1, <3>2, <3>4 DEF AnswerRight
  <2> QED
    BY <1>1, <1>6, <1>9, <1>10, <1>11, <2>1, AnswersAdded
<1>16. PromisesInv'
  <2>1. ASSUME NEW m \in Pending', OwnId(Sender(m)) = id PROVE PromiseIn(m)'
    <3>1. m \in ClientMessage /\ m \in Pending
      BY <1>1, <1>3, PendingTyped, PendingRead
    <3>2. PICK s \in Attempt : s = Sender(m) /\ s[1] = c
      BY <1>2, <2>1, <3>1, ClientMessages, OwnIds
    <3>3. Nth(t, 1) < Place(m)
      BY <1>1, <1>2, <1>3, <3>2, ReadInOrder DEF Ready, TrustedInv
    <3>4. /\ Nth(t, 1) = 4 * t[2] + 1 /\ t[2] \in Nat
          /\ Nth(s, 2) = 4 * s[2] + 2 /\ Nth(s, 3) = 4 * s[2] + 3 /\ s[2] \in Nat
      BY Places
    <3>5. ASSUME IsAck(m) \/ IsTermination(m) PROVE FALSE
      <4>1. s[2] < t[2]
        BY <1>6, <3>1, <3>2, <3>5 DEF Ready, TrustedInv, MessagesInv, MessageRight
      <4>2. Place(m) = Nth(s, 2) \/ Place(m) = Nth(s, 3)
        BY <3>1, <3>2, <3>5, ClientMessages
      <4> QED
        BY <3>3, <3>4, <4>1, <4>2
    <3> QED
      BY <3>5 DEF PromiseIn
  <2>2. PromiseTo(c)'
    <3>1. cpc'[c] \notin {"wait_ack", "active"}
      BY <1>1, <1>6, SameClients
    <3>2. attempt(c)' = attempt(c) /\ \A m : HelloTo(c, m)' <=> HelloTo(c, m)
      BY <1>1, SameClients DEF HelloTo
    <3>3. \A m \in Received(c)' : HelloTo(c, m)' => attempt(c) = t
      BY <1>6, <1>11, <1>12, <3>2
    <3>4. attempt(c) = t => attempt(c)' = t
      BY <3>2
    <3>5. (\E m \in Received(c)' : HelloTo(c, m)') => attempt(c)' = t
      BY <3>3, <3>4
    <3> QED
      BY <1>5, <3>1, <3>5 DEF PromiseTo
  <2> QED
    BY <1>13, <2>1, <2>2 DEF PromisesInv
<1>17. Told(c)' \subseteq {ip}
  <2>1. cpc'[c] \notin {"wait_ack", "active"}
    BY <1>1, <1>6, SameClients
  <2>2. \A m : HelloTo(c, m)' <=> HelloTo(c, m)
    BY <1>1, SameClients DEF HelloTo
  <2>3. \A m \in Received(c)' : HelloTo(c, m)' => m = a
    BY <1>6, <1>12, <2>2
  <2>4. Text(a).assigned_client_ip = ip
    BY <1>9 DEF ServerHello
  <2> QED
    BY <2>1, <2>3, <2>4 DEF Told
<1>18. OtherAddress'
  <2> SUFFICES ASSUME server_starts = 1
               PROVE  \A d, f \in Clients :
                        \A x \in Told(d)', y \in Told(f)' : d # f => ~Clash(x, y)
    BY <1>1, SameClients DEF OtherAddress
  <2>1. NeverRestarted
    BY <1>1 DEF ServerWorks, NeverRestarted
  <2>2. \A d \in Clients : d # c => Told(d)' \subseteq Told(d)
    BY <1>1, <1>12, ToldKept
  <2>3. ASSUME NEW d \in Clients, NEW y \in Told(d), d # c
        PROVE  ~Clash(ip, y) /\ ~Clash(y, ip)
    <3>1. PICK s : s = attempt(d) /\ OwnId(s) \in Id
      BY <1>3, OwnIdOfClient
    <3>2. Offered(s) \/ Established(s)
      <4>1. PromiseTo(d) /\ Known(OwnId(s))
        BY <2>1 DEF Ready, TrustedInv, PromisesInv, Known
      <4>2. \/ \E m \in Received(d) : HelloTo(d, m)
            \/ cpc[d] \in {"wait_ack", "active"}
        BY <2>3 DEF Told
      <4> QED
        BY <3>1, <4>1, <4>2 DEF PromiseTo, Pursued
    <3>3. y \in {HandshakeAddress(OwnId(s)), SessionAddress(OwnId(s))}
      <4>1. /\ Offered(s) => handshake_states_[OwnId(s)].client_address = y
            /\ Established(s) => active_clients_[OwnId(s)].client_address = y
        BY <2>3, <3>1 DEF Ready, TrustedInv, AddressesInv, SameAddress
      <4> QED
        BY <3>2, <4>1 DEF Offered, Established, AckExpected, has_session,
           HandshakeAddress, SessionAddress, AddressOf
    <3>4. InUse(y)
      BY <3>1, <3>3 DEF Ready, IInv, AddressInv, AddressReserved
    <3>5. ip \in Address => ip_usage[ip - 1] = FALSE
      BY <1>1, <1>3, AllocateAddress
    <3> QED
      BY <3>4, <3>5 DEF InUse, Clash
  <2>4. \A d, f \in Clients :
          \A x \in Told(d), y \in Told(f) : d # f => ~Clash(x, y)
    BY DEF Ready, TrustedInv, AddressesInv, OtherAddress
  <2> QED
    BY <1>17, <2>2, <2>3, <2>4
<1>19. SameAddress(c)'
  <2>1. attempt(c)' = attempt(c)
    BY <1>1, SameClients
  <2>2. CASE attempt(c) = t
    <3>1. attempt(c)' = t /\ handshake_states_'[OwnId(t)].client_address = ip
      BY <1>1, <1>4, <2>1, <2>2
    <3> QED
      BY <1>8, <1>17, <3>1 DEF SameAddress
  <2>3. CASE attempt(c) # t
    <3>1. Told(c)' = {}
      BY <1>1, <1>6, <1>12, <2>3, ToldKept
    <3> QED
      BY <3>1 DEF SameAddress
  <2> QED
    BY <2>2, <2>3
<1>20. AddressesInv'
  BY <1>13, <1>18, <1>19 DEF AddressesInv
<1> QED
  BY <1>1, <1>14, <1>15, <1>16, <1>20, KeptByServer DEF TrustedInv

LEMMA AckRight ==
  ASSUME Ready, HandleClientAck, UNCHANGED clientVars
  PROVE  TrustedInv'
<1>1. PICK t \in Attempt, id \in Id :
        /\ id = OwnId(t)
        /\ IsAck(msg) /\ Sender(msg) = t /\ Place(msg) = Nth(t, 2)
        /\ Offered(t)
        /\ establishing = None /\ establishing' = id
        /\ ToClients(Seal(id, ServerACK(t)))
        /\ ServerWorks /\ rx # <<>> /\ rx' = Tail(rx)
        /\ UNCHANGED <<ip_usage, handshake_states_, active_clients_,
                       session_map_, routes, nat, data_subscriptions>>
  BY AckEffects, OwnIds
<1> DEFINE e == handshake_states_[id]
<1>2. id[1] = t[1] /\ id # None /\ (id \in Attempt => id = t)
  BY <1>1, OwnIds, NoneAssumption
<1>3. /\ session_map_ \in [Id -> Key \cup {None}] /\ ChannelTypeOK /\ Inv
  BY DEF Ready, IInv, Inv, ServerInv, ServerTypeOK
<1>4. /\ AckExpected(id) /\ AckExpected(id)' /\ e.session_id = t
  BY <1>1 DEF Offered, AckExpected
<1>5. PICK a \in ServerMessage :
        /\ a = Seal(id, ServerACK(t)) /\ Text(a) = ServerACK(t)
        /\ a.message_identifier = "ENCRYPTED_WRAPPER" =>
             a.encrypted_payload.key = SharedKey(t, t)
  <2>1. ServerACK(t) \in ServerACKs
    BY DEF ServerACK, ServerACKs
  <2>2. ServerEncrypts => /\ session_map_[id] \in Key
                          /\ session_map_[id] = SharedKey(t, t)
    <3>1. ServerEncrypts => session_map_[id] # None
      BY <1>3, <1>4 DEF Inv, ServerInv, AckCanBeSealed, CanSeal
    <3>2. session_map_[id] # None => session_map_[id] = SharedKey(t, t)
      BY <1>2 DEF Ready, TrustedInv, ServiceInv, KeyRight
    <3> QED
      BY <1>3, <3>1, <3>2
  <2> DEFINE answer == ServerACK(t)
  <2> HIDE DEF answer
  <2>3. /\ Seal(id, answer) \in ServerMessage /\ Text(Seal(id, answer)) = answer
        /\ Seal(id, answer).message_identifier = "ENCRYPTED_WRAPPER" =>
             /\ ServerEncrypts
             /\ Seal(id, answer).encrypted_payload.key = session_map_[id]
    BY <2>1, <2>2, SealedAnswer DEF answer
  <2> QED
    BY <2>2, <2>3 DEF answer
<1>6. /\ IsServerAck(a) /\ ~IsServerHello(a) /\ ~IsServerCrypto(a)
      /\ Text(a).handshake_identifier = t
  BY <1>5 DEF ServerACK, IsServerAck, IsServerHello, IsServerCrypto
<1>7. ToClients(a)
  BY <1>1, <1>5
<1>8. Done(t[1], Nth(t, 2))'
  BY <1>1, DoneByReading
<1>9. \A c \in Clients : NoNewHello(c)
  BY <1>3, <1>6, <1>7, ReceivedSent DEF NoNewHello, HelloTo
<1>10. ASSUME NEW s, OwnId(s) \in Id
       PROVE  Kept(s) /\ (Offered(s)' <=> Offered(s))
                      /\ (Established(s)' <=> Established(s))
  <2>1. AckOf(s, msg) => establishing' = OwnId(s)
    BY <1>1 DEF AckOf
  <2>2. establishing # OwnId(s)
    BY <1>1, <1>10, NoneAssumption
  <2> QED
    BY <1>1, <2>1, <2>2, ElsewhereKept
<1>11. ServiceInv'
  <2>1. \A i \in Id : i # id => KeyRight(i)' /\ OfferRight(i)' /\ SessionRight(i)'
    BY <1>1, Elsewhere
  <2>2. KeyRight(id)' /\ SessionRight(id)'
    BY <1>1, KeyKept, SessionKept
  <2>3. OfferRight(id)'
    <3>1. OfferRight(id)
      BY DEF Ready, TrustedInv, ServiceInv
    <3>2. EntryOf(id, e)
      BY <1>4, <3>1 DEF OfferRight
    <3>3. EntryOf(id, e)'
      BY <1>1, <3>2, EntryKept
    <3> QED
      BY <1>1, <1>2, <1>4, <1>8, <3>1, <3>3 DEF OfferRight
  <2>4. EstablishingInv'
    BY <1>1, <1>4 DEF EstablishingInv
  <2> QED
    BY <2>1, <2>2, <2>3, <2>4 DEF ServiceInv
<1>12. AnswersInv'
  <2>1. \A c \in Clients : AnswerRight(c, a)'
    BY <1>5, <1>6, <1>8 DEF AnswerRight
  <2> QED
    BY <1>1, <1>6, <1>7, <2>1, AnswersAdded DEF HelloTo
<1>13. PromisesInv'
  <2>1. ASSUME NEW m \in Pending' PROVE PromiseIn(m)'
    <3>1. Sender(m) \in Attempt
      BY <1>1, <1>3, PendingTyped, PendingRead, ClientMessages
    <3> QED
      BY <1>1, <1>10, <3>1, OwnIds, PromiseInKept
  <2>2. ASSUME NEW c \in Clients PROVE PromiseTo(c)'
    <3>1. PICK s : s = attempt(c) /\ OwnId(s) \in Id
      BY <1>3, OwnIdOfClient
    <3> QED
      BY <1>1, <1>9, <1>10, <3>1, PromiseToKept
  <2> QED
    BY <2>1, <2>2 DEF PromisesInv
<1>14. ASSUME NEW c \in Clients PROVE SameAddress(c)'
  <2>1. PICK s : s = attempt(c) /\ OwnId(s) \in Id
    BY <1>3, OwnIdOfClient
  <2>2. \A ip \in Told(c) :
          /\ Offered(s) => handshake_states_[OwnId(s)].client_address = ip
          /\ Established(s) => active_clients_[OwnId(s)].client_address = ip
    BY <2>1 DEF Ready, TrustedInv, AddressesInv, SameAddress
  <2> QED
    BY <1>1, <1>9, <1>10, <2>1, <2>2, SameAddressKept
<1>15. AddressesInv'
  BY <1>1, <1>9, <1>14, OtherAddressKept DEF AddressesInv
<1> QED
  BY <1>1, <1>11, <1>12, <1>13, <1>15, KeptByServer DEF TrustedInv

LEMMA FinishRight ==
  ASSUME Ready, FinishClientAck, UNCHANGED clientVars
  PROVE  TrustedInv'
<1>1. PICK t \in Attempt, id \in Id :
        /\ id = OwnId(t)
        /\ establishing = id /\ Offered(t) /\ establishing' = None
        /\ EntryOf(id, handshake_states_[id])
        /\ Done(t[1], Nth(t, 2))
        /\ handshake_states_[id].client_address \in Address =>
             /\ handshake_states_[id].client_address \in routes'
             /\ handshake_states_[id].tunnel_mode = "GATEWAY" =>
                  <<handshake_states_[id].client_address, 32>> \in nat'
        /\ data_subscriptions' = data_subscriptions \cup {id}
        /\ active_clients_' = [active_clients_ EXCEPT ![id] = handshake_states_[id]]
        /\ handshake_states_' = [handshake_states_ EXCEPT ![id] = DefaultEntry]
        /\ ServerWorks
        /\ UNCHANGED <<ip_usage, session_map_, rx, inbox>>
  BY FinishEffects, OwnIds
<1>2. PICK e \in SessionConfig : e = handshake_states_[id]
  BY <1>1 DEF Offered, AckExpected, Ready, IInv, Inv, ServerInv, ServerTypeOK
<1>3. PICK c \in Clients :
        /\ c = t[1] /\ c = id[1]
        /\ \A s \in Attempt : OwnId(s) = id => s[1] = c
        /\ \A d \in Clients : OwnId(attempt(d)) = id => d = c
  BY <1>1, OwnIds DEF OwnId, attempt, BaseId
<1>4. /\ handshake_states_ \in [Id -> SessionConfig \cup {None}]
      /\ active_clients_ \in [Id -> SessionConfig \cup {None}]
      /\ ChannelTypeOK /\ Inv
  BY DEF Ready, IInv, Inv, ServerInv, ServerTypeOK
<1>5. /\ AckExpected(id) /\ e.session_id = t
      /\ \A s : OwnId(s) = id /\ Offered(s) => s = t
      /\ active_clients_'[id] = e /\ e # None
      /\ handshake_states_'[id] = DefaultEntry
  BY <1>1, <1>2, <1>4, NoneEntries DEF Offered
<1>6. ~AckExpected(id)' /\ has_session(id)' /\ Established(t)' /\ Pursued(t)'
  BY <1>1, <1>5
  DEF AckExpected, DefaultEntry, has_session, Established, Pursued
<1>7. OfferRight(id)
  BY DEF Ready, TrustedInv, ServiceInv
\* An earlier session of the same identifier is that of an earlier attempt.
<1>8. \A s \in Attempt : OwnId(s) = id /\ Established(s) => s[2] < t[2]
  BY <1>2, <1>5, <1>7 DEF OfferRight, Established, has_session
<1>9. \A d \in Clients : NoNewHello(d)
  BY <1>1 DEF NoNewHello, Received
<1>10. /\ \A i \in Id : i # id => KeyRight(i)' /\ OfferRight(i)' /\ SessionRight(i)'
       /\ \A m \in Pending' : OwnId(Sender(m)) # id => PromiseIn(m)'
       /\ \A d \in Clients :
            OwnId(attempt(d)) # id => PromiseTo(d)' /\ SameAddress(d)'
  <2>1. \A i \in Id : i # id =>
          /\ handshake_states_'[i] = handshake_states_[i]
          /\ active_clients_'[i] = active_clients_[i]
          /\ session_map_'[i] = session_map_[i]
    BY <1>1, <1>4
  <2> QED
    BY <1>1, <1>3, <1>9, <2>1, Elsewhere
<1>11. ServiceInv'
  <2>1. KeyRight(id)'
    BY <1>1, KeyKept
  <2>2. OfferRight(id)'
    <3>1. id \in Attempt => session_map_'[id] # None
      BY <1>1, <1>2, <1>5, <1>7 DEF OfferRight
    <3>2. handshake_states_'[id].client_address = NoAddress
      BY <1>5 DEF DefaultEntry
    <3> QED
      BY <1>6, <3>1, <3>2 DEF OfferRight
  <2>3. SessionRight(id)'
    <3>1. EntryOf(id, e)'
      BY <1>1, <1>2, EntryKept
    <3>2. Done(id[1], Nth(t, 2))'
      BY <1>1, <1>3, <1>4, DoneByServer
    <3>3. Wired(id)'
      BY <1>1, <1>2, <1>5 DEF Wired
    <3> QED
      BY <1>5, <3>1, <3>2, <3>3 DEF SessionRight
  <2>4. EstablishingInv'
    BY <1>1 DEF EstablishingInv
  <2> QED
    BY <1>10, <2>1, <2>2, <2>3, <2>4 DEF ServiceInv
<1>12. PromisesInv'
  <2>1. ASSUME NEW m \in Pending', OwnId(Sender(m)) = id PROVE PromiseIn(m)'
    <3>1. m \in Pending /\ m \in ClientMessage
      BY <1>1, <1>4, PendingTyped DEF Pending
    <3>2. PICK s \in Attempt : s = Sender(m) /\ s[1] = c
      BY <1>3, <2>1, <3>1, ClientMessages
    <3>3. /\ IsAck(m) => Offered(s)
          /\ IsTermination(m) => Pursued(s)
      BY <1>5, <2>1, <3>1, <3>2
      DEF Ready, TrustedInv, PromisesInv, PromiseIn, Known
    <3>4. Nth(t, 2) < Place(m)
      BY <1>1, <1>3, <3>1, <3>2 DEF Done
    <3>5. /\ Nth(t, 2) = 4 * t[2] + 2 /\ t[2] \in Nat
          /\ Nth(s, 3) = 4 * s[2] + 3 /\ s[2] \in Nat
      BY Places
    <3>6. ~IsAck(m)
      <4> SUFFICES ASSUME IsAck(m) PROVE FALSE
        OBVIOUS
      <4>1. s = t
        BY <1>5, <2>1, <3>2, <3>3
      <4>2. Place(m) = Nth(t, 2)
        BY <3>1, <3>2, <4>1, ClientMessages
      <4> QED
        BY <3>4, <3>5, <4>2
    <3>7. IsTermination(m) => s = t
      <4> SUFFICES ASSUME IsTermination(m), s # t PROVE FALSE
        OBVIOUS
      <4>1. s[2] < t[2]
        BY <1>5, <1>8, <2>1, <3>2, <3>3 DEF Pursued
      <4>2. Place(m) = Nth(s, 3)
        BY <3>1, <3>2, ClientMessages
      <4> QED
        BY <3>4, <3>5, <4>1, <4>2
    <3> QED
      BY <1>6, <3>2, <3>6, <3>7 DEF PromiseIn
  <2>2. ASSUME OwnId(attempt(c)) = id PROVE PromiseTo(c)'
    <3>1. PICK s : s = attempt(c) /\ s[2] = starts[c] /\ starts[c] \in Nat
      BY <1>4, OwnIdOfClient
    <3>2. /\ (\E m \in Received(c) : HelloTo(c, m)) => Offered(s)
          /\ cpc[c] \in {"wait_ack", "active"} => Pursued(s)
      BY <1>5, <2>2, <3>1 DEF Ready, TrustedInv, PromisesInv, PromiseTo, Known
    <3>3. /\ Nth(t, 2) = 4 * t[2] + 2 /\ t[2] \in Nat
          /\ Nth(t, 2) <= Sent(c)
      BY <1>1, <1>3, Places DEF Done
    <3>4. ASSUME NEW m \in Received(c), HelloTo(c, m) PROVE FALSE
      <4>1. s = t
        BY <1>5, <2>2, <3>1, <3>2, <3>4
      <4>2. cpc[c] = "wait_hello"
        BY <3>4 DEF Ready, TrustedInv, AnswersInv, AnswerRight, HelloTo
      <4> QED
        BY <1>4, <3>1, <3>3, <4>1, <4>2, SentBetween
    <3>5. ASSUME cpc[c] \in {"wait_ack", "active"} PROVE s = t
      <4> SUFFICES ASSUME s # t PROVE FALSE
        OBVIOUS
      <4>1. Sent(c) = 4 * s[2] + 2
        BY <1>4, <3>1, <3>5, SentBetween
      <4>2. s \in Attempt
        <5>1. starts[c] # 0
          BY <1>4, <3>5 DEF Inv, ClientInv, ClientProgress
        <5> QED
          BY <1>4, <3>1, <5>1, OwnIdOfClient
      <4>3. s[2] < t[2]
        BY <1>5, <1>8, <2>2, <3>1, <3>2, <3>5, <4>2 DEF Pursued
      <4> QED
        BY <3>1, <3>3, <4>1, <4>3
    <3>6. attempt(c)' = s /\ cpc' = cpc /\ Received(c)' = Received(c)
      BY <1>1, <3>1, SameClients DEF Received
    <3>7. \A m : HelloTo(c, m)' <=> HelloTo(c, m)
      BY <1>1, SameClients DEF HelloTo
    <3> QED
      BY <1>6, <3>4, <3>5, <3>6, <3>7 DEF PromiseTo
  <2> QED
    BY <1>3, <1>10, <2>1, <2>2 DEF PromisesInv
<1>13. ASSUME NEW d \in Clients, OwnId(attempt(d)) = id PROVE SameAddress(d)'
  <2>1. PICK s : s = attempt(d) /\ OwnId(s) = id
    BY <1>13
  <2>2. \A ip \in Told(d) : Offered(s) => e.client_address = ip
    BY <1>2, <2>1 DEF Ready, TrustedInv, AddressesInv, SameAddress
  <2>3. ~Offered(s)'
    BY <1>6, <2>1 DEF Offered
  <2>4. Established(s)' => s = t /\ active_clients_'[OwnId(s)] = e
    BY <1>5, <2>1 DEF Established
  <2> QED
    BY <1>1, <1>9, <2>1, <2>2, <2>3, <2>4, SameAddressKept
<1>14. AddressesInv'
  BY <1>1, <1>9, <1>10, <1>13, OtherAddressKept DEF AddressesInv
<1> QED
  BY <1>1, <1>11, <1>12, <1>14, KeptByServer, AnswersKept DEF TrustedInv

LEMMA TerminationRight ==
  ASSUME Ready, HandleSessionTermination, UNCHANGED clientVars
  PROVE  TrustedInv'
<1>1. PICK t \in Attempt, id \in Id :
        /\ id = OwnId(t)
        /\ IsTermination(msg) /\ Sender(msg) = t /\ Place(msg) = Nth(t, 3)
        /\ Established(t) /\ establishing = None
        /\ active_clients_' = [active_clients_ EXCEPT ![id] = None]
        /\ ServerWorks /\ rx # <<>> /\ rx' = Tail(rx)
        /\ UNCHANGED <<establishing, handshake_states_, session_map_, routes,
                       data_subscriptions, inbox>>
  BY TerminationEffects, OwnIds
<1>2. PICK c \in Clients :
        /\ c = t[1] /\ c = id[1]
        /\ \A s \in Attempt : OwnId(s) = id => s[1] = c
        /\ \A d \in Clients : OwnId(attempt(d)) = id => d = c
  BY <1>1, OwnIds DEF OwnId, attempt, BaseId
<1>3. /\ active_clients_ \in [Id -> SessionConfig \cup {None}]
      /\ ChannelTypeOK /\ Inv
  BY DEF Ready, IInv, Inv, ServerInv, ServerTypeOK
<1>4. active_clients_'[id] = None /\ id # None
  BY <1>1, <1>3, NoneAssumption
<1>5. \A s : OwnId(s) = id =>
        /\ ~Established(s)'
        /\ Offered(s)' <=> Offered(s)
        /\ s # t => ~Established(s)
  BY <1>1, <1>4 DEF Established, Offered, AckExpected, has_session
<1>6. ASSUME NEW s, OwnId(s) = id, s # t PROVE Kept(s)
  <2>1. Known(id)
    BY <1>1 DEF Known, Established
  <2>2. ASSUME Offered(s), NEW m \in Pending, AckOf(s, m) PROVE Pursued(s)'
    <3>1. m # msg
      BY <1>1, <1>6, <2>2 DEF AckOf
    <3>2. m \in Pending'
      BY <1>1, <1>3, <3>1, PendingRead
    <3> QED
      BY <1>5, <1>6, <2>2, <3>2 DEF Pursued, AckOf
  <2>3. Pursued(s) => Pursued(s)'
    BY <1>1, <1>4, <1>5, <1>6, <2>2 DEF Pursued
  <2> QED
    BY <1>5, <1>6, <2>1, <2>3 DEF Kept
<1>7. \A d \in Clients : NoNewHello(d)
  BY <1>1 DEF NoNewHello, Received
\* Who sends a termination has ended, and reads no more answers.
<1>8. attempt(c) = t => cpc[c] = "off" /\ Received(c) = {} /\ Told(c) = {}
  <2> SUFFICES ASSUME attempt(c) = t
               PROVE  cpc[c] = "off" /\ Received(c) = {} /\ Told(c) = {}
    OBVIOUS
  <2>1. Nth(t, 3) <= Sent(c)
    BY <1>1, <1>2, Handled DEF Ready, TrustedInv, NotAhead
  <2>2. Nth(t, 3) = 4 * starts[c] + 3 /\ starts[c] \in Nat
    <3>1. t[2] = starts[c]
      BY DEF attempt
    <3> QED
      BY <3>1, Places
  <2>3. cpc[c] \in {"off", "connected", "active"} \cup Waiting
    BY <1>3 DEF Inv, ClientInv, ClientTypeOK
  <2>4. cpc[c] = "off"
    BY <1>3, <2>1, <2>2, <2>3, SentBetween DEF Waiting
  <2>5. inbox[c] = <<>>
    BY <2>4 DEF Ready, ProcessInv
  <2>6. Received(c) = {}
    BY <2>5 DEF Received
  <2> QED
    BY <2>4, <2>6 DEF Told
<1>9. /\ \A i \in Id : i # id => KeyRight(i)' /\ OfferRight(i)' /\ SessionRight(i)'
      /\ \A m \in Pending' : OwnId(Sender(m)) # id => PromiseIn(m)'
      /\ \A d \in Clients :
           OwnId(attempt(d)) # id => PromiseTo(d)' /\ SameAddress(d)'
  <2>1. \A i \in Id : i # id =>
          /\ handshake_states_'[i] = handshake_states_[i]
          /\ active_clients_'[i] = active_clients_[i]
          /\ session_map_'[i] = session_map_[i]
    BY <1>1, <1>3
  <2> QED
    BY <1>1, <1>7, <2>1, Elsewhere
<1>10. ServiceInv'
  <2>1. KeyRight(id)' /\ OfferRight(id)'
    BY <1>1, <1>4, KeyKept, OfferKept
  <2>2. SessionRight(id)'
    BY <1>4 DEF SessionRight
  <2>3. EstablishingInv'
    BY <1>1 DEF EstablishingInv
  <2> QED
    BY <1>9, <2>1, <2>2, <2>3 DEF ServiceInv
<1>11. PromisesInv'
  <2>1. ASSUME NEW m \in Pending', OwnId(Sender(m)) = id PROVE PromiseIn(m)'
    <3>1. m \in Pending /\ m \in ClientMessage
      BY <1>1, <1>3, PendingTyped, PendingRead
    <3>2. PICK s \in Attempt : s = Sender(m) /\ s[1] = c
      BY <1>2, <2>1, <3>1, ClientMessages
    <3>3. CASE s # t
      BY <1>1, <1>6, <2>1, <3>2, <3>3, PromiseInKept
    <3>4. CASE s = t
      <4>1. Nth(t, 3) < Place(m)
        BY <1>1, <1>2, <1>3, <3>2, ReadInOrder DEF Ready, TrustedInv
      <4>2. /\ Nth(t, 2) = 4 * t[2] + 2 /\ t[2] \in Nat
            /\ Nth(t, 3) = 4 * t[2] + 3
        BY Places
      <4>3. /\ IsAck(m) => Place(m) = Nth(t, 2)
            /\ IsTermination(m) => Place(m) = Nth(t, 3)
        BY <3>1, <3>2, <3>4, ClientMessages
      <4>4. ~IsAck(m) /\ ~IsTermination(m)
        BY <4>1, <4>2, <4>3
      <4> QED
        BY <4>4 DEF PromiseIn
    <3> QED
      BY <3>3, <3>4
  <2>2. ASSUME OwnId(attempt(c)) = id PROVE PromiseTo(c)'
    <3>1. PICK s : s = attempt(c)
      OBVIOUS
    <3>2. CASE s # t
      BY <1>1, <1>6, <1>7, <2>2, <3>1, <3>2, PromiseToKept
    <3>3. CASE s = t
      <4>1. cpc'[c] = "off" /\ Received(c)' = {}
        BY <1>1, <1>8, <3>1, <3>3, SameClients DEF Received
      <4> QED
        BY <4>1 DEF PromiseTo
    <3> QED
      BY <3>2, <3>3
  <2> QED
    BY <1>2, <1>9, <2>1, <2>2 DEF PromisesInv
<1>12. ASSUME NEW d \in Clients, OwnId(attempt(d)) = id PROVE SameAddress(d)'
  <2>1. PICK s : s = attempt(d) /\ OwnId(s) = id
    BY <1>12
  <2>2. \A ip \in Told(d) :
          Offered(s) => handshake_states_[OwnId(s)].client_address = ip
    BY <2>1 DEF Ready, TrustedInv, AddressesInv, SameAddress
  <2> QED
    BY <1>1, <1>5, <1>7, <2>1, <2>2, SameAddressKept
<1>13. AddressesInv'
  BY <1>1, <1>7, <1>9, <1>12, OtherAddressKept DEF AddressesInv
<1> QED
  BY <1>1, <1>10, <1>11, <1>13, KeptByServer, AnswersKept DEF TrustedInv

\* The server process ends, or begins, and knows nobody.  What its clients
\* were told binds it only if it is the first one, which told them nothing.
LEMMA ForgottenRight ==
  ASSUME Ready, UNCHANGED <<clientVars, inbox>>,
         rx' = <<>>, establishing' = None, handshake_states_' = NoEntries,
         active_clients_' = NoEntries, session_map_' = NoEntries,
         NeverRestarted' => server_starts = 0,
         server_starts' = 1 => server_starts \in {0, 1}
  PROVE  TrustedInv'
<1> USE DEF NoEntries
<1>1. /\ \A c \in Clients : /\ attempt(c)' = attempt(c)
                            /\ Sent(c)' = Sent(c)
                            /\ Received(c)' = Received(c)
                            /\ OwnId(attempt(c)) \in Id
      /\ UNCHANGED <<cpc, client_base_id_, session_key, session_config_,
                     crosstalk, inbox>>
      /\ \A c \in Clients : \A m : HelloTo(c, m)' <=> HelloTo(c, m)
  BY OwnIdOfClient
  DEF clientVars, attempt, Sent, Received, HelloTo, Ready, IInv
<1>2. Pending' = {}
  BY DEF Pending
<1>3. ASSUME NEW c \in Clients, NEW n, Done(c, n) PROVE Done(c, n)'
  BY <1>1, <1>2, <1>3 DEF Done
<1>4. server_starts = 0 =>
        \A c \in Clients : /\ Received(c) = {} /\ Told(c) = {}
                           /\ cpc[c] \notin {"wait_ack", "active"}
                           /\ cpc[c] = "wait_hello" => c \notin EncryptedClients
  <2> SUFFICES ASSUME server_starts = 0, NEW c \in Clients
               PROVE  /\ Received(c) = {} /\ Told(c) = {}
                      /\ cpc[c] \notin {"wait_ack", "active"}
                      /\ cpc[c] = "wait_hello" => c \notin EncryptedClients
    OBVIOUS
  <2>1. /\ inbox[c] = <<>> /\ cpc[c] \notin {"wait_ack", "active"}
        /\ cpc[c] = "wait_hello" => c \notin EncryptedClients
    BY DEF Ready, ProcessInv
  <2>2. Received(c) = {}
    BY <2>1 DEF Received
  <2> QED
    BY <2>1, <2>2 DEF Told
<1>5. \A id \in Id : ~AckExpected(id)' /\ ~has_session(id)'
  BY DEF AckExpected, has_session
<1>6. Ordered' /\ NotAhead' /\ MessagesInv'
  BY <1>2 DEF Ordered, NotAhead, MessagesInv
<1>7. ServiceInv'
  BY <1>5
  DEF ServiceInv, KeyRight, OfferRight, SessionRight, EstablishingInv
<1>8. AnswersInv'
  <2>1. ASSUME NEW c \in Clients, NEW m \in Received(c) PROVE AnswerRight(c, m)'
    <3>1. AnswerRight(c, m) /\ m \in ServerMessage
      BY <2>1, ReceivedTyped DEF Ready, IInv, Inv, TrustedInv, AnswersInv
    <3>2. ~NeverRestarted'
      BY <1>4, <2>1
    <3>3. /\ IsServerCrypto(m) =>
               Text(m).server_ephemeral_public_key[1] \in Clients
          /\ IsServerHello(m) \/ IsServerAck(m) =>
               Text(m).handshake_identifier[1] \in Clients
      BY <3>1, ServerMessages
      DEF ServerHelloCryptos, ServerHellos, ServerACKs, Attempt
    <3> QED
      BY <1>1, <1>3, <3>1, <3>2, <3>3 DEF AnswerRight
  <2>2. \A c \in Clients : OneHello(c) => OneHello(c)'
    BY <1>1 DEF OneHello
  <2> QED
    BY <1>1, <2>1, <2>2 DEF AnswersInv, Ready, TrustedInv
<1>9. ClientsInv'
  <2> SUFFICES ASSUME NEW c \in Clients PROVE ClientRight(c)'
    BY DEF ClientsInv
  <2>1. ClientRight(c)
    BY DEF Ready, TrustedInv, ClientsInv
  <2> QED
    BY <1>1, <1>3, <1>4, <2>1 DEF ClientRight
<1>10. PromisesInv'
  <2>1. ASSUME NEW c \in Clients PROVE PromiseTo(c)'
    <3>1. Known(OwnId(attempt(c)))' => server_starts = 0
      BY <1>1, <1>5 DEF Known
    <3> QED
      BY <1>1, <1>4, <3>1 DEF PromiseTo
  <2> QED
    BY <1>2, <2>1 DEF PromisesInv
<1>11. AddressesInv'
  <2>1. \A c \in Clients : Told(c)' = Told(c)
    BY <1>1 DEF Told
  <2>2. OtherAddress'
    BY <1>4, <2>1 DEF OtherAddress, Ready, TrustedInv, AddressesInv
  <2>3. \A c \in Clients : SameAddress(c)'
    BY <1>1, <1>5 DEF SameAddress, Offered, Established
  <2> QED
    BY <2>2, <2>3 DEF AddressesInv
<1> QED
  BY <1>6, <1>7, <1>8, <1>9, <1>10, <1>11 DEF TrustedInv

LEMMA ServerRight ==
  ASSUME Ready, ServerStep
  PROVE  TrustedInv'
<1>1. UNCHANGED clientVars
  BY DEF ServerStep
<1>2. ASSUME StartServer PROVE TrustedInv'
  <2>1. /\ serverPc # "running" /\ server_starts' = server_starts + 1
        /\ UNCHANGED <<rx, inbox, establishing, handshake_states_,
                       active_clients_, session_map_>>
    BY <1>2 DEF StartServer, ServerSubscribes, memoryVars
  <2>2. server_starts \in Nat
    BY ServerAssumption DEF Ready, IInv, Inv, ServerInv, ServerTypeOK
  <2>3. /\ rx = <<>> /\ establishing = None /\ handshake_states_ = NoEntries
        /\ active_clients_ = NoEntries /\ session_map_ = NoEntries
    BY <2>1 DEF Ready, ProcessInv
  <2>4. NeverRestarted' => server_starts = 0
    BY <2>1, <2>2 DEF NeverRestarted
  <2>5. server_starts' = 1 => server_starts = 0
    BY <2>1, <2>2
  <2> QED
    BY <1>1, <2>1, <2>3, <2>4, <2>5, ForgottenRight
<1>3. ASSUME NEW pc \in {"down", "failed"}, ServerProcessEnds(pc)
      PROVE  TrustedInv'
  <2>1. ~NeverRestarted'
    BY <1>3 DEF ServerProcessEnds, NeverRestarted
  <2> QED
    BY <1>1, <1>3, <2>1, ForgottenRight DEF ServerProcessEnds, ServerLeaves
<1>4. ASSUME ServerLoop PROVE TrustedInv'
  BY <1>1, <1>3, <1>4, HelloCryptoRight, HelloRight, AckRight, FinishRight,
     TerminationRight, DropRight
  DEF ServerLoop, ThrowUndecryptable, ThrowCannotSeal, ThrowAckMismatch
<1> QED
  BY <1>2, <1>3, <1>4 DEF ServerStep, StopServer, KillServer

-----------------------------------------------------------------------------
(***************************************************************************)
(* The steps of a client.  It adds messages to the queue of the server, in *)
(* their places, and changes what it knows itself.                         *)
(***************************************************************************)
Adds(c, M) ==
  /\ Pending \subseteq Pending' /\ Pending' \subseteq Pending \cup M
  /\ \A m \in M : /\ m \in ClientMessage
                  /\ Sender(m)[1] = c
                  /\ Sent(c) < Place(m) /\ Place(m) <= Sent(c)'

LEMMA ClientFrame ==
  ASSUME Inv, NEW c \in Clients, ClientStep(c)
  PROVE  /\ UNCHANGED serverVars
         /\ crosstalk => crosstalk'
         /\ \A d \in Clients : d # c =>
              /\ client_base_id_'[d] = client_base_id_[d]
              /\ session_key'[d] = session_key[d]
              /\ session_config_'[d] = session_config_[d]
              /\ inbox'[d] = inbox[d]
<1> DEFINE Others ==
      \A d \in Clients : d # c =>
        /\ client_base_id_'[d] = client_base_id_[d]
        /\ session_key'[d] = session_key[d]
        /\ session_config_'[d] = session_config_[d]
        /\ inbox'[d] = inbox[d]
<1>t. /\ client_base_id_ \in [Clients -> Id]
      /\ session_key \in [Clients -> Key \cup {None}]
      /\ session_config_ \in [Clients -> ClientConfig \cup {None}]
      /\ ChannelTypeOK
  BY DEF Inv, ClientInv, ClientTypeOK
<1>1. ASSUME ProcessEnds(c) PROVE Others /\ UNCHANGED crosstalk
  BY <1>t, <1>1, ReceivedLeft DEF ProcessEnds
<1>2. ASSUME BecomesActive(c) PROVE Others /\ UNCHANGED crosstalk
  BY <1>t, <1>2, ReceivedLeft DEF BecomesActive
<1>3. ASSUME ConnectCommandChannel(c) \/ SendClientHelloCrypto(c)
               \/ SendClientHello(c)
      PROVE  Others /\ UNCHANGED crosstalk
  BY <1>3 DEF ConnectCommandChannel, ClientSubscribes, SendClientHelloCrypto,
     SendClientHello
<1>4. ASSUME ReceiveServerHelloCrypto(c) PROVE Others /\ (crosstalk => crosstalk')
  BY <1>t, <1>4, ReceivedRead DEF ReceiveServerHelloCrypto
<1>5. ASSUME ReceiveServerHello(c) PROVE Others /\ (crosstalk => crosstalk')
  BY <1>t, <1>5, ReceivedRead DEF ReceiveServerHello
<1>6. Others /\ (crosstalk => crosstalk')
  BY <1>1, <1>2, <1>3, <1>4, <1>5
  DEF ClientStep, SetupStep, ReceiveServerAck, ThrowUnusable, Timeout,
      HelloTimeout, AckTimeout, StopTunnel, Crash
<1> QED
  BY <1>6 DEF ClientStep

LEMMA ClientForward ==
  ASSUME Inv, NEW c \in Clients, ClientStep(c), NEW M, Adds(c, M)
  PROVE  Forward
<1>1. \A d \in Clients : Sent(d) <= Sent(d)'
  <2>1. \A d \in Clients : Sent(d) \in Int
    BY SentTyped
  <2> QED
    BY <2>1, SentByClient
<1>2. \A m \in Pending' : m \in Pending \/ Sent(Sender(m)[1]) < Place(m)
  BY DEF Adds
<1> QED
  BY <1>1, <1>2 DEF Forward

\* What was handled remains so, and an attempt of which something was
\* handled or is under way is not begun anew.
LEMMA DoneByClient ==
  ASSUME Inv, Inv', NEW c \in Clients, ClientStep(c), NEW M, Adds(c, M)
  PROVE  /\ \A t \in Attempt, k \in {0, 1, 2, 3} :
              Done(t[1], Nth(t, k)) => Done(t[1], Nth(t, k))'
         /\ \A t \in Attempt, k \in {0, 1, 2, 3} :
              Nth(t, k) <= Sent(t[1]) /\ Current(t)' =>
                Current(t) /\ tunnel_mode_'[t[1]] = tunnel_mode_[t[1]]
<1>1. \A t \in Attempt : t[1] \in Clients
  BY OwnIds
<1>2. Forward
  BY ClientForward
<1>3. ASSUME NEW t \in Attempt, NEW k \in {0, 1, 2, 3}, Done(t[1], Nth(t, k))
      PROVE  Done(t[1], Nth(t, k))'
  BY <1>1, <1>2, <1>3, DoneKept, Places
<1>4. ASSUME NEW t \in Attempt, NEW k \in {0, 1, 2, 3}, Nth(t, k) <= Sent(t[1]),
             Current(t)'
      PROVE  Current(t) /\ tunnel_mode_'[t[1]] = tunnel_mode_[t[1]]
  <2>1. Nth(t, 0) = 4 * t[2] + 0 /\ Nth(t, k) = 4 * t[2] + k /\ t[2] \in Nat
    BY Places
  <2>2. Sent(t[1]) \in Int
    BY <1>1, SentTyped
  <2>3. Nth(t, 0) <= Sent(t[1])
    BY <1>4, <2>1, <2>2
  <2> QED
    BY <1>4, <2>3, ModeKept
<1> QED
  BY <1>3, <1>4

-----------------------------------------------------------------------------
\* What the step of a client leaves as it is.
LEMMA ServerUntouched ==
  ASSUME Inv, NEW c \in Clients, ClientStep(c), NEW M, Adds(c, M)
  PROVE  /\ NeverRestarted' <=> NeverRestarted
         /\ UNCHANGED <<session_map_, handshake_states_, active_clients_,
                        establishing, server_starts>>
         /\ \A id : Known(id)' <=> Known(id)
         /\ \A s : /\ Offered(s)' <=> Offered(s)
                   /\ Established(s)' <=> Established(s)
                   /\ Pursued(s) => Pursued(s)'
<1>1. UNCHANGED <<session_map_, handshake_states_, active_clients_,
                  establishing, server_starts, serverPc>>
  BY ClientFrame DEF serverVars, memoryVars
<1>2. NeverRestarted' <=> NeverRestarted
  BY <1>1 DEF NeverRestarted
<1>3. \A id : Known(id)' <=> Known(id)
  BY <1>1, <1>2 DEF Known, AckExpected, has_session
<1>4. \A s : Offered(s)' <=> Offered(s)
  BY <1>1 DEF Offered, AckExpected
<1>5. \A s : Established(s)' <=> Established(s)
  BY <1>1 DEF Established, has_session
<1>6. \A s : Pursued(s) => Pursued(s)'
  BY <1>1, <1>4, <1>5 DEF Pursued, AckOf, Adds
<1> QED
  BY <1>1, <1>2, <1>3, <1>4, <1>5, <1>6

LEMMA ServiceKept ==
  ASSUME Ready, Inv', NEW c \in Clients, ClientStep(c), NEW M, Adds(c, M)
  PROVE  ServiceInv'
<1>1. UNCHANGED <<session_map_, handshake_states_, active_clients_,
                  establishing, routes, nat, data_subscriptions>>
  BY ClientFrame DEF Ready, IInv, serverVars, memoryVars
<1>2. ServiceInv /\ Inv
  BY DEF Ready, IInv, TrustedInv
<1>3. \A t \in Attempt, k \in {0, 1, 2, 3} :
        Done(t[1], Nth(t, k)) => Done(t[1], Nth(t, k))'
  BY <1>2, DoneByClient
<1>4. ASSUME NEW id \in Id, NEW e, EntryOf(id, e), NEW k \in {0, 1, 2, 3},
             Done(id[1], Nth(e.session_id, k))
      PROVE  EntryOf(id, e)' /\ Done(id[1], Nth(e.session_id, k))'
  <2>1. PICK t \in Attempt : t = e.session_id /\ t = e.handshake_identifier
    BY <1>4 DEF EntryOf
  <2>2. id[1] = t[1] /\ OwnId(t) = id
    BY <1>4, <2>1, OwnIds DEF EntryOf
  <2>3. Done(t[1], Nth(t, k)) /\ Nth(t, k) <= Sent(t[1])
    BY <1>4, <2>1, <2>2 DEF Done
  <2>4. Current(t)' => Current(t) /\ tunnel_mode_'[t[1]] = tunnel_mode_[t[1]]
    BY <1>2, <2>3, DoneByClient
  <2>5. Done(id[1], Nth(e.session_id, k))'
    BY <1>3, <2>1, <2>2, <2>3
  <2> QED
    BY <1>4, <2>1, <2>4, <2>5 DEF EntryOf
<1>5. ASSUME NEW id \in Id PROVE KeyRight(id)'
  BY <1>1, <1>2, <1>3, <1>5 DEF ServiceInv, KeyRight
<1>6. ASSUME NEW id \in Id PROVE OfferRight(id)'
  <2>1. OfferRight(id)
    BY <1>2 DEF ServiceInv
  <2>2. AckExpected(id)' <=> AckExpected(id)
    BY <1>1 DEF AckExpected
  <2>3. PICK k \in {1, 2} : k = IF establishing = id THEN 2 ELSE 1
    OBVIOUS
  <2>4. ASSUME AckExpected(id)
        PROVE  /\ EntryOf(id, handshake_states_[id])'
               /\ Done(id[1], Nth(handshake_states_[id].session_id, k))'
    BY <1>4, <2>1, <2>3, <2>4, <1>1 DEF OfferRight
  <2> QED
    BY <1>1, <2>1, <2>2, <2>3, <2>4 DEF OfferRight
<1>7. ASSUME NEW id \in Id PROVE SessionRight(id)'
  <2>1. SessionRight(id)
    BY <1>2 DEF ServiceInv
  <2>2. Wired(id)' <=> Wired(id)
    BY <1>1 DEF Wired
  <2> QED
    BY <1>1, <1>4, <2>1, <2>2 DEF SessionRight
<1>8. EstablishingInv'
  BY <1>1, <1>2 DEF ServiceInv, EstablishingInv, AckExpected
<1> QED
  BY <1>5, <1>6, <1>7, <1>8 DEF ServiceInv

LEMMA MessagesKept ==
  ASSUME Ready, Inv', NEW c \in Clients, ClientStep(c), NEW M, Adds(c, M),
         NEW m \in Pending
  PROVE  MessageRight(m)' /\ PromiseIn(m)'
<1>1. /\ Inv /\ MessageRight(m) /\ PromiseIn(m)
      /\ m \in ClientMessage /\ Place(m) <= Sent(Sender(m)[1])
  BY PendingTyped
  DEF Ready, IInv, Inv, TrustedInv, MessagesInv, PromisesInv, NotAhead
<1>2. PICK t \in Attempt : t = Sender(m)
  BY <1>1, ClientMessages
<1>3. PICK k \in {0, 1, 2, 3} : Place(m) = Nth(t, k)
  BY <1>2 DEF Place
<1>4. /\ Done(t[1], Nth(t, 1)) => Done(t[1], Nth(t, 1))'
      /\ Current(t)' => Current(t) /\ tunnel_mode_'[t[1]] = tunnel_mode_[t[1]]
  BY <1>1, <1>2, <1>3, DoneByClient
<1>5. SealedRight(m) => SealedRight(m)'
  BY <1>1, ServerUntouched, ClientFrame DEF SealedRight
<1>6. AddressedRight(m)'
  BY <1>1, <1>5 DEF MessageRight, AddressedRight
<1>7. MessageRight(m)'
  BY <1>1, <1>2, <1>4, <1>6 DEF MessageRight
<1>8. PromiseIn(m)'
  BY <1>1, ServerUntouched DEF PromiseIn
<1> QED
  BY <1>7, <1>8

LEMMA AnswersHeld ==
  ASSUME Ready, Inv', NEW c \in Clients, ClientStep(c), NEW M, Adds(c, M),
         NEW d \in Clients, NEW m \in Received(d),
         HelloTo(d, m)' => cpc'[d] = "wait_hello"
  PROVE  AnswerRight(d, m)'
<1>1. Inv /\ AnswerRight(d, m) /\ m \in ServerMessage
  BY ReceivedTyped DEF Ready, IInv, Inv, TrustedInv, AnswersInv
<1>2. \A t \in Attempt, k \in {0, 1, 2, 3} :
        Done(t[1], Nth(t, k)) => Done(t[1], Nth(t, k))'
  BY <1>1, DoneByClient
<1>3. /\ IsServerCrypto(m) => Text(m).server_ephemeral_public_key \in Attempt
      /\ IsServerHello(m) \/ IsServerAck(m) =>
           Text(m).handshake_identifier \in Attempt
  BY <1>1, ServerMessages DEF ServerHelloCryptos, ServerHellos, ServerACKs
<1>4. /\ NeverRestarted' <=> NeverRestarted
      /\ UNCHANGED session_map_
  BY <1>1, ServerUntouched
<1>5. IsServerCrypto(m) =>
        LET t == Text(m).server_ephemeral_public_key IN
        /\ Text(m).unique_identifier = t
        /\ Done(t[1], Nth(t, 0))'
        /\ NeverRestarted' => session_map_'[t] # None
  BY <1>1, <1>2, <1>3, <1>4 DEF AnswerRight
<1>6. IsServerHello(m) =>
        LET t == Text(m).handshake_identifier IN
        /\ Text(m).session_id = t
        /\ Text(m).assigned_client_id_ = OwnId(t)
        /\ Done(t[1], Nth(t, 1))'
        /\ t = attempt(d)' => cpc'[d] = "wait_hello"
  BY <1>1, <1>2, <1>3 DEF AnswerRight, HelloTo
<1>7. IsServerAck(m) =>
        LET t == Text(m).handshake_identifier IN Done(t[1], Nth(t, 2))'
  BY <1>1, <1>2, <1>3 DEF AnswerRight
<1> QED
  BY <1>1, <1>5, <1>6, <1>7 DEF AnswerRight

\* The other clients.
LEMMA OthersKept ==
  ASSUME Ready, Inv', NEW c \in Clients, ClientStep(c), NEW M, Adds(c, M),
         NEW d \in Clients, d # c
  PROVE  /\ OneHello(d)' /\ \A m \in Received(d)' : AnswerRight(d, m)'
         /\ ClientRight(d)' /\ PromiseTo(d)' /\ SameAddress(d)'
         /\ Told(d)' = Told(d)
<1>1. /\ Inv /\ OneHello(d) /\ ClientRight(d) /\ PromiseTo(d) /\ SameAddress(d)
      /\ \A m \in Received(d) : AnswerRight(d, m)
  BY DEF Ready, IInv, TrustedInv, AnswersInv, ClientsInv, PromisesInv,
     AddressesInv
<1>2. PICK t : t = attempt(d) /\ t = attempt(d)'
  BY <1>1, SentByClient
<1>3. /\ cpc'[d] = cpc[d]
      /\ client_base_id_'[d] = client_base_id_[d]
      /\ session_key'[d] = session_key[d]
      /\ session_config_'[d] = session_config_[d]
      /\ inbox'[d] = inbox[d]
      /\ crosstalk => crosstalk'
  BY <1>1, SentByClient, ClientFrame
<1>4. Received(d)' = Received(d) /\ \A m : HelloTo(d, m)' <=> HelloTo(d, m)
  BY <1>2, <1>3 DEF Received, HelloTo
<1>5. OneHello(d)'
  BY <1>1, <1>3, <1>4 DEF OneHello
<1>6. \A m \in Received(d)' : AnswerRight(d, m)'
  <2>1. \A m \in Received(d) : HelloTo(d, m) => cpc[d] = "wait_hello"
    BY <1>1, <1>2 DEF AnswerRight, HelloTo
  <2> QED
    BY <1>3, <1>4, <2>1, AnswersHeld
<1>7. ClientRight(d)'
  <2>1. ASSUME cpc[d] \in {"wait_ack", "active"}, Done(d, Nth(t, 1))
        PROVE  Done(d, Nth(t, 1))'
    <3>1. t \in Attempt /\ t[1] = d
      BY <1>1, <1>2, <2>1, AttemptTyped DEF attempt
    <3> QED
      BY <1>1, <2>1, <3>1, DoneByClient
  <2>2. /\ NeverRestarted' <=> NeverRestarted
        /\ UNCHANGED session_map_
    BY <1>1, ServerUntouched
  <2> QED
    BY <1>1, <1>2, <1>3, <2>1, <2>2 DEF ClientRight
<1>8. PromiseTo(d)'
  BY <1>1, <1>2, <1>3, <1>4, ServerUntouched DEF PromiseTo
<1>9. Told(d)' = Told(d)
  BY <1>3, <1>4 DEF Told
<1>10. SameAddress(d)'
  BY <1>1, <1>2, <1>9, ServerUntouched DEF SameAddress
<1> QED
  BY <1>5, <1>6, <1>7, <1>8, <1>9, <1>10

\* What is left to show of the step of client c: its message is right, it has
\* no ServerHello of its own left to read, and it knows what it should.
LEMMA ClientMovesRight ==
  ASSUME Ready, Inv', NEW c \in Clients, ClientStep(c), NEW M, Adds(c, M),
         Ordered',
         \A m \in M : MessageRight(m)' /\ PromiseIn(m)',
         \A m \in Received(c)' : m \in Received(c) /\ ~HelloTo(c, m)',
         ClientRight(c)', NEW s, s = attempt(c)',
         cpc'[c] \in {"wait_ack", "active"} =>
           /\ s = attempt(c)
           /\ session_config_'[c].client_address \in Told(c)
           /\ Known(OwnId(s)) => Pursued(s)'
  PROVE  TrustedInv' /\ Forward
<1>1. Inv /\ NotAhead /\ PromisesInv /\ AddressesInv
  BY DEF Ready, IInv, TrustedInv
<1>2. NotAhead'
  <2> SUFFICES ASSUME NEW m \in Pending' PROVE Place(m) <= Sent(Sender(m)[1])'
    BY DEF NotAhead
  <2>1. CASE m \in M
    BY <2>1 DEF Adds
  <2>2. CASE m \in Pending
    <3>1. Place(m) <= Sent(Sender(m)[1])
      BY <1>1, <2>2 DEF NotAhead
    <3>2. Place(m) \in Int /\ Sender(m)[1] \in Clients
      BY <1>1, <2>2, PendingTyped, ClientMessages DEF Inv, Attempt
    <3> QED
      BY <1>1, <3>1, <3>2, SentTyped, ClientForward DEF Forward
  <2> QED
    BY <2>1, <2>2 DEF Adds
<1>3. ServiceInv'
  BY ServiceKept
<1>4. MessagesInv' /\ \A m \in Pending' : PromiseIn(m)'
  BY MessagesKept DEF Adds, MessagesInv
<1>5. AnswersInv'
  <2>1. OneHello(c)'
    BY DEF OneHello, Received
  <2>2. \A m \in Received(c)' : AnswerRight(c, m)'
    BY AnswersHeld
  <2> QED
    BY <2>1, <2>2, OthersKept DEF AnswersInv
<1>6. ClientsInv'
  BY OthersKept DEF ClientsInv
<1>7. PromiseTo(c)'
  <2>1. Known(OwnId(s))' <=> Known(OwnId(s))
    BY <1>1, ServerUntouched
  <2> QED
    BY <2>1 DEF PromiseTo
<1>8. PromisesInv'
  BY <1>4, <1>7, OthersKept DEF PromisesInv
<1>9. Told(c)' \subseteq Told(c)
  BY DEF Told
<1>10. SameAddress(c)'
  <2>1. CASE cpc'[c] \in {"wait_ack", "active"}
    <3>1. s = attempt(c) /\ s = attempt(c)'
      BY <2>1
    <3>2. \A ip \in Told(c) :
            /\ Offered(s) => handshake_states_[OwnId(s)].client_address = ip
            /\ Established(s) => active_clients_[OwnId(s)].client_address = ip
      BY <1>1, <3>1 DEF AddressesInv, SameAddress
    <3> QED
      BY <1>1, <1>9, <3>1, <3>2, ServerUntouched DEF SameAddress
  <2>2. CASE cpc'[c] \notin {"wait_ack", "active"}
    <3>1. Told(c)' = {}
      BY <2>2 DEF Told
    <3> QED
      BY <3>1 DEF SameAddress
  <2> QED
    BY <2>1, <2>2
<1>11. OtherAddress'
  <2>1. \A d \in Clients : Told(d)' \subseteq Told(d)
    BY <1>9, OthersKept
  <2>2. server_starts' = server_starts
    BY <1>1, ServerUntouched
  <2> QED
    BY <1>1, <2>1, <2>2 DEF AddressesInv, OtherAddress
<1>12. AddressesInv'
  BY <1>10, <1>11, OthersKept DEF AddressesInv
<1> QED
  BY <1>1, <1>2, <1>3, <1>4, <1>5, <1>6, <1>8, <1>12, ClientForward
  DEF TrustedInv

-----------------------------------------------------------------------------
\* The queue after a message was sent, and after none was.
LEMMA SentRight ==
  ASSUME Ready, NEW c \in Clients, NEW m \in ClientMessage, ToServer(m),
         Sender(m)[1] = c, Sent(c) < Place(m), Place(m) <= Sent(c)'
  PROVE  Adds(c, {m}) /\ Ordered'
<1>1. Inv /\ ChannelTypeOK /\ Ordered /\ NotAhead
  BY DEF Ready, IInv, Inv, TrustedInv
<1> QED
  BY <1>1, PendingSent, SentInOrder DEF Adds

LEMMA SentNothing ==
  ASSUME Ready, NEW c, UNCHANGED rx
  PROVE  Adds(c, {}) /\ Ordered'
BY DEF Adds, Pending, Ready, TrustedInv, Ordered

LEMMA NoneToRead ==
  ASSUME Ready, NEW c \in Clients, cpc[c] # "wait_hello"
  PROVE  \A m \in Received(c) : ~HelloTo(c, m)
BY DEF Ready, TrustedInv, AnswersInv, AnswerRight, HelloTo

\* The program as it starts, and as it ends.
LEMMA ConnectRight ==
  ASSUME Ready, Inv', NEW c \in Clients, ClientStep(c), ConnectCommandChannel(c)
  PROVE  TrustedInv' /\ Forward
<1>1. Inv /\ ClientRight(c) /\ inbox[c] = <<>>
  BY DEF Ready, IInv, ProcessInv, TrustedInv, ClientsInv, ConnectCommandChannel
<1>2. /\ cpc'[c] = "connected" /\ inbox'[c] = <<>>
      /\ client_base_id_'[c] = client_base_id_[c] /\ UNCHANGED rx
  BY <1>1 DEF ConnectCommandChannel, ClientSubscribes, Inv, ClientInv, ClientTypeOK
<1>3. Received(c)' = {}
  BY <1>2 DEF Received
<1>4. ClientRight(c)'
  BY <1>1, <1>2 DEF ClientRight
<1>5. Adds(c, {}) /\ Ordered'
  BY <1>2, SentNothing
<1>6. PICK s : s = attempt(c)'
  OBVIOUS
<1> QED
  BY <1>2, <1>3, <1>4, <1>5, <1>6, ClientMovesRight

LEMMA EndRight ==
  ASSUME Ready, Inv', NEW c \in Clients, ClientStep(c), ProcessEnds(c),
         NEW M, Adds(c, M), Ordered',
         \A m \in M : MessageRight(m)' /\ PromiseIn(m)'
  PROVE  TrustedInv' /\ Forward
<1>1. /\ cpc'[c] = "off" /\ client_base_id_'[c] = BaseId(c)
      /\ Received(c)' = {}
  BY ReceivedLeft
  DEF ProcessEnds, Ready, IInv, Inv, ClientInv, ClientTypeOK
<1>2. ClientRight(c)'
  BY <1>1 DEF ClientRight
<1>3. PICK s : s = attempt(c)'
  OBVIOUS
<1> QED
  BY <1>1, <1>2, <1>3, ClientMovesRight

LEMMA StopRight ==
  ASSUME Ready, Inv', NEW c \in Clients, ClientStep(c), StopTunnel(c)
  PROVE  TrustedInv' /\ Forward
<1>1. Inv /\ ClientRight(c) /\ PromiseTo(c) /\ cpc[c] = "active"
  BY DEF Ready, IInv, TrustedInv, ClientsInv, PromisesInv, StopTunnel
<1>2. PICK t \in Attempt : t = attempt(c) /\ t[1] = c /\ t[2] = starts[c]
  BY <1>1, AttemptTyped DEF attempt
<1>3. PICK m \in ClientMessage :
        /\ m = SessionTermination(OwnId(t), t) /\ ToServer(m)
        /\ m \in SessionTerminations
  <2>1. SessionTermination(OwnId(t), t) \in SessionTerminations
    BY OwnIds DEF SessionTermination, SessionTerminations
  <2>2. ToServer(SessionTermination(OwnId(t), t))
    BY <1>1, <1>2 DEF StopTunnel, ClientRight
  <2> QED
    BY <2>1, <2>2 DEF ClientMessage
<1>4. /\ Sender(m) = t /\ Place(m) = Nth(t, 3) /\ Text(m) = m
      /\ IsTermination(m) /\ ~IsCrypto(m) /\ ~IsHello(m) /\ ~IsAck(m)
      /\ m.message_identifier # "ENCRYPTED_WRAPPER" /\ m.client_id = OwnId(t)
  <2>1. m.message_identifier = "SESSION_TERMINATION" /\ m.session_id = t
        /\ m.client_id = OwnId(t)
    BY <1>3 DEF SessionTermination
  <2>2. Text(m) = m
    BY <2>1 DEF Text
  <2> QED
    BY <2>1, <2>2 DEF Sender, Place, IsTermination, IsCrypto, IsHello, IsAck
<1>5. cpc'[c] = "off"
  BY <1>1 DEF StopTunnel, ProcessEnds, Inv, ClientInv, ClientTypeOK
<1>6. Sent(c) = 4 * starts[c] + 2 /\ Sent(c)' = 4 * starts[c] + 3
  BY <1>1, <1>5, SentBetween DEF StopTunnel, ProcessEnds, Sent
<1>7. Nth(t, 3) = 4 * starts[c] + 3 /\ starts[c] \in Nat
  BY <1>2, Places
<1>8. Adds(c, {m}) /\ Ordered'
  <2>1. Sent(c) < Place(m) /\ Place(m) <= Sent(c)'
    BY <1>4, <1>6, <1>7
  <2> QED
    BY <1>2, <1>3, <1>4, <2>1, SentRight
<1>9. MessageRight(m)'
  <2>1. Done(t[1], Nth(t, 1))'
    BY <1>1, <1>2, <1>8, DoneByClient DEF ClientRight
  <2> QED
    BY <1>4, <2>1 DEF MessageRight, AddressedRight
<1>10. PromiseIn(m)'
  BY <1>1, <1>2, <1>4, <1>8, ServerUntouched DEF PromiseIn, PromiseTo
<1> QED
  BY <1>8, <1>9, <1>10, EndRight DEF StopTunnel

\* Without encryption the program goes on with the hello, else with a key.
LEMMA SendHelloCryptoRight ==
  ASSUME Ready, Inv', NEW c \in Clients, ClientStep(c), SendClientHelloCrypto(c)
  PROVE  TrustedInv' /\ Forward
<1>1. Inv /\ ClientRight(c) /\ cpc[c] = "connected" /\ c \in EncryptedClients
  BY DEF Ready, IInv, TrustedInv, ClientsInv, SendClientHelloCrypto
<1>2. PICK t \in Attempt : t = attempt(c) /\ t[1] = c /\ t[2] = starts[c]
  BY <1>1, AttemptTyped DEF attempt
<1>3. PICK m \in ClientMessage :
        m = ClientHelloCrypto(BaseId(c), t) /\ ToServer(m)
  <2>1. ClientHelloCrypto(BaseId(c), t) \in ClientHelloCryptos
    BY Identifiers DEF ClientHelloCrypto, ClientHelloCryptos
  <2> QED
    BY <1>2, <2>1 DEF SendClientHelloCrypto, ClientMessage
<1>4. /\ Sender(m) = t /\ Place(m) = Nth(t, 0) /\ Text(m) = m
      /\ IsCrypto(m) /\ ~IsTermination(m) /\ ~IsHello(m) /\ ~IsAck(m)
      /\ m.message_identifier # "ENCRYPTED_WRAPPER"
      /\ m.client_base_id = BaseId(c)
  <2>1. m.message_identifier = "CLIENT_HELLO_CRYPTO"
        /\ m.client_ephemeral_public_key = t /\ m.client_base_id = BaseId(c)
    BY <1>3 DEF ClientHelloCrypto
  <2>2. Text(m) = m
    BY <2>1 DEF Text
  <2> QED
    BY <2>1, <2>2 DEF Sender, Place, IsTermination, IsCrypto, IsHello, IsAck
<1>5. cpc'[c] = "wait_crypto"
  BY <1>1 DEF SendClientHelloCrypto, Inv, ClientInv, ClientTypeOK
<1>6. Sent(c) = 4 * starts[c] - 1 /\ Sent(c)' = 4 * starts[c]
  BY <1>1, <1>5, SentBetween DEF SendClientHelloCrypto, Sent
<1>7. Nth(t, 0) = 4 * starts[c] + 0 /\ starts[c] \in Nat
  BY <1>2, Places
<1>8. Adds(c, {m}) /\ Ordered'
  <2>1. Sent(c) < Place(m) /\ Place(m) <= Sent(c)'
    BY <1>4, <1>6, <1>7
  <2> QED
    BY <1>2, <1>3, <1>4, <2>1, SentRight
<1>9. MessageRight(m)' /\ PromiseIn(m)'
  BY <1>1, <1>2, <1>4 DEF MessageRight, AddressedRight, PromiseIn
<1>10. \A r \in Received(c)' : r \in Received(c) /\ ~HelloTo(c, r)'
  BY <1>1, NoneToRead
  DEF SendClientHelloCrypto, Received, HelloTo, attempt
<1>11. ClientRight(c)'
  BY <1>1, <1>5 DEF ClientRight
<1>12. PICK s : s = attempt(c)'
  OBVIOUS
<1> QED
  BY <1>5, <1>8, <1>9, <1>10, <1>11, <1>12, ClientMovesRight

LEMMA SendHelloRight ==
  ASSUME Ready, Inv', NEW c \in Clients, ClientStep(c), SendClientHello(c)
  PROVE  TrustedInv' /\ Forward
<1>1. Inv /\ ClientRight(c) /\ cpc[c] = "connected" /\ c \notin EncryptedClients
  BY DEF Ready, IInv, TrustedInv, ClientsInv, SendClientHello
<1>2. PICK t \in Attempt : t = attempt(c) /\ t[1] = c /\ t[2] = starts[c]
  BY <1>1, AttemptTyped DEF attempt
<1>3. PICK m \in ClientMessage :
        m = ClientHello(BaseId(c), t, tunnel_mode_[c]) /\ ToServer(m)
  <2>1. ClientHello(BaseId(c), t, tunnel_mode_[c]) \in ClientHellos
    BY <1>1, Identifiers
    DEF ClientHello, ClientHellos, Inv, ClientInv, ClientTypeOK
  <2> QED
    BY <1>2, <2>1 DEF SendClientHello, ClientMessage
<1>4. /\ Sender(m) = t /\ Place(m) = Nth(t, 1) /\ Text(m) = m
      /\ IsHello(m) /\ ~IsTermination(m) /\ ~IsCrypto(m) /\ ~IsAck(m)
      /\ m.message_identifier # "ENCRYPTED_WRAPPER"
      /\ m.client_base_id = BaseId(c) /\ m.tunnel_mode = tunnel_mode_[c]
  <2>1. m.message_identifier = "CLIENT_HELLO" /\ m.handshake_identifier = t
        /\ m.client_base_id = BaseId(c) /\ m.tunnel_mode = tunnel_mode_[c]
    BY <1>3 DEF ClientHello
  <2>2. Text(m) = m
    BY <2>1 DEF Text
  <2> QED
    BY <2>1, <2>2 DEF Sender, Place, IsTermination, IsCrypto, IsHello, IsAck
<1>5. cpc'[c] = "wait_hello" /\ UNCHANGED tunnel_mode_
  BY <1>1 DEF SendClientHello, Inv, ClientInv, ClientTypeOK
<1>6. Sent(c) = 4 * starts[c] - 1 /\ Sent(c)' = 4 * starts[c] + 1
  BY <1>1, <1>5, SentBetween DEF SendClientHello, Sent
<1>7. Nth(t, 1) = 4 * starts[c] + 1 /\ starts[c] \in Nat
  BY <1>2, Places
<1>8. Adds(c, {m}) /\ Ordered'
  <2>1. Sent(c) < Place(m) /\ Place(m) <= Sent(c)'
    BY <1>4, <1>6, <1>7
  <2> QED
    BY <1>2, <1>3, <1>4, <2>1, SentRight
<1>9. MessageRight(m)' /\ PromiseIn(m)'
  BY <1>1, <1>2, <1>4, <1>5 DEF MessageRight, AddressedRight, PromiseIn
<1>10. \A r \in Received(c)' : r \in Received(c) /\ ~HelloTo(c, r)'
  BY <1>1, NoneToRead DEF SendClientHello, Received, HelloTo, attempt
<1>11. ClientRight(c)'
  BY <1>1, <1>5 DEF ClientRight, SendClientHello
<1>12. PICK s : s = attempt(c)'
  OBVIOUS
<1> QED
  BY <1>5, <1>8, <1>9, <1>10, <1>11, <1>12, ClientMovesRight

LEMMA ReceiveHelloCryptoRight ==
  ASSUME Ready, Inv', NEW c \in Clients, ClientStep(c),
         ReceiveServerHelloCrypto(c)
  PROVE  TrustedInv' /\ Forward
<1>1. /\ Inv /\ ChannelTypeOK /\ ClientRight(c)
      /\ cpc[c] = "wait_crypto" /\ inbox[c] # <<>> /\ c \in EncryptedClients
  BY DEF Ready, IInv, Inv, TrustedInv, ClientsInv, ClientRight,
         ReceiveServerHelloCrypto
<1>2. PICK t \in Attempt : t = attempt(c) /\ t[1] = c /\ t[2] = starts[c]
  BY <1>1, AttemptTyped DEF attempt
<1>3. PICK r : /\ r = Head(inbox[c]) /\ r \in Received(c)
               /\ r \in ServerHelloCryptos
  BY <1>1, ReceivedTyped, ReadMessage, ParsedServerHelloCrypto
  DEF ReceiveServerHelloCrypto
<1>4. PICK u \in Attempt :
        /\ u = r.server_ephemeral_public_key /\ u = r.unique_identifier
        /\ NeverRestarted => session_map_[u] # None
  <2>1. r.message_identifier = "SERVER_HELLO_CRYPTO"
        /\ r.server_ephemeral_public_key \in Attempt
    BY <1>3 DEF ServerHelloCryptos
  <2>2. Text(r) = r /\ IsServerCrypto(r)
    BY <2>1 DEF Text, IsServerCrypto
  <2>3. AnswerRight(c, r)
    BY <1>3 DEF Ready, TrustedInv, AnswersInv
  <2> QED
    BY <2>1, <2>2, <2>3 DEF AnswerRight
<1>5. PICK key \in Key : key = SharedKey(t, u)
  BY DEF SharedKey, Key
<1>6. PICK m \in ClientMessage :
        /\ m = EncryptedWrapper(u, key, ClientHello(u, t, tunnel_mode_[c]))
        /\ ToServer(m)
  <2>1. ClientHello(u, t, tunnel_mode_[c]) \in ClientHellos /\ u \in Id
    BY <1>1, Identifiers
    DEF ClientHello, ClientHellos, Inv, ClientInv, ClientTypeOK
  <2>2. EncryptedWrapper(u, key, ClientHello(u, t, tunnel_mode_[c]))
          \in ClientMessage
    BY <2>1, SealedByClient
  <2> QED
    BY <1>1, <1>2, <1>3, <1>4, <1>5, <2>2
    DEF ReceiveServerHelloCrypto, ClientSeal
<1>7. /\ Sender(m) = t /\ Place(m) = Nth(t, 1)
      /\ IsHello(m) /\ ~IsTermination(m) /\ ~IsCrypto(m) /\ ~IsAck(m)
      /\ m.message_identifier = "ENCRYPTED_WRAPPER"
      /\ m.client_id = u /\ m.encrypted_payload.key = key
      /\ Text(m).client_base_id = u /\ Text(m).tunnel_mode = tunnel_mode_[c]
  <2>1. /\ m.message_identifier = "ENCRYPTED_WRAPPER"
        /\ m.client_id = u /\ m.encrypted_payload.key = key
        /\ m.encrypted_payload.plain = ClientHello(u, t, tunnel_mode_[c])
    BY <1>6 DEF EncryptedWrapper
  <2>2. Text(m) = ClientHello(u, t, tunnel_mode_[c])
    BY <2>1 DEF Text
  <2>3. /\ Text(m).message_identifier = "CLIENT_HELLO"
        /\ Text(m).handshake_identifier = t
        /\ Text(m).client_base_id = u /\ Text(m).tunnel_mode = tunnel_mode_[c]
    BY <2>2 DEF ClientHello
  <2> QED
    BY <2>1, <2>3 DEF Sender, Place, IsTermination, IsCrypto, IsHello, IsAck
<1>8. /\ cpc'[c] = "wait_hello" /\ UNCHANGED <<tunnel_mode_, starts>>
      /\ client_base_id_'[c] = u /\ session_key'[c] = key
      /\ ~crosstalk' => u = t
  BY <1>1, <1>2, <1>3, <1>4, <1>5
  DEF ReceiveServerHelloCrypto, Inv, ClientInv, ClientTypeOK
<1>9. Adds(c, {m}) /\ Ordered'
  <2>1. Sent(c) = 4 * starts[c] /\ Sent(c)' = 4 * starts[c] + 1
    BY <1>1, <1>8, SentBetween DEF Sent
  <2>2. Nth(t, 1) = 4 * starts[c] + 1 /\ starts[c] \in Nat
    BY <1>2, Places
  <2>3. Sent(c) < Place(m) /\ Place(m) <= Sent(c)'
    BY <1>7, <2>1, <2>2
  <2> QED
    BY <1>2, <1>6, <1>7, <2>3, SentRight
<1>10. NeverRestarted' => session_map_'[u] # None
  BY <1>1, <1>4, <1>9, ServerUntouched
<1>11. MessageRight(m)' /\ PromiseIn(m)'
  <2>1. SealedRight(m)'
    BY <1>1, <1>2, <1>5, <1>7, <1>8, <1>10 DEF SealedRight
  <2> QED
    BY <1>1, <1>2, <1>7, <1>8, <2>1 DEF MessageRight, AddressedRight, PromiseIn
<1>12. \A a \in Received(c)' : a \in Received(c) /\ ~HelloTo(c, a)'
  <2>1. Received(c)' \subseteq Received(c)
    BY <1>1, ReceivedRead DEF ReceiveServerHelloCrypto
  <2> QED
    BY <1>1, <1>8, <2>1, NoneToRead DEF HelloTo, attempt
<1>13. PICK s : s = attempt(c)' /\ s = t
  BY <1>2, <1>8 DEF attempt
<1>14. ClientRight(c)'
  BY <1>1, <1>5, <1>8, <1>10, <1>13 DEF ClientRight
<1> QED
  BY <1>8, <1>9, <1>11, <1>12, <1>13, <1>14, ClientMovesRight

\* The ServerHello that a client takes is the one to itself.
LEMMA OwnHello ==
  ASSUME Ready, Trusted', NEW c \in Clients, ReceiveServerHello(c)
  PROVE  LET r == Head(inbox[c])
             t == attempt(c)
         IN /\ r \in Received(c) /\ HelloTo(c, r) /\ Text(r) = Plain(c, r)
            /\ Text(r) \in ServerHellos /\ Text(r).handshake_identifier = t
            /\ Text(r).session_id = t
            /\ Text(r).assigned_client_id_ = OwnId(t)
            /\ Done(t[1], Nth(t, 1))
            /\ c \in EncryptedClients =>
                 client_base_id_[c] = t /\ session_key[c] = SharedKey(t, t)
<1>1. Inv /\ ChannelTypeOK /\ inbox[c] # <<>> /\ ClientRight(c)
  BY DEF Ready, IInv, Inv, TrustedInv, ClientsInv, ReceiveServerHello
<1>2. PICK r : r = Head(inbox[c])
  OBVIOUS
<1>3. /\ r \in ServerMessage /\ r \in Received(c) /\ AnswerRight(c, r)
      /\ Readable(c, r, ServerHelloFields) /\ Plain(c, r) \in ServerHellos
  BY <1>1, <1>2, ReceivedTyped, ReadMessage, ReadableServerHello
  DEF Ready, TrustedInv, AnswersInv, ReceiveServerHello
<1>4. /\ Text(r) = Plain(c, r) /\ IsServerHello(r)
      /\ c \in EncryptedClients =>
           /\ r.message_identifier = "ENCRYPTED_WRAPPER"
           /\ r.encrypted_payload.key = session_key[c]
  <2>1. Plain(c, r).message_identifier = "SERVER_HELLO"
    BY <1>3 DEF ServerHellos
  <2>2. CASE c \in EncryptedClients
    <3>1. r \in Wrappers(ServerHellos \cup ServerACKs)
      <4>1. "encrypted_payload" \in DOMAIN r
        BY <1>3, <2>2 DEF Readable, ParsesAs, EncryptedWrapperFields
      <4> QED
        BY <1>3, <4>1
        DEF ServerMessage, ServerHelloCryptos, ServerHellos, ServerACKs
    <3>2. r.message_identifier = "ENCRYPTED_WRAPPER"
      BY <3>1 DEF Wrappers
    <3> QED
      BY <1>3, <2>1, <2>2, <3>2 DEF Readable, Plain, Text, IsServerHello
  <2>3. CASE c \notin EncryptedClients
    BY <2>1, <2>3 DEF Plain, Text, IsServerHello
  <2> QED
    BY <2>2, <2>3
<1>5. PICK h \in Attempt : h = Text(r).handshake_identifier
  BY <1>3, <1>4 DEF ServerHellos
<1>6. /\ Text(r).session_id = h /\ Text(r).assigned_client_id_ = OwnId(h)
      /\ Done(h[1], Nth(h, 1))
  BY <1>3, <1>4, <1>5 DEF AnswerRight
<1>7. /\ h = attempt(c)
      /\ c \in EncryptedClients =>
           /\ client_base_id_[c] = attempt(c)
           /\ session_key[c] = SharedKey(attempt(c), attempt(c))
  <2>1. CASE c \in EncryptedClients
    <3>1. session_key[c] = SharedKey(attempt(c), client_base_id_[c])
      BY <1>1, <2>1 DEF ClientRight, ReceiveServerHello
    <3>2. session_key[c] = SharedKey(h, h)
      BY <1>3, <1>4, <1>5, <2>1 DEF AnswerRight
    <3> QED
      BY <3>1, <3>2 DEF SharedKey
  <2>2. CASE c \notin EncryptedClients
    <3>1. r \in ModeShown
      BY <1>1, <1>2, Queues DEF Ready, ModeInv, AnswersShowMode
    <3>2. ~crosstalk'
      BY <1>3, <2>2, <3>1, HelloShowsMode DEF Trusted
    <3> QED
      BY <1>2, <1>4, <1>5, <2>2, <3>2 DEF ReceiveServerHello
  <2> QED
    BY <2>1, <2>2
<1> QED
  BY <1>2, <1>3, <1>4, <1>5, <1>6, <1>7 DEF HelloTo

LEMMA ReceiveHelloRight ==
  ASSUME Ready, Inv', Trusted', NEW c \in Clients, ClientStep(c),
         ReceiveServerHello(c)
  PROVE  TrustedInv' /\ Forward
<1>1. /\ Inv /\ ChannelTypeOK /\ ClientRight(c) /\ PromiseTo(c) /\ OneHello(c)
      /\ cpc[c] = "wait_hello" /\ inbox[c] # <<>>
  BY DEF Ready, IInv, Inv, TrustedInv, ClientsInv, PromisesInv, AnswersInv,
         ReceiveServerHello
<1>2. PICK t \in Attempt : t = attempt(c) /\ t[1] = c /\ t[2] = starts[c]
  BY <1>1, AttemptTyped DEF attempt
<1>3. PICK r : r = Head(inbox[c])
  OBVIOUS
<1>4. /\ r \in Received(c) /\ HelloTo(c, r) /\ Text(r) = Plain(c, r)
      /\ Text(r).handshake_identifier = t /\ Text(r).session_id = t
      /\ Text(r).assigned_client_id_ = OwnId(t)
      /\ Done(c, Nth(t, 1))
      /\ c \in EncryptedClients =>
           client_base_id_[c] = t /\ session_key[c] = SharedKey(t, t)
  BY <1>2, <1>3, OwnHello
<1>5. PICK m \in ClientMessage :
        /\ m = ClientSeal(c, client_base_id_[c], session_key[c],
                          ClientACK(OwnId(t), t))
        /\ ToServer(m)
  <2>1. ClientACK(OwnId(t), t) \in ClientACKs
    BY OwnIds DEF ClientACK, ClientACKs
  <2>2. CASE c \in EncryptedClients
    <3>1. client_base_id_[c] \in Id /\ session_key[c] \in Key
      BY <1>1, <1>4, <2>2
      DEF Inv, ClientInv, ClientTypeOK, ClientProgress
    <3> QED
      BY <1>3, <1>4, <2>1, <2>2, <3>1, SealedByClient
      DEF ClientSeal, ReceiveServerHello
  <2>3. CASE c \notin EncryptedClients
    BY <1>3, <1>4, <2>1, <2>3 DEF ClientSeal, ReceiveServerHello, ClientMessage
  <2> QED
    BY <2>2, <2>3
<1>6. /\ Sender(m) = t /\ Place(m) = Nth(t, 2)
      /\ IsAck(m) /\ ~IsTermination(m) /\ ~IsCrypto(m) /\ ~IsHello(m)
      /\ m.message_identifier = "ENCRYPTED_WRAPPER" <=> c \in EncryptedClients
      /\ c \in EncryptedClients => /\ m.client_id = t
                                   /\ m.encrypted_payload.key = SharedKey(t, t)
      /\ Text(m).client_id = OwnId(t)
  <2>1. /\ m.message_identifier = "ENCRYPTED_WRAPPER" <=> c \in EncryptedClients
        /\ c \in EncryptedClients =>
             /\ m.client_id = t /\ m.encrypted_payload.key = SharedKey(t, t)
             /\ m.encrypted_payload.plain = ClientACK(OwnId(t), t)
        /\ c \notin EncryptedClients => m = ClientACK(OwnId(t), t)
    BY <1>4, <1>5 DEF ClientSeal, EncryptedWrapper, ClientACK
  <2>2. Text(m) = ClientACK(OwnId(t), t)
    BY <2>1 DEF Text
  <2>3. /\ Text(m).message_identifier = "CLIENT_ACK"
        /\ Text(m).handshake_identifier = t /\ Text(m).client_id = OwnId(t)
    BY <2>2 DEF ClientACK
  <2> QED
    BY <2>1, <2>3 DEF Sender, Place, IsTermination, IsCrypto, IsHello, IsAck
<1>7. /\ cpc'[c] = "wait_ack" /\ UNCHANGED <<starts, client_base_id_, session_key>>
      /\ session_config_'[c].client_id = OwnId(t)
      /\ session_config_'[c].session_id = t
      /\ session_config_'[c].client_address = Text(r).assigned_client_ip
  BY <1>1, <1>3, <1>4
  DEF ReceiveServerHello, Inv, ClientInv, ClientTypeOK
<1>8. Adds(c, {m}) /\ Ordered'
  <2>1. Sent(c) = 4 * starts[c] + 1 /\ Sent(c)' = 4 * starts[c] + 2
    BY <1>1, <1>7, SentBetween DEF Sent
  <2>2. Nth(t, 2) = 4 * starts[c] + 2 /\ starts[c] \in Nat
    BY <1>2, Places
  <2>3. Sent(c) < Place(m) /\ Place(m) <= Sent(c)'
    BY <1>6, <2>1, <2>2
  <2> QED
    BY <1>2, <1>5, <1>6, <2>3, SentRight
<1>9. Done(c, Nth(t, 1))'
  BY <1>1, <1>2, <1>4, <1>8, DoneByClient
<1>10. c \in EncryptedClients /\ NeverRestarted' => session_map_'[t] # None
  BY <1>1, <1>4, <1>8, ServerUntouched DEF ClientRight
<1>11. MessageRight(m)'
  <2>1. c \in EncryptedClients => SealedRight(m)'
    BY <1>2, <1>6, <1>10 DEF SealedRight
  <2>2. AddressedRight(m)'
    BY <1>2, <1>6, <2>1 DEF AddressedRight, OwnId
  <2> QED
    BY <1>2, <1>6, <1>9, <2>2 DEF MessageRight
<1>12. Known(OwnId(t)) => Offered(t)
  BY <1>1, <1>2, <1>4 DEF PromiseTo
<1>13. PromiseIn(m)'
  BY <1>1, <1>6, <1>8, <1>12, ServerUntouched DEF PromiseIn
<1>14. Known(OwnId(t)) => Pursued(t)'
  <2>1. CASE Server \in listeners
    <3>1. m \in Pending'
      BY <1>1, <1>5, <2>1, PendingSent
    <3>2. Known(OwnId(t)) => Offered(t)'
      BY <1>1, <1>8, <1>12, ServerUntouched
    <3> QED
      BY <1>6, <3>1, <3>2 DEF Pursued, AckOf
  <2>2. CASE Server \notin listeners
    <3>1. ~NeverRestarted /\ ~AckExpected(OwnId(t)) /\ ~has_session(OwnId(t))
      BY <2>2, OwnIds
      DEF Ready, ProcessInv, NeverRestarted, NoEntries, AckExpected, has_session
    <3> QED
      BY <3>1 DEF Known
  <2> QED
    BY <2>1, <2>2
<1>15. PICK s : s = attempt(c)' /\ s = t
  BY <1>2, <1>7 DEF attempt
<1>16. \A a \in Received(c)' : a \in Received(c) /\ ~HelloTo(c, a)'
  <2> SUFFICES ASSUME NEW a \in Received(c)'
               PROVE  a \in Received(c) /\ ~HelloTo(c, a)'
    OBVIOUS
  <2>1. inbox'[c] = Tail(inbox[c]) /\ inbox[c] \in Seq(ServerMessage)
    BY <1>1 DEF ReceiveServerHello, Consume, ChannelTypeOK
  <2>2. PICK k \in 1 .. Len(inbox'[c]) : a = inbox'[c][k]
    BY DEF Received
  <2>3. /\ k + 1 \in 1 .. Len(inbox[c]) /\ a = inbox[c][k + 1]
        /\ 1 \in 1 .. Len(inbox[c]) /\ r = inbox[c][1] /\ k + 1 # 1
    BY <1>1, <1>3, <2>1, <2>2
  <2>4. ~HelloTo(c, a)
    BY <1>1, <1>4, <2>3 DEF OneHello
  <2> QED
    BY <1>2, <1>15, <2>3, <2>4 DEF Received, HelloTo
<1>17. ClientRight(c)'
  BY <1>1, <1>4, <1>7, <1>9, <1>10, <1>15 DEF ClientRight
<1>18. session_config_'[c].client_address \in Told(c)
  BY <1>4, <1>7 DEF Told
<1>19. s = attempt(c) /\ (Known(OwnId(s)) => Pursued(s)')
  BY <1>2, <1>14, <1>15
<1>20. \A a \in {m} : MessageRight(a)' /\ PromiseIn(a)'
  BY <1>11, <1>13
<1>21. /\ s = attempt(c)'
       /\ cpc'[c] \in {"wait_ack", "active"} =>
            /\ s = attempt(c)
            /\ session_config_'[c].client_address \in Told(c)
            /\ Known(OwnId(s)) => Pursued(s)'
  BY <1>15, <1>18, <1>19
<1> QED
  BY <1>8, <1>16, <1>17, <1>20, <1>21, ClientMovesRight

LEMMA ActiveRight ==
  ASSUME Ready, Inv', NEW c \in Clients, ClientStep(c), cpc[c] = "wait_ack",
         BecomesActive(c)
  PROVE  TrustedInv' /\ Forward
<1>1. Inv /\ ChannelTypeOK /\ ClientRight(c) /\ PromiseTo(c)
  BY DEF Ready, IInv, Inv, TrustedInv, ClientsInv, PromisesInv
<1>2. PICK t \in Attempt : t = attempt(c) /\ t[1] = c
  BY <1>1, AttemptTyped DEF attempt
<1>3. /\ cpc'[c] = "active" /\ Received(c)' = {}
      /\ UNCHANGED <<rx, starts, client_base_id_, session_key, session_config_,
                     crosstalk>>
  BY <1>1, ReceivedLeft DEF BecomesActive, Inv, ClientInv, ClientTypeOK
<1>4. Adds(c, {}) /\ Ordered'
  BY <1>3, SentNothing
<1>5. PICK s : s = attempt(c)' /\ s = t
  BY <1>2, <1>3 DEF attempt
<1>6. ClientRight(c)'
  <2>1. Done(c, Nth(t, 1))'
    BY <1>1, <1>2, <1>4, DoneByClient DEF ClientRight
  <2>2. /\ NeverRestarted' <=> NeverRestarted
        /\ UNCHANGED session_map_
    BY <1>1, <1>4, ServerUntouched
  <2> QED
    BY <1>1, <1>2, <1>3, <1>5, <2>1, <2>2 DEF ClientRight
<1>7. Known(OwnId(t)) => Pursued(t)'
  BY <1>1, <1>2, <1>4, ServerUntouched DEF PromiseTo
<1>8. session_config_'[c].client_address \in Told(c)
  BY <1>3 DEF Told
<1> QED
  BY <1>2, <1>3, <1>4, <1>5, <1>6, <1>7, <1>8, ClientMovesRight

LEMMA ClientStepRight ==
  ASSUME Ready, Inv', Trusted', NEW c \in Clients, ClientStep(c)
  PROVE  TrustedInv' /\ Forward
<1>1. ASSUME ProcessEnds(c), UNCHANGED rx PROVE TrustedInv' /\ Forward
  BY <1>1, SentNothing, EndRight
<1>2. ASSUME SetupStep(c) PROVE TrustedInv' /\ Forward
  BY <1>1, <1>2, SendHelloCryptoRight, SendHelloRight, ReceiveHelloCryptoRight,
     ReceiveHelloRight, ActiveRight
  DEF SetupStep, ReceiveServerAck, ThrowUnusable
<1>3. ASSUME Timeout(c) PROVE TrustedInv' /\ Forward
  BY <1>1, <1>3, ActiveRight DEF Timeout, HelloTimeout, AckTimeout
<1> QED
  BY <1>1, <1>2, <1>3, ConnectRight, StopRight DEF ClientStep, Crash

-----------------------------------------------------------------------------
\* Processes and their queues.
LEMMA ServerProcess ==
  ASSUME Inv, ProcessInv, ServerStep
  PROVE  ProcessInv'
<1>1. UNCHANGED clientVars
  BY DEF ServerStep
<1>2. ASSUME StartServer PROVE ProcessInv'
  <2>1. /\ serverPc' = "running" /\ server_starts' = server_starts + 1
        /\ listeners' = listeners \cup {Server} /\ UNCHANGED inbox
    BY <1>2 DEF StartServer, ServerSubscribes
  <2>2. server_starts' # 0
    BY <2>1, ServerAssumption DEF Inv, ServerInv, ServerTypeOK
  <2> QED
    BY <1>1, <2>1, <2>2, ProcessAssumption DEF ProcessInv, clientVars
<1>3. ASSUME NEW pc \in {"down", "failed"}, serverPc = "running",
             ServerProcessEnds(pc)
      PROVE  ProcessInv'
  BY <1>1, <1>3, ProcessAssumption
  DEF ProcessInv, clientVars, ServerProcessEnds, ServerLeaves
<1>4. ASSUME serverPc = "running",
             UNCHANGED <<serverPc, server_starts, listeners>>,
             UNCHANGED inbox \/ \E m : ToClients(m)
      PROVE  ProcessInv'
  BY <1>1, <1>4 DEF ProcessInv, clientVars, ToClients
<1>5. ASSUME HandleClientHelloCrypto \/ HandleClientHello \/ HandleClientAck
      PROVE  ProcessInv'
  BY <1>4, <1>5
  DEF HandleClientHelloCrypto, HandleClientHello, HandleClientAck, Handles,
      Consumes
<1>6. ASSUME RejectClientHello \/ RejectClientAck \/ HandleSessionTermination
               \/ IgnoreSessionTermination
      PROVE  ProcessInv'
  BY <1>4, <1>6
  DEF RejectClientHello, RejectClientAck, HandleSessionTermination,
      IgnoreSessionTermination, Handles, Consumes, serverVars
<1>7. ASSUME FinishClientAck PROVE ProcessInv'
  <2>1. serverPc = "running"
    BY <1>7 DEF FinishClientAck, ProcessInv
  <2> QED
    BY <1>4, <1>7, <2>1 DEF FinishClientAck, channelVars
<1> QED
  BY <1>2, <1>3, <1>5, <1>6, <1>7
  DEF ServerStep, ServerLoop, StopServer, KillServer, ThrowUndecryptable,
      ThrowCannotSeal, ThrowAckMismatch, Handles, Consumes

LEMMA ClientProcess ==
  ASSUME Inv, ProcessInv, NEW c \in Clients, ClientStep(c)
  PROVE  ProcessInv'
<1>t. /\ cpc \in [Clients -> {"off", "connected", "active"} \cup Waiting]
      /\ inbox \in [Clients -> Seq(ServerMessage)] /\ c # Server
  BY ProcessAssumption DEF Inv, ClientInv, ClientTypeOK, ChannelTypeOK
<1>s. UNCHANGED serverVars
  BY DEF ClientStep
<1> DEFINE Moved(pc) ==
      /\ cpc' = [cpc EXCEPT ![c] = pc]
      /\ rx = <<>> /\ Server \notin listeners => rx' = <<>>
      /\ \A p : p # c => (p \in listeners' <=> p \in listeners)
      /\ \A d \in Clients : d # c => inbox'[d] = inbox[d]
<1>1. ASSUME NEW pc, Moved(pc),
             pc \in {"off", "active"} => c \notin listeners' /\ inbox'[c] = <<>>,
             server_starts = 0 =>
               /\ inbox'[c] = <<>>
               /\ pc \notin {"wait_ack", "active"}
               /\ pc = "wait_hello" => c \notin EncryptedClients
      PROVE  ProcessInv'
  <2>1. cpc'[c] = pc /\ \A d \in Clients : d # c => cpc'[d] = cpc[d]
    BY <1>1, <1>t
  <2>2. /\ serverPc' = serverPc /\ server_starts' = server_starts
        /\ establishing' = establishing /\ session_map_' = session_map_
        /\ handshake_states_' = handshake_states_
        /\ active_clients_' = active_clients_
    BY <1>s DEF serverVars, memoryVars
  <2>3. serverPc # "running" => rx' = <<>>
    BY <1>1 DEF ProcessInv
  <2>4. Server \in listeners' <=> Server \in listeners
    BY <1>1, <1>t
  <2>5. ASSUME NEW d \in Clients
        PROVE  /\ cpc'[d] \in {"off", "active"} =>
                    d \notin listeners' /\ inbox'[d] = <<>>
               /\ server_starts = 0 =>
                    /\ inbox'[d] = <<>>
                    /\ cpc'[d] \notin {"wait_ack", "active"}
                    /\ cpc'[d] = "wait_hello" => d \notin EncryptedClients
    BY <1>1, <2>1 DEF ProcessInv
  <2> QED
    BY <2>2, <2>3, <2>4, <2>5 DEF ProcessInv
<1>2. ASSUME ClientLeaves(c)
      PROVE  /\ c \notin listeners' /\ inbox'[c] = <<>>
             /\ \A p : p # c => (p \in listeners' <=> p \in listeners)
             /\ \A d \in Clients : d # c => inbox'[d] = inbox[d]
  BY <1>2, <1>t DEF ClientLeaves
<1>3. ASSUME ProcessEnds(c), UNCHANGED rx \/ \E m : ToServer(m)
      PROVE  ProcessInv'
  BY <1>1, <1>2, <1>3 DEF ProcessEnds, ToServer
<1>4. ASSUME cpc[c] = "wait_ack", BecomesActive(c) PROVE ProcessInv'
  <2>1. server_starts # 0
    BY <1>4 DEF ProcessInv
  <2> QED
    BY <1>1, <1>2, <1>4, <2>1 DEF BecomesActive
<1>5. ASSUME ConnectCommandChannel(c) PROVE ProcessInv'
  <2>1. server_starts = 0 => inbox[c] = <<>>
    BY DEF ProcessInv
  <2> QED
    BY <1>1, <1>5, <2>1 DEF ConnectCommandChannel, ClientSubscribes
<1>6. ASSUME SendClientHelloCrypto(c) \/ SendClientHello(c) PROVE ProcessInv'
  <2>1. server_starts = 0 => inbox[c] = <<>>
    BY DEF ProcessInv
  <2> QED
    BY <1>1, <1>6, <2>1 DEF SendClientHelloCrypto, SendClientHello, ToServer
<1>7. ASSUME inbox[c] # <<>>, Consume(c)
      PROVE  /\ server_starts # 0
             /\ \A d \in Clients : d # c => inbox'[d] = inbox[d]
  BY <1>7, <1>t DEF Consume, ProcessInv
<1>8. ASSUME ReceiveServerHelloCrypto(c) \/ ReceiveServerHello(c)
      PROVE  ProcessInv'
  BY <1>1, <1>7, <1>8
  DEF ReceiveServerHelloCrypto, ReceiveServerHello, ToServer
<1>9. ASSUME SetupStep(c) PROVE ProcessInv'
  BY <1>3, <1>4, <1>6, <1>8, <1>9 DEF SetupStep, ReceiveServerAck, ThrowUnusable
<1>10. ASSUME Timeout(c) PROVE ProcessInv'
  BY <1>3, <1>4, <1>10 DEF Timeout, HelloTimeout, AckTimeout
<1> QED
  BY <1>3, <1>5, <1>9, <1>10 DEF ClientStep, StopTunnel, Crash

-----------------------------------------------------------------------------
\* Where it all begins, and where nothing happens.
LEMMA AttemptsInit == Init => AttemptsInv
<1> SUFFICES ASSUME Init PROVE AttemptsInv
  OBVIOUS
<1> USE DEF Init, ChannelInit, ServerInit, ClientInit, NoEntries
<1>1. ProcessInv
  BY ProcessAssumption DEF ProcessInv
<1>2. /\ Pending = {} /\ rx = <<>> /\ \A c \in Clients : Received(c) = {}
      /\ \A c \in Clients : Told(c) = {}
  BY DEF Pending, Received, Told
<1>3. Ordered /\ NotAhead /\ MessagesInv
  BY <1>2 DEF Ordered, NotAhead, MessagesInv
<1>4. ServiceInv
  BY DEF ServiceInv, KeyRight, OfferRight, SessionRight, EstablishingInv,
         AckExpected
<1>5. AnswersInv
  <2>0. Len(<<>>) = 0 /\ 1 .. 0 = {}
    OBVIOUS
  <2>1. \A c \in Clients : inbox[c] = <<>> /\ 1 .. Len(inbox[c]) = {}
    BY <2>0
  <2>2. \A c \in Clients : OneHello(c)
    BY <2>1 DEF OneHello
  <2> QED
    BY <1>2, <2>2 DEF AnswersInv
<1>6. ClientsInv
  BY DEF ClientsInv, ClientRight
<1>7. PromisesInv
  BY <1>2 DEF PromisesInv, PromiseTo
<1>8. AddressesInv
  BY <1>2 DEF AddressesInv, OtherAddress, SameAddress
<1> QED
  BY <1>1, <1>3, <1>4, <1>5, <1>6, <1>7, <1>8 DEF AttemptsInv, TrustedInv

LEMMA AttemptsStutter ==
  ASSUME AttemptsInv, UNCHANGED vars
  PROVE  AttemptsInv'
<1> USE DEF vars, serverVars, memoryVars, clientVars, channelVars
<1>1. ProcessInv'
  BY DEF AttemptsInv, ProcessInv
<1> SUFFICES ASSUME TrustedInv PROVE TrustedInv'
  BY <1>1 DEF AttemptsInv, Trusted
<1>2. /\ Pending' = Pending /\ \A c : Received(c)' = Received(c)
      /\ \A c, n : Done(c, n)' <=> Done(c, n)
      /\ \A c : Sent(c)' = Sent(c) /\ attempt(c)' = attempt(c)
      /\ \A t : Current(t)' <=> Current(t)
      /\ \A id : AckExpected(id)' <=> AckExpected(id)
      /\ \A id : Wired(id)' <=> Wired(id)
      /\ NeverRestarted' <=> NeverRestarted
  BY DEF Pending, Received, Done, Sent, attempt, Current, AckExpected, Wired,
         NeverRestarted
<1>3. Ordered' /\ NotAhead'
  BY <1>2 DEF TrustedInv, Ordered, NotAhead
<1>4. MessagesInv'
  BY <1>2 DEF TrustedInv, MessagesInv, MessageRight, AddressedRight, SealedRight
<1>5. ServiceInv'
  BY <1>2 DEF TrustedInv, ServiceInv, KeyRight, OfferRight, SessionRight,
     EstablishingInv, EntryOf
<1>6. AnswersInv'
  BY <1>2 DEF TrustedInv, AnswersInv, OneHello, HelloTo, AnswerRight
<1>7. ClientsInv'
  BY <1>2 DEF TrustedInv, ClientsInv, ClientRight
<1>8. /\ \A s : (Offered(s)' <=> Offered(s)) /\ (Pursued(s)' <=> Pursued(s))
      /\ \A s : Established(s)' <=> Established(s)
      /\ \A id : Known(id)' <=> Known(id)
      /\ \A c, m : HelloTo(c, m)' <=> HelloTo(c, m)
      /\ \A c : Told(c)' = Told(c)
  BY <1>2 DEF Offered, Pursued, Established, AckOf, Known, HelloTo, Told,
     has_session
<1>9. PromisesInv'
  BY <1>2, <1>8 DEF TrustedInv, PromisesInv, PromiseTo, PromiseIn
<1>10. AddressesInv'
  BY <1>2, <1>8 DEF TrustedInv, AddressesInv, OtherAddress, SameAddress
<1> QED
  BY <1>3, <1>4, <1>5, <1>6, <1>7, <1>9, <1>10 DEF TrustedInv

LEMMA AttemptsNext ==
  ASSUME IInv, Inv', ModeInv, AttemptsInv, [Next]_vars
  PROVE  AttemptsInv'
<1>1. CASE UNCHANGED vars
  BY <1>1, AttemptsStutter
<1>2. ASSUME ServerStep PROVE AttemptsInv'
  <2>1. ProcessInv'
    BY <1>2, ServerProcess DEF AttemptsInv, IInv
  <2>2. Trusted' => Trusted
    BY <1>2 DEF ServerStep, clientVars, Trusted
  <2> QED
    BY <1>2, <2>1, <2>2, ServerRight DEF AttemptsInv, Ready
<1>3. ASSUME NEW c \in Clients, ClientStep(c) PROVE AttemptsInv'
  <2>1. ProcessInv'
    BY <1>3, ClientProcess DEF AttemptsInv, IInv
  <2>2. Trusted' => Trusted
    BY <1>3, ClientFrame DEF Trusted, IInv
  <2> QED
    BY <1>3, <2>1, <2>2, ClientStepRight DEF AttemptsInv, Ready
<1> QED
  BY <1>1, <1>2, <1>3 DEF Next

(***************************************************************************)
(* The messages under way and the memory of both ends follow the attempts  *)
(* of the clients: see module Attempts.                                    *)
(***************************************************************************)
THEOREM AttemptsFollowed == Spec => []AttemptsInv
<1>1. IInv => Inv
  BY DEF IInv
<1>2. IInv /\ IInv' /\ ModeInv /\ AttemptsInv /\ [Next]_vars => AttemptsInv'
  BY AttemptsNext DEF IInv
<1> QED
  BY <1>2, AttemptsInit, IInvHolds, ModeInvHolds, PTL DEF Spec

-----------------------------------------------------------------------------
(***************************************************************************)
(* What follows for the tunnel.  First, client and server agree.           *)
(***************************************************************************)
LEMMA Agreement ==
  ASSUME Ready, NEW c \in Clients, cpc[c] \in {"wait_ack", "active"},
         NEW t, t = attempt(c)
  PROVE  /\ t \in Attempt /\ t[1] = c /\ OwnId(t) \in Id
         /\ session_config_[c].client_id = OwnId(t)
         /\ Offered(t) => Agrees(c, handshake_states_[OwnId(t)])
         /\ Established(t) => /\ Agrees(c, active_clients_[OwnId(t)])
                              /\ Wired(OwnId(t))
         /\ NeverRestarted => Pursued(t)
<1>1. Inv /\ ClientRight(c) /\ PromiseTo(c) /\ SameAddress(c) /\ ServiceInv
  BY DEF Ready, IInv, TrustedInv, ClientsInv, PromisesInv, AddressesInv
<1>2. t \in Attempt /\ t[1] = c /\ OwnId(t) \in Id /\ Current(t)
  BY <1>1, AttemptTyped, OwnIds DEF attempt, Current
<1>3. /\ session_config_[c].client_id = OwnId(t)
      /\ session_config_[c].session_id = t
      /\ session_config_[c].client_address \in Told(c)
  BY <1>1 DEF ClientRight, Told
<1>4. /\ Offered(t) =>
           handshake_states_[OwnId(t)].client_address
             = session_config_[c].client_address
      /\ Established(t) =>
           active_clients_[OwnId(t)].client_address
             = session_config_[c].client_address
  BY <1>1, <1>3 DEF SameAddress
<1>5. ASSUME Offered(t) PROVE Agrees(c, handshake_states_[OwnId(t)])
  <2>1. EntryOf(OwnId(t), handshake_states_[OwnId(t)])
    BY <1>1, <1>2, <1>5 DEF ServiceInv, OfferRight, Offered
  <2> QED
    BY <1>2, <1>3, <1>4, <1>5, <2>1 DEF EntryOf, Agrees, Offered, AckExpected
<1>6. ASSUME Established(t)
      PROVE  Agrees(c, active_clients_[OwnId(t)]) /\ Wired(OwnId(t))
  <2>1. EntryOf(OwnId(t), active_clients_[OwnId(t)]) /\ Wired(OwnId(t))
    BY <1>1, <1>2, <1>6 DEF ServiceInv, SessionRight, Established, has_session
  <2> QED
    BY <1>2, <1>3, <1>4, <1>6, <2>1 DEF EntryOf, Agrees, Established, has_session
<1>7. NeverRestarted => Pursued(t)
  BY <1>1 DEF PromiseTo, Known
<1> QED
  BY <1>2, <1>3, <1>5, <1>6, <1>7

\* The state that the properties start from.
LEMMA ReadyWhenTrusted ==
  IInv /\ ModeInv /\ AttemptsInv /\ Trusted => Ready
BY DEF AttemptsInv, Ready

LEMMA ReadyHolds == Spec => [](IInv /\ ModeInv /\ AttemptsInv)
BY IInvHolds, ModeInvHolds, AttemptsFollowed, PTL

(***************************************************************************)
(* A client that is active has the address, the session and the mode that  *)
(* the server has down for it, for as long as the server runs for the      *)
(* first time and, without encryption, no client has adopted an answer to  *)
(* another attempt.                                                        *)
(***************************************************************************)
THEOREM ActiveReserved == Spec => []ActiveIsReserved
<1>1. IInv /\ ModeInv /\ AttemptsInv => ActiveIsReserved
  <2> SUFFICES ASSUME IInv, ModeInv, AttemptsInv, NEW c \in Clients,
                      cpc[c] = "active", NeverRestarted, Trusted
               PROVE  LET id == session_config_[c].client_id
                      IN \/ Agrees(c, handshake_states_[id])
                         \/ Agrees(c, active_clients_[id])
    BY DEF ActiveIsReserved
  <2>1. Ready
    BY ReadyWhenTrusted
  <2>2. PICK t : t = attempt(c)
    OBVIOUS
  <2>3. Offered(t) \/ Established(t)
    BY <2>1, <2>2, Agreement DEF Pursued
  <2> QED
    BY <2>1, <2>2, <2>3, Agreement
<1> QED
  BY <1>1, ReadyHolds, PTL

\* Two attempts have two identifiers, and what they were told differs.
LEMMA DistinctWhenReady == Ready => DistinctTunnels
<1> SUFFICES ASSUME Ready, NEW c \in Clients, NEW d \in Clients,
                    cpc[c] = "active", cpc[d] = "active", c # d
             PROVE  LET x == session_config_[c]
                        y == session_config_[d]
                    IN /\ x.client_id # y.client_id
                       /\ server_starts = 1 =>
                            ~Clash(x.client_address, y.client_address)
  BY DEF DistinctTunnels
<1>1. PICK s : s = attempt(c)
  OBVIOUS
<1>2. PICK t : t = attempt(d)
  OBVIOUS
<1>3. session_config_[c].client_id # session_config_[d].client_id
  BY <1>1, <1>2, Agreement, OwnIds
<1>4. /\ session_config_[c].client_address \in Told(c)
      /\ session_config_[d].client_address \in Told(d)
  BY DEF Told
<1>5. server_starts = 1 => ~Clash(session_config_[c].client_address,
                                  session_config_[d].client_address)
  BY <1>4 DEF Ready, TrustedInv, AddressesInv, OtherAddress
<1> QED
  BY <1>3, <1>5

(***************************************************************************)
(* Two clients that are active have different identifiers and, from one    *)
(* run of the server, different addresses: always with encryption, and     *)
(* without it unless a client has adopted an answer to another attempt.    *)
(***************************************************************************)
THEOREM TunnelsDistinct ==
  /\ ServerEncrypts => (Spec => []DistinctTunnels)
  /\ Spec => [](~crosstalk => DistinctTunnels)
<1>1. ServerEncrypts /\ IInv /\ ModeInv /\ AttemptsInv => DistinctTunnels
  BY ReadyWhenTrusted, DistinctWhenReady DEF Trusted
<1>2. IInv /\ ModeInv /\ AttemptsInv => (~crosstalk => DistinctTunnels)
  BY ReadyWhenTrusted, DistinctWhenReady DEF Trusted
<1>3. ServerEncrypts => (Spec => []DistinctTunnels)
  <2> SUFFICES ASSUME ServerEncrypts PROVE Spec => []DistinctTunnels
    OBVIOUS
  <2>1. IInv /\ ModeInv /\ AttemptsInv => DistinctTunnels
    BY <1>1
  <2> QED
    BY <2>1, ReadyHolds, PTL
<1>4. Spec => [](~crosstalk => DistinctTunnels)
  BY <1>2, ReadyHolds, PTL
<1> QED
  BY <1>3, <1>4

-----------------------------------------------------------------------------
\* What it takes for a message to make a handler of the server throw.
LEMMA WhyItThrows ==
  ASSUME Ready
  PROVE  /\ ThrowUndecryptable => SealedUnderAnother \/ SealedForEarlierServer
         /\ ThrowCannotSeal => FromBaselineClient
         /\ ~ThrowAckMismatch
<1>1. ASSUME rx # <<>>
      PROVE  /\ msg \in Pending /\ msg \in ClientMessage
             /\ payload = Text(msg) /\ AddressedRight(msg)
             /\ Sender(msg) \in Attempt
  BY <1>1, Handled
<1>t. server_starts \in Nat
  BY ServerAssumption DEF Ready, IInv, Inv, ServerInv, ServerTypeOK
<1>2. ASSUME ThrowUndecryptable, ~SealedUnderAnother
      PROVE  SealedForEarlierServer
  <2>1. /\ rx # <<>> /\ serverPc = "running"
        /\ msg.message_identifier = "ENCRYPTED_WRAPPER"
        /\ session_map_[msg.client_id] # msg.encrypted_payload.key
    BY <1>2 DEF ThrowUndecryptable, Consumes, Opens
  <2>2. PICK t \in Attempt : t = Sender(msg) /\ SealedRight(msg)
    BY <1>1, <2>1 DEF AddressedRight
  <2>3. payload.handshake_identifier = t
    <3>1. msg \notin ClientHelloCryptos /\ msg \notin SessionTerminations
      BY <2>1 DEF ClientHelloCryptos, SessionTerminations
    <3>2. payload \in ClientHellos \/ payload \in ClientACKs
      BY <1>1, <2>1, <3>1, ClientMessages
    <3>3. IsHello(msg) \/ IsAck(msg)
      BY <1>1, <2>1, <3>2 DEF IsHello, IsAck, ClientHellos, ClientACKs
    <3> QED
      BY <1>1, <2>1, <2>2, <3>3, ClientMessages
  <2>4. msg.client_id = t /\ msg.encrypted_payload.key = SharedKey(t, t)
    BY <1>2, <2>1, <2>2, <2>3 DEF SealedUnderAnother, SealedRight
  <2>5. KeyRight(t)
    BY Identifiers DEF Ready, TrustedInv, ServiceInv
  <2>6. session_map_[t] = None
    BY <2>1, <2>4, <2>5 DEF KeyRight
  <2>7. ~NeverRestarted
    BY <2>2, <2>4, <2>6 DEF SealedRight
  <2>8. server_starts # 0
    BY <2>1 DEF Ready, ProcessInv
  <2> QED
    BY <1>t, <2>1, <2>4, <2>6, <2>7, <2>8
    DEF NeverRestarted, SealedForEarlierServer
<1>3. ASSUME ThrowCannotSeal PROVE FromBaselineClient
  <2>1. /\ rx # <<>> /\ IsHello(msg) /\ ServerEncrypts /\ Opens(msg)
        /\ payload.message_identifier = "CLIENT_HELLO"
        /\ session_map_[payload.client_base_id] = None
    BY <1>1, <1>3
    DEF ThrowCannotSeal, Handles, Consumes, CanSeal, IsHello
  <2>2. ASSUME msg.message_identifier = "ENCRYPTED_WRAPPER" PROVE FALSE
    <3>1. /\ payload.client_base_id = msg.client_id
          /\ SealedRight(msg)
      BY <1>1, <2>1, <2>2 DEF AddressedRight
    <3>2. msg.encrypted_payload.key \in Key
      BY <1>1, <2>1, <3>1 DEF SealedRight, SharedKey, Key
    <3>3. session_map_[msg.client_id] = msg.encrypted_payload.key
      BY <2>1, <2>2 DEF Opens
    <3> QED
      BY <2>1, <3>1, <3>2, <3>3, NoneKeys
  <2>3. payload = msg
    BY <2>2 DEF payload
  <2> QED
    BY <2>1, <2>3 DEF FromBaselineClient
<1>4. ASSUME ThrowAckMismatch PROVE FALSE
  <2>1. rx # <<>> /\ IsAck(msg)
    BY <1>1, <1>4 DEF ThrowAckMismatch, Handles, Consumes, IsAck
  <2>2. PICK t \in Attempt : t = Sender(msg) /\ payload.handshake_identifier = t
    BY <1>1, <2>1, ClientMessages
  <2>3. payload.client_id = OwnId(t)
    BY <2>1, <2>2, AckAddressed
  <2>4. Known(OwnId(t))
    BY <1>4, <2>3 DEF ThrowAckMismatch, Known
  <2>5. Offered(t)
    BY <1>1, <2>1, <2>2, <2>4 DEF Ready, TrustedInv, PromisesInv, PromiseIn
  <2>6. handshake_states_[OwnId(t)].handshake_identifier = t
    BY <2>5, OwnIds DEF Offered, Ready, TrustedInv, ServiceInv, OfferRight, EntryOf
  <2> QED
    BY <1>4, <2>2, <2>3, <2>6 DEF ThrowAckMismatch
<1> QED
  BY <1>2, <1>3, <1>4

\* Nothing but an exception lets the server fail.
LEMMA OnlyByThrow ==
  ASSUME Next, serverPc = "running", serverPc' = "failed"
  PROVE  ThrowUndecryptable \/ ThrowCannotSeal \/ ThrowAckMismatch
<1>1. serverPc' # serverPc
  OBVIOUS
<1>2. ServerStep
  BY <1>1 DEF Next, ClientStep, serverVars
<1> QED
  BY <1>1, <1>2
  DEF ServerStep, ServerLoop, StartServer, StopServer, KillServer,
      ServerProcessEnds, HandleClientHelloCrypto, HandleClientHello,
      RejectClientHello, HandleClientAck, FinishClientAck, RejectClientAck,
      HandleSessionTermination, IgnoreSessionTermination, serverVars

(***************************************************************************)
(* A message ends the server by an exception in four ways only: the hello  *)
(* of a client without encryption at a server with it; a message sealed    *)
(* under the identifier of another attempt; one sealed for an earlier run  *)
(* of the server; and, without encryption, after a client has adopted an   *)
(* answer to another attempt.                                              *)
(***************************************************************************)
THEOREM ServerOutlives == Spec => ServerOutlivesClients
<1>1. IInv /\ ModeInv /\ AttemptsInv /\ [Next]_vars =>
        [serverPc = "running" /\ serverPc' = "failed" =>
           \/ FromBaselineClient
           \/ SealedUnderAnother
           \/ SealedForEarlierServer
           \/ ~ServerEncrypts /\ crosstalk]_vars
  <2> SUFFICES ASSUME IInv, ModeInv, AttemptsInv, Next, serverPc = "running",
                      serverPc' = "failed", ServerEncrypts \/ ~crosstalk
               PROVE  \/ FromBaselineClient
                      \/ SealedUnderAnother
                      \/ SealedForEarlierServer
    OBVIOUS
  <2>1. Ready
    BY ReadyWhenTrusted DEF Trusted
  <2> QED
    BY <2>1, OnlyByThrow, WhyItThrows
<1> QED
  BY <1>1, ReadyHolds, PTL DEF Spec, ServerOutlivesClients

-----------------------------------------------------------------------------
\* The one step that takes a session out of a server that goes on.
LEMMA EndOfSession ==
  ASSUME Ready, ServerStep, NEW id \in Id,
         active_clients_[id] # None, active_clients_'[id] = None,
         serverPc' = "running"
  PROVE  /\ msg.message_identifier = "SESSION_TERMINATION"
         /\ msg.client_id = id
         /\ msg.session_id = active_clients_[id].session_id
<1>t. /\ active_clients_ \in [Id -> SessionConfig \cup {None}]
      /\ handshake_states_ \in [Id -> SessionConfig \cup {None}]
  BY DEF Ready, IInv, Inv, ServerInv, ServerTypeOK
<1>c. UNCHANGED clientVars
  BY DEF ServerStep
<1>1. CASE HandleSessionTermination
  <2>1. PICK t \in Attempt :
          /\ IsTermination(msg) /\ Sender(msg) = t /\ Established(t)
          /\ active_clients_' = [active_clients_ EXCEPT ![OwnId(t)] = None]
          /\ rx # <<>>
    BY <1>1, <1>c, TerminationEffects
  <2>2. id = OwnId(t)
    BY <1>t, <2>1
  <2>3. /\ msg \in SessionTerminations /\ Text(msg) = msg
        /\ t = msg.session_id /\ msg.client_id = OwnId(t)
    <3>1. /\ msg \in SessionTerminations /\ Text(msg) = msg
          /\ Sender(msg) = msg.session_id
      BY <2>1, Handled, ClientMessages
    <3>2. Text(msg).client_id = OwnId(Sender(msg))
      BY <2>1, Handled DEF AddressedRight
    <3> QED
      BY <2>1, <3>1, <3>2
  <2> QED
    BY <2>1, <2>2, <2>3 DEF Established, SessionTerminations
<1>2. CASE FinishClientAck
  <2>1. PICK t \in Attempt :
          /\ OwnId(t) \in Id /\ Offered(t)
          /\ active_clients_' =
               [active_clients_ EXCEPT ![OwnId(t)] = handshake_states_[OwnId(t)]]
    BY <1>2, <1>c, FinishEffects, OwnIds
  <2>2. active_clients_'[id] # None
    BY <1>t, <2>1 DEF Offered, AckExpected
  <2> QED
    BY <2>2
<1>3. ASSUME UNCHANGED active_clients_ PROVE FALSE
  BY <1>3
<1>4. ASSUME NEW pc \in {"down", "failed"}, ServerProcessEnds(pc) PROVE FALSE
  BY <1>4 DEF ServerProcessEnds
<1> QED
  BY <1>1, <1>2, <1>3, <1>4
  DEF ServerStep, ServerLoop, StartServer, StopServer, KillServer,
      HandleClientHelloCrypto, HandleClientHello, RejectClientHello,
      HandleClientAck, RejectClientAck, IgnoreSessionTermination,
      ThrowUndecryptable, ThrowCannotSeal, ThrowAckMismatch, serverVars,
      memoryVars

(***************************************************************************)
(* A session ends, other than with the server, by the termination of that  *)
(* very session, although the server looks at the client_id only; without  *)
(* encryption, unless a client has adopted an answer to another attempt.   *)
(***************************************************************************)
THEOREM TerminationOwn == Spec => OnlyOwnTermination
<1>1. IInv /\ ModeInv /\ AttemptsInv /\ [Next]_vars =>
        [\A id \in Id :
           /\ active_clients_[id] # None
           /\ active_clients_'[id] = None
           /\ serverPc' = "running"
           /\ Trusted
           => /\ msg.message_identifier = "SESSION_TERMINATION"
              /\ msg.client_id = id
              /\ msg.session_id = active_clients_[id].session_id]_vars
  <2> SUFFICES ASSUME IInv, ModeInv, AttemptsInv, Next, NEW id \in Id,
                      active_clients_[id] # None, active_clients_'[id] = None,
                      serverPc' = "running", Trusted
               PROVE  /\ msg.message_identifier = "SESSION_TERMINATION"
                      /\ msg.client_id = id
                      /\ msg.session_id = active_clients_[id].session_id
    OBVIOUS
  <2>1. Ready
    BY ReadyWhenTrusted
  <2>2. ASSUME NEW c \in Clients, ClientStep(c) PROVE FALSE
    BY <2>2 DEF ClientStep, serverVars, memoryVars
  <2> QED
    BY <2>1, <2>2, EndOfSession DEF Next
<1> QED
  BY <1>1, ReadyHolds, PTL DEF Spec, OnlyOwnTermination

-----------------------------------------------------------------------------
\* An address stays found where nobody who has it loses it.
LEMMA StillFound ==
  ASSUME UsedAddressKnown,
         \A i \in Allocatable :
           ip_usage'[i] =>
             \/ /\ ip_usage[i]
                /\ \A id \in Id :
                     /\ i + 1 = HandshakeAddress(id) =>
                          i + 1 \in {HandshakeAddress(id)', SessionAddress(id)'}
                     /\ i + 1 = SessionAddress(id) => i + 1 = SessionAddress(id)'
             \/ \E o \in Id : i + 1 = HandshakeAddress(o)'
  PROVE  UsedAddressKnown'
<1> SUFFICES ASSUME NEW i \in Allocatable, ip_usage'[i]
             PROVE  \E id \in Id :
                      i + 1 \in {HandshakeAddress(id)', SessionAddress(id)'}
  BY DEF UsedAddressKnown, Allocatable, Slot
<1>1. CASE ip_usage[i] /\ ~\E o \in Id : i + 1 = HandshakeAddress(o)'
  <2>1. PICK id \in Id : i + 1 \in {HandshakeAddress(id), SessionAddress(id)}
    BY <1>1 DEF UsedAddressKnown
  <2> QED
    BY <1>1, <2>1
<1> QED
  BY <1>1

\* With encryption an identifier has one session in the server's life.
LEMMA FirstSession ==
  ASSUME Ready, ServerEncrypts, NEW t \in Attempt, Offered(t)
  PROVE  OwnId(t) = t /\ active_clients_[t] = None
<1>1. /\ AckCanBeSealed /\ KeyRight(OwnId(t)) /\ OfferRight(OwnId(t))
      /\ SessionRight(OwnId(t)) /\ OwnId(t) \in Id /\ AckExpected(OwnId(t))
      /\ handshake_states_[OwnId(t)].session_id = t
  BY OwnIds DEF Ready, IInv, TrustedInv, ServiceInv, Offered, Inv, ServerInv
<1>2. OwnId(t) \in Attempt
  BY <1>1 DEF AckCanBeSealed, CanSeal, KeyRight
<1>3. OwnId(t) = t
  BY <1>2, OwnIds
<1>4. ASSUME active_clients_[t] # None PROVE FALSE
  <2>1. PICK s \in Attempt : s = active_clients_[t].session_id /\ OwnId(s) = t
    BY <1>1, <1>3, <1>4 DEF SessionRight, EntryOf
  <2>2. s = t
    BY <2>1, OwnIds
  <2>3. s[2] < t[2]
    BY <1>1, <1>3, <1>4, <2>1 DEF OfferRight
  <2> QED
    BY <2>2, <2>3, OwnIds
<1> QED
  BY <1>3, <1>4

LEMMA AddressFound ==
  ASSUME Ready, ServerEncrypts, UsedAddressKnown, ServerStep
  PROVE  UsedAddressKnown'
<1>c. UNCHANGED clientVars
  BY DEF ServerStep
<1>t. /\ active_clients_ \in [Id -> SessionConfig \cup {None}]
      /\ handshake_states_ \in [Id -> SessionConfig \cup {None}]
      /\ PoolTypeOK /\ ServerTypeOK
  BY DEF Ready, IInv, Inv, ServerInv, ServerTypeOK
<1>z. \A i \in Allocatable : i + 1 \in Address /\ i + 1 # NoAddress
  BY SlotOfAddress DEF Address, NoAddress
<1>1. CASE UNCHANGED <<ip_usage, handshake_states_, active_clients_>>
  BY <1>1, StillFound DEF HandshakeAddress, SessionAddress
<1>2. ASSUME NEW pc, ServerProcessEnds(pc) PROVE UsedAddressKnown'
  BY <1>2 DEF ServerProcessEnds, UsedAddressKnown, Allocatable
<1>3. CASE HandleClientHelloCrypto
  <2>1. PICK t \in Attempt, e \in SessionConfig :
          /\ handshake_states_[t] = None
          /\ handshake_states_' = [handshake_states_ EXCEPT ![t] = e]
          /\ UNCHANGED <<ip_usage, active_clients_>>
    BY <1>3, <1>c, HelloCryptoEffects
  <2>2. \A id \in Id : /\ SessionAddress(id)' = SessionAddress(id)
                       /\ \/ HandshakeAddress(id)' = HandshakeAddress(id)
                          \/ HandshakeAddress(id) = NoAddress
    BY <1>t, <2>1 DEF SessionAddress, HandshakeAddress, AddressOf
  <2> QED
    BY <1>z, <2>1, <2>2, StillFound
<1>4. CASE HandleClientHello
  <2>1. PICK t \in Attempt, ip \in Address \cup {NoAddress}, mode \in Mode :
          /\ ~AckExpected(OwnId(t)) /\ allocate_ip(ip)
          /\ handshake_states_' =
               [handshake_states_ EXCEPT ![OwnId(t)] = Offer(t, ip, mode)]
          /\ UNCHANGED active_clients_
    BY <1>4, <1>c, HelloEffects
  <2>2. PICK o \in Id : o = OwnId(t)
    BY OwnIds
  <2>3. HandshakeAddress(o) = NoAddress
    BY <2>1, <2>2 DEF HandshakeAddress, AddressOf, Ready, TrustedInv,
       ServiceInv, OfferRight
  <2>4. \A id \in Id : /\ SessionAddress(id)' = SessionAddress(id)
                       /\ id # o => HandshakeAddress(id)' = HandshakeAddress(id)
    BY <1>t, <2>1, <2>2 DEF SessionAddress, HandshakeAddress, AddressOf
  <2>5. HandshakeAddress(o)' = ip
    <3>1. handshake_states_'[o] = Offer(t, ip, mode)
      BY <1>t, <2>1, <2>2
    <3>2. Offer(t, ip, mode) \in SessionConfig /\ Offer(t, ip, mode).client_address = ip
      BY DEF Offer, SessionConfig
    <3> QED
      BY <3>1, <3>2, NoneEntries DEF HandshakeAddress, AddressOf
  <2>6. \A i \in Allocatable : ip_usage'[i] => ip_usage[i] \/ i + 1 = ip
    <3>1. CASE ip \in Address
      <4>1. ip_usage' = [ip_usage EXCEPT ![ip - 1] = TRUE]
        BY <1>t, <2>1, <3>1, AllocateAddress
      <4>2. \A i \in Allocatable : i + 1 # ip => i # ip - 1
        BY <3>1 DEF Address, Allocatable, Slot
      <4> QED
        BY <1>t, <4>1, <4>2 DEF PoolTypeOK, Allocatable
    <3>2. CASE ip = NoAddress
      BY <1>t, <2>1, <3>2, AllocateNothing
    <3> QED
      BY <3>1, <3>2
  <2> QED
    BY <1>z, <2>3, <2>4, <2>5, <2>6, StillFound
<1>5. CASE FinishClientAck
  <2>1. PICK t \in Attempt :
          /\ Offered(t)
          /\ active_clients_' =
               [active_clients_ EXCEPT ![OwnId(t)] = handshake_states_[OwnId(t)]]
          /\ handshake_states_' =
               [handshake_states_ EXCEPT ![OwnId(t)] = DefaultEntry]
          /\ UNCHANGED ip_usage
    BY <1>5, <1>c, FinishEffects
  <2>2. OwnId(t) = t /\ active_clients_[t] = None /\ t \in Id
    BY <2>1, FirstSession, Identifiers
  <2>3. \A id \in Id : id # t =>
          /\ SessionAddress(id)' = SessionAddress(id)
          /\ HandshakeAddress(id)' = HandshakeAddress(id)
    BY <1>t, <2>1, <2>2 DEF SessionAddress, HandshakeAddress, AddressOf
  <2>4. /\ SessionAddress(t) = NoAddress
        /\ SessionAddress(t)' = HandshakeAddress(t)
    BY <1>t, <2>1, <2>2 DEF SessionAddress, HandshakeAddress, AddressOf
  <2> QED
    BY <1>z, <2>1, <2>3, <2>4, StillFound
<1>6. CASE HandleSessionTermination
  <2>1. PICK t \in Attempt :
          /\ active_clients_' = [active_clients_ EXCEPT ![OwnId(t)] = None]
          /\ release_ip(active_clients_[OwnId(t)].client_address)
          /\ Established(t)
          /\ UNCHANGED handshake_states_
    BY <1>6, <1>c, TerminationEffects
  <2>2. PICK o \in Id : o = OwnId(t)
    BY OwnIds
  <2>3. PICK ip \in Address \cup {NoAddress} :
          release_ip(ip) /\ SessionAddress(o) = ip
    BY <1>t, <2>1, <2>2, AddressTyped
    DEF Established, has_session, SessionAddress, AddressOf
  <2>4. \A id \in Id : /\ HandshakeAddress(id)' = HandshakeAddress(id)
                       /\ id # o => SessionAddress(id)' = SessionAddress(id)
    BY <1>t, <2>1, <2>2 DEF SessionAddress, HandshakeAddress, AddressOf
  <2>5. \A i \in Allocatable : ip_usage'[i] => ip_usage[i] /\ i + 1 # ip
    <3>1. CASE ip \in Address
      <4>1. ip_usage' = [ip_usage EXCEPT ![ip - 1] = FALSE]
        BY <1>t, <2>3, <3>1, ReleaseAddress
      <4>2. \A i \in Allocatable : i + 1 = ip => i = ip - 1
        BY <3>1 DEF Address, Allocatable, Slot
      <4> QED
        BY <1>t, <4>1, <4>2 DEF PoolTypeOK, Allocatable
    <3>2. CASE ip = NoAddress
      <4>1. ip \notin Address /\ ip \in Int
        BY <3>2 DEF Address, NoAddress
      <4> QED
        BY <1>t, <1>z, <2>3, <3>2, <4>1, ReleaseElsewhere
    <3> QED
      BY <3>1, <3>2
  <2> QED
    BY <1>z, <2>3, <2>4, <2>5, StillFound
<1> QED
  BY <1>1, <1>2, <1>3, <1>4, <1>5, <1>6
  DEF ServerStep, ServerLoop, StartServer, StopServer, KillServer,
      RejectClientHello, HandleClientAck, RejectClientAck,
      IgnoreSessionTermination, ThrowUndecryptable, ThrowCannotSeal,
      ThrowAckMismatch, serverVars, memoryVars

(***************************************************************************)
(* With encryption, whatever allocate_ip() handed out and nobody released  *)
(* is written down in a handshake or in a session.                         *)
(***************************************************************************)
THEOREM NothingLost == ServerEncrypts => (Spec => []UsedAddressKnown)
<1> SUFFICES ASSUME ServerEncrypts PROVE Spec => []UsedAddressKnown
  OBVIOUS
<1>1. Init => UsedAddressKnown
  BY DEF Init, ServerInit, PoolInit, UsedAddressKnown, Allocatable
<1>2. IInv /\ ModeInv /\ AttemptsInv /\ UsedAddressKnown /\ [Next]_vars
      => UsedAddressKnown'
  <2> SUFFICES ASSUME IInv, ModeInv, AttemptsInv, UsedAddressKnown, [Next]_vars
               PROVE  UsedAddressKnown'
    OBVIOUS
  <2>1. Ready
    BY ReadyWhenTrusted DEF Trusted
  <2>2. CASE UNCHANGED serverVars
    BY <2>2, StillFound
    DEF serverVars, memoryVars, HandshakeAddress, SessionAddress
  <2> QED
    BY <2>1, <2>2, AddressFound DEF Next, ClientStep, vars
<1> QED
  BY <1>1, <1>2, ReadyHolds, PTL DEF Spec

-----------------------------------------------------------------------------
(***************************************************************************)
(* A client that is active is served from the moment on at which the       *)
(* server has handled its ClientACK, as long as the server runs for the    *)
(* first time and, without encryption, no client has adopted an answer to  *)
(* another attempt.                                                        *)
(***************************************************************************)
ServedWhenDone ==
  \A c \in Clients :
    cpc[c] = "active" /\ NeverRestarted /\ Trusted =>
      (Served(c) <=> Done(c, Nth(attempt(c), 2)))

LEMMA ServedAsDone ==
  ASSUME IInv, ModeInv, AttemptsInv
  PROVE  ServedWhenDone
<1> SUFFICES ASSUME NEW c \in Clients, cpc[c] = "active", NeverRestarted,
                    Trusted
             PROVE  Served(c) <=> Done(c, Nth(attempt(c), 2))
  BY DEF ServedWhenDone
<1>1. Ready
  BY ReadyWhenTrusted
<1>2. PICK t : t = attempt(c)
  OBVIOUS
<1>3. /\ t \in Attempt /\ t[1] = c /\ OwnId(t) \in Id
      /\ session_config_[c].client_id = OwnId(t)
      /\ Offered(t) => Agrees(c, handshake_states_[OwnId(t)])
      /\ Established(t) => /\ Agrees(c, active_clients_[OwnId(t)])
                           /\ Wired(OwnId(t))
      /\ Pursued(t)
  BY <1>1, <1>2, Agreement
<1>4. /\ Inv /\ OfferRight(OwnId(t)) /\ SessionRight(OwnId(t))
      /\ EstablishingInv /\ session_config_[c].session_id = t
  BY <1>1, <1>2, <1>3 DEF Ready, IInv, TrustedInv, ServiceInv, ClientsInv,
     ClientRight
<1>5. ASSUME Served(c) PROVE Done(c, Nth(t, 2))
  <2>1. OwnId(t)[1] = c /\ OwnId(t) # None
    BY <1>3, OwnIds, NoneAssumption
  <2>2. CASE establishing = OwnId(t) /\ Agrees(c, handshake_states_[OwnId(t)])
    <3>1. handshake_states_[OwnId(t)].session_id = t
      BY <1>4, <2>2 DEF Agrees
    <3>2. AckExpected(OwnId(t))
      BY <1>4, <2>1, <2>2 DEF EstablishingInv
    <3> QED
      BY <1>4, <2>1, <2>2, <3>1, <3>2 DEF OfferRight
  <2>3. CASE Agrees(c, active_clients_[OwnId(t)])
    <3>1. /\ active_clients_[OwnId(t)] # None
          /\ active_clients_[OwnId(t)].session_id = t
      BY <1>4, <2>3 DEF Agrees
    <3> QED
      BY <1>4, <2>1, <3>1 DEF SessionRight
  <2> QED
    BY <1>3, <1>5, <2>2, <2>3 DEF Served
<1>6. ASSUME Done(c, Nth(t, 2)) PROVE Served(c)
  <2>1. ASSUME NEW m \in Pending, AckOf(t, m) PROVE FALSE
    <3>1. Place(m) = Nth(t, 2) /\ Sender(m) = t
      BY <1>4, <2>1, PendingTyped, ClientMessages DEF AckOf, Inv
    <3>2. Nth(t, 2) < Place(m)
      BY <1>3, <1>6, <3>1 DEF Done
    <3> QED
      BY <1>3, <3>1, <3>2, Places
  <2>2. Established(t) \/ (Offered(t) /\ establishing = OwnId(t))
    BY <1>3, <2>1 DEF Pursued
  <2>3. \/ establishing = OwnId(t) /\ Agrees(c, handshake_states_[OwnId(t)])
        \/ Agrees(c, active_clients_[OwnId(t)]) /\ Wired(OwnId(t))
    BY <1>3, <2>2
  <2> QED
    BY <1>3, <2>3 DEF Served
<1> QED
  BY <1>2, <1>5, <1>6

\* What satisfies the last wait is the answer to the client's own ClientACK,
\* which the server has handled, then.
LEMMA OwnAck ==
  ASSUME Ready, NEW c \in Clients, ReceiveServerAck(c)
  PROVE  Done(c, Nth(attempt(c), 2))
<1>1. Inv /\ ChannelTypeOK /\ cpc[c] = "wait_ack" /\ inbox[c] # <<>>
  BY DEF Ready, IInv, Inv, ReceiveServerAck
<1>2. PICK r : r = Head(inbox[c])
  OBVIOUS
<1>3. PICK t \in Attempt : t = attempt(c) /\ t[1] = c
  BY <1>1, AttemptTyped DEF attempt
<1>4. /\ r \in ServerMessage /\ r \in Received(c) /\ AnswerRight(c, r)
      /\ Readable(c, r, ServerACKFields)
      /\ Plain(c, r).handshake_identifier = t
      /\ ~HelloTo(c, r)
  BY <1>1, <1>2, <1>3, ReceivedTyped, NoneToRead
  DEF Ready, TrustedInv, AnswersInv, ReceiveServerAck, Acknowledges
<1>5. Text(r) = Plain(c, r) /\ Text(r) \in ServerHellos \cup ServerACKs
  <2>1. CASE c \in EncryptedClients
    <3>1. r \in Wrappers(ServerHellos \cup ServerACKs)
      <4>1. "encrypted_payload" \in DOMAIN r
        BY <1>4, <2>1 DEF Readable, ParsesAs, EncryptedWrapperFields
      <4> QED
        BY <1>4, <4>1
        DEF ServerMessage, ServerHelloCryptos, ServerHellos, ServerACKs
    <3> QED
      BY <2>1, <3>1 DEF Wrappers, Plain, Text
  <2>2. CASE c \notin EncryptedClients
    <3>1. "handshake_identifier" \in DOMAIN r
      BY <1>4, <2>2 DEF Readable, ParsesAs, ServerACKFields
    <3>2. r \in ServerHellos \cup ServerACKs
      BY <1>4, <3>1 DEF ServerMessage, ServerHelloCryptos, Wrappers
    <3> QED
      BY <2>2, <3>2 DEF ServerHellos, ServerACKs, Plain, Text
  <2> QED
    BY <2>1, <2>2
<1>6. IsServerAck(r)
  <2>1. IsServerHello(r) \/ IsServerAck(r)
    BY <1>5 DEF ServerHellos, ServerACKs, IsServerHello, IsServerAck
  <2> QED
    BY <1>3, <1>4, <1>5, <2>1 DEF HelloTo
<1> QED
  BY <1>3, <1>4, <1>5, <1>6 DEF AnswerRight

\* How a client becomes, or stays, active.
LEMMA HowActive ==
  ASSUME Inv, NEW c \in Clients, Next, cpc'[c] = "active"
  PROVE  \/ cpc[c] = "active" /\ attempt(c)' = attempt(c)
         \/ ReceiveServerAck(c) /\ ClientStep(c)
         \/ "timeout" \in Faults /\ cpc[c] = "wait_ack" /\ inbox[c] = <<>>
<1>1. ASSUME ServerStep PROVE cpc[c] = "active" /\ attempt(c)' = attempt(c)
  BY <1>1 DEF ServerStep, clientVars, attempt
<1>2. ASSUME NEW d \in Clients, ClientStep(d), c # d
      PROVE  cpc[c] = "active" /\ attempt(c)' = attempt(c)
  BY <1>2, SentByClient
<1>3. ASSUME ClientStep(c)
      PROVE  \/ ReceiveServerAck(c)
             \/ "timeout" \in Faults /\ cpc[c] = "wait_ack" /\ inbox[c] = <<>>
  <2>1. cpc \in [Clients -> {"off", "connected", "active"} \cup Waiting]
    BY DEF Inv, ClientInv, ClientTypeOK
  <2>2. ~ProcessEnds(c)
    BY <2>1 DEF ProcessEnds
  <2>3. /\ ~ConnectCommandChannel(c) /\ ~SendClientHelloCrypto(c)
        /\ ~SendClientHello(c) /\ ~ReceiveServerHelloCrypto(c)
        /\ ~ReceiveServerHello(c)
    BY <2>1 DEF ConnectCommandChannel, SendClientHelloCrypto, SendClientHello,
       ReceiveServerHelloCrypto, ReceiveServerHello
  <2> QED
    BY <1>3, <2>2, <2>3 DEF ClientStep, SetupStep, Timeout, AckTimeout,
       HelloTimeout, ThrowUnusable, StopTunnel, Crash
<1> QED
  BY <1>1, <1>2, <1>3 DEF Next

\* The steps of a server that goes on take messages out of its queue only.
LEMMA ServerForward ==
  ASSUME Inv, ProcessInv, ServerStep, NeverRestarted', NEW c \in Clients,
         cpc[c] \in {"wait_ack", "active"}
  PROVE  NeverRestarted /\ Forward
<1>c. UNCHANGED clientVars
  BY DEF ServerStep
<1>1. ASSUME StartServer PROVE FALSE
  <2>1. server_starts \in Nat /\ server_starts' = server_starts + 1
    BY <1>1, ServerAssumption DEF StartServer, Inv, ServerInv, ServerTypeOK
  <2>2. server_starts = 0
    BY <2>1 DEF NeverRestarted
  <2>3. \A d \in Clients :
          server_starts = 0 => cpc[d] \notin {"wait_ack", "active"}
    BY DEF ProcessInv
  <2> QED
    BY <2>2, <2>3
<1>2. ASSUME NEW pc \in {"down", "failed"}, ServerProcessEnds(pc) PROVE FALSE
  BY <1>2 DEF ServerProcessEnds, NeverRestarted
<1>3. /\ UNCHANGED <<serverPc, server_starts>>
      /\ UNCHANGED rx \/ (rx # <<>> /\ rx' = Tail(rx))
  BY <1>1, <1>2
  DEF ServerStep, ServerLoop, StopServer, KillServer, HandleClientHelloCrypto,
      HandleClientHello, RejectClientHello, HandleClientAck, FinishClientAck,
      RejectClientAck, HandleSessionTermination, IgnoreSessionTermination,
      ThrowUndecryptable, ThrowCannotSeal, ThrowAckMismatch, Handles, Consumes,
      serverVars, channelVars
<1>4. Pending' \subseteq Pending
  BY <1>3, PendingRead DEF Inv, Pending
<1>5. \A d \in Clients : Sent(d)' = Sent(d) /\ Sent(d) \in Int
  BY <1>c, SentTyped DEF clientVars, Sent
<1> QED
  BY <1>3, <1>4, <1>5 DEF NeverRestarted, Forward

LEMMA ServedNext ==
  ASSUME IInv, Inv', ModeInv, AttemptsInv, ServedWhenDone, ServedWhenDone', Next,
         NEW c \in Clients, cpc'[c] = "active", NeverRestarted', Trusted'
  PROVE  /\ cpc[c] = "active" => NeverRestarted /\ Trusted
         /\ ReceiveServerAck(c) /\ ClientStep(c) => Served(c)'
         /\ cpc[c] = "active" /\ Served(c) => Served(c)'
<1> USE DEF IInv
<1>1. /\ cpc[c] \in {"wait_ack", "active"}
      /\ ReceiveServerAck(c) => cpc[c] = "wait_ack"
  BY HowActive DEF ReceiveServerAck
<1>2. NeverRestarted /\ Trusted /\ Ready /\ Forward
  <2>1. ASSUME ServerStep PROVE NeverRestarted /\ Trusted /\ Forward
    BY <1>1, <2>1, ServerForward DEF AttemptsInv, ServerStep, clientVars, Trusted
  <2>2. ASSUME NEW d \in Clients, ClientStep(d)
        PROVE  NeverRestarted /\ Trusted /\ Forward
    <3>1. NeverRestarted /\ Trusted
      BY <2>2, ClientFrame DEF serverVars, NeverRestarted, Trusted
    <3>2. Ready
      BY <3>1, ReadyWhenTrusted
    <3> QED
      BY <2>2, <3>1, <3>2, ClientStepRight
  <2> QED
    BY <2>1, <2>2, ReadyWhenTrusted DEF Next
<1>3. PICK t : t = attempt(c)
  OBVIOUS
<1>4. t \in Attempt /\ Nth(t, 2) \in Int
  BY <1>1, <1>3, AttemptTyped, Places
<1>5. Done(c, Nth(t, 2)) => Done(c, Nth(t, 2))'
  BY <1>2, <1>4, DoneKept
<1>6. t = attempt(c)'
  <2>1. ASSUME ReceiveServerAck(c) PROVE UNCHANGED starts
    BY <2>1 DEF ReceiveServerAck, BecomesActive
  <2>2. "timeout" \in Faults /\ cpc[c] = "wait_ack" => attempt(c)' = attempt(c)
    <3>1. ASSUME NEW d \in Clients, ClientStep(d), cpc[c] = "wait_ack"
          PROVE  attempt(c)' = attempt(c)
      <4>1. cpc \in [Clients -> {"off", "connected", "active"} \cup Waiting]
        BY DEF Inv, ClientInv, ClientTypeOK
      <4> QED
        BY <3>1, <4>1, ClientMoves DEF Starts, GoesOn, Ends, attempt
    <3> QED
      BY <3>1 DEF Next, ServerStep, clientVars, attempt
  <2> QED
    BY <1>3, <2>1, <2>2, HowActive DEF attempt
<1>7. Served(c)' <=> Done(c, Nth(t, 2))'
  <2>1. Served(c)' <=> Done(c, Nth(attempt(c), 2))'
    BY DEF ServedWhenDone
  <2> QED
    BY <1>6, <2>1 DEF Done, Nth
<1>8. cpc[c] = "active" => (Served(c) <=> Done(c, Nth(t, 2)))
  BY <1>2, <1>3 DEF ServedWhenDone
<1>9. ReceiveServerAck(c) => Done(c, Nth(t, 2))
  BY <1>2, <1>3, OwnAck
<1> QED
  BY <1>2, <1>5, <1>7, <1>8, <1>9

LEMMA ServedHolds == Spec => [](IInv /\ ModeInv /\ AttemptsInv /\ ServedWhenDone)
BY ReadyHolds, ServedAsDone, PTL

(***************************************************************************)
(* A client that becomes active by a message that it received is served    *)
(* from then on for as long as it is active and the first run of the       *)
(* server goes on; without encryption, unless a client has adopted an      *)
(* answer to another attempt.                                              *)
(***************************************************************************)
THEOREM ServedOnce == Spec => ServedOnceAcknowledged
<1>1. /\ IInv /\ ModeInv /\ AttemptsInv /\ ServedWhenDone
      /\ IInv' /\ ServedWhenDone' /\ [Next]_vars
      => [\A c \in Clients :
            /\ cpc'[c] = "active"
            /\ NeverRestarted' /\ Trusted'
            /\ \/ cpc[c] = "wait_ack" /\ inbox[c] # <<>>
               \/ cpc[c] = "active" /\ Served(c)
            => Served(c)']_vars
  <2> SUFFICES ASSUME IInv, ModeInv, AttemptsInv, ServedWhenDone, IInv',
                      ServedWhenDone', Next, NEW c \in Clients,
                      cpc'[c] = "active", NeverRestarted', Trusted',
                      \/ cpc[c] = "wait_ack" /\ inbox[c] # <<>>
                      \/ cpc[c] = "active" /\ Served(c)
               PROVE  Served(c)'
    OBVIOUS
  <2>1. Inv /\ Inv'
    BY DEF IInv
  <2> QED
    BY <2>1, ServedNext, HowActive
<1> QED
  BY <1>1, ServedHolds, PTL DEF Spec, ServedOnceAcknowledged
=============================================================================
