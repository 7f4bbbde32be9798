# Verification of the MQTT tunnel

`mqtt_tunnel` carries IP packets between a client and a server over an MQTT
broker. This directory holds TLA+ modules of its control plane, its data plane
and the life of its process, the TLC configurations that check them on small
instances, and proofs that TLAPS checks for every value of the constants. Line numbers refer to `src/src/`.

## 1. Inventory

| Part | State | Operations | Correct means |
|---|---|---|---|
| **IPPool** (`ip_pool.*`) | one used flag per slot | `allocate_ip`, `release_ip`, `count_allocated`, each under the pool's mutex | one holder per address, nothing lost, a refusal only when all are held |
| **SessionMap** (`SessionMap.hpp`) | session by identifier | `add_session`, `get_session`, `get_session_by_ip`, `remove_session`, under a mutex | one session per address |
| **Messages** (`messages.h`, `types.hpp`) | – | serialisation as JSON; a reader asks for the fields it needs and never for the type | a reader that takes a message for another one does not believe something false |
| **Server, control** (`TunnelServer.*`) | `handshake_states_`, `active_clients_`, the pool, keys; routes, iptables rules, data subscriptions in the system | the loop of `start_server`: hello with keys, hello, ACK, termination | sessions, addresses and network configuration agree, with one another and with the clients; no client can stop the loop |
| **Client, control** (`TunnelClient.*`) | identifier, session configuration, key, last response | `start_tunnel`, `setup_session` with three waits, `stop_tunnel` | active only with a session the server has down for it; never stuck |
| **Session keys** (`CryptoManager.*`) | `session_map_` on each side | key agreement, `encrypt_data`, `decrypt_data` | both sides have the same key under the same identifier |
| **Command channel** (`MQTTChannels.*`, broker) | a queue per process | publish on `_RX` (read by the server) and `_TX` (read by every client) | – (external) |
| **Data plane** (`async_tun_read` twice, `TunCallback`, `TunDevice`) | buffers, packets under way | TUN to MQTT, MQTT to TUN, in threads of their own | a packet reaches the client that has its address; the receiver of a packet of a session has its key |
| **Topics** (`helpers.h`) | – | identifier out of a topic | inverse of what the server builds |
| **Server identity** (`CryptoManager.cpp` 131-154, 218-253) | two files, one on the client | create, store, load, pin | the key that clients pinned survives a crash |
| **main, builders** | run flag | options, SIGINT, catch, destruction of the objects | SIGINT ends the process; threads are joined, the goodbye is said, no callback meets a destroyed object |

**Interaction.** The server's control side is one thread: it polls the queue of
the command channel every 100 ms and works a message off completely. The client
runs `setup_session()` as straight-line code that publishes and then polls its
queue, up to three times a second apart. All clients share the answer topic. The
data plane threads share `active_clients_` (locked) and `session_map_` (not
locked) with the control thread. An exception that leaves a handler goes to
`main()`, which ends the process; one that leaves a thread or a destructor aborts
it. What outlives a process is the two files of the server's identity, iptables
rules, and what its clients believe.

**What is hard.** Answers on a shared topic that reach the wrong client; waits
that run out while the answer is under way; handshakes given up half-way, by a
crash or a time limit, and begun again; the same identifier used by several runs
(without encryption); an answer sent before what it announces is in place; the
end of the server while clients go on; the pool at its limit; packets that are
sealed, under way or arrive after their session; a map without a lock; a crash
between two files; a stop in any phase of start and shutdown, and a connection to
the broker lost in any of them. PROJECT.json lists
each hazard at its line.

## 2. The modules

| Module | What it is |
|---|---|
| `IPPool` | the pool: flags, slot and address arithmetic |
| `AddressPool` | what a pool promises (abstract) |
| `PoolLeases` | the pool with the books of its callers, refining `AddressPool` |
| `Messages` | identifiers, keys, messages, what a reader requires |
| `CommandChannel` | broker and queues (external) |
| `SessionMap` | `active_clients_` |
| `TunnelServer` | the server's loop and handlers |
| `TunnelClient` | the client program |
| `MQTTTunnel` | server, clients and channel together; properties; fairness |
| `Attempts` | what queues and memories tell of the attempts of the clients: the inductive invariant behind the properties of `MQTTTunnel` |
| `SessionService` | what the server is to identifiers and addresses (abstract); `MQTTTunnel` implements it, `DataPlane` builds on it |
| `Topics` | the names of the data topics and the identifier found in them |
| `DataPlane` | packets, TUN readers and callbacks, next to the session service |
| `IdentityStore` | the two files of the server's identity, and what clients pinned |
| `TunnelThreads` | one process: main thread, TUN reader, the two connections |
| `ProgramLife` | identity and threads together, run after run |
| `MCMQTTTunnel`, `MCDataPlane` | symmetry and topic names for TLC |
| `IPPool_proofs` | lemmas |
| `PoolLeases_proofs`, `MQTTTunnel_proofs`, `SessionService_proofs`, `Handshake_proofs`, `Attempts_proofs`, `DataPlane_proofs`, `ProgramLife_proofs` | theorems |

Names follow the code: `handshake_states_`, `allocate_ip`, `session_config_`.
Definitions with an underscore and a suffix that are marked *Mutant* are the
faults the properties are measured against; no specification uses them.

### Server

`serverPc` is the process. The actions are the branches of the loop:

| Code | Action |
|---|---|
| 173-196 `CLIENT_HELLO_CRYPTO` | `HandleClientHelloCrypto` |
| 198-271 `CLIENT_HELLO` | `HandleClientHello`, `RejectClientHello` (208-212), `ThrowCannotSeal` (256) |
| 273-337 `CLIENT_ACK` | `HandleClientAck` up to 312, `FinishClientAck` from 314, `RejectClientAck` (279-283), `ThrowAckMismatch` (285) |
| 76-105 `SESSION_TERMINATION` | `HandleSessionTermination`, `IgnoreSessionTermination` |
| 107-123 `ENCRYPTED_WRAPPER` | `payload` in each of them, `ThrowUndecryptable` |
| 60, 135, SIGINT | `StopServer` |
| the process is killed | `KillServer` |
| 13-57 | `StartServer` |

Only one handler is cut in two: the ACK's, after the ServerACK is published
(310), because the client can run on from there, and the server be killed, while
route, rule, subscription and session are all still missing. `establishing` holds
the identifier in between. In all others nothing another process could see happens
between two of their effects (the thread is alone with its state, and each
publishes at most once). A kill in the middle of the second half leaves no more
behind than one at either end of it: of what it changes only the rule outlives the
process.

`unique_identifier` and the session identifier contain a time stamp, the
handshake identifier and the keys are random. The model names them by the run of
the client they belong to: `<<c, n>>` for the n-th run of client c, `<<c, 0>>`
for the bare identifier. Two draws are never equal.

When the server ends it loses its memory, tun0 with its routes and its
subscriptions; iptables rules (`nat`) stay. `nat` is a set: a rule appended twice
is one element, which matters to no property, because the deletion never finds a
rule (see below). The FORWARD rules, the configuration of tun0 and the sysctl are
left out.

`HANDSHAKE_CLIENT_HELLO` and `CONNECTION` are 0, the value `operator[]` gives a
new entry (`DefaultEntry`). `release_ip()` accepts one address past the last slot
and writes a slot that does not exist (`ip_pool.cpp` 50). At the program's size,
253, that is a padding bit of the `vector<bool>`, and the model changes nothing
there; where the size is a multiple of 64 there is no padding, the write is
undefined, and `PoolLeases` does not make the call. The server never does: it
releases what it allocated.

### Client

`cpc` is where the program is: `off`, `connected`, one of three waits, `active`.
What lies between two waits is one action, with the publish in it.

A wait polls three times and gives up. In the model it may give up whenever the
queue is empty: what arrives after the last poll is never read, so nothing
distinguishes an arrival after the wait from one during it. `response` is kept
through the last wait, as in the code: `AckTimeout` uses the ServerHello in it.

A reader is faithful about what it does *not* check: `ParsesAs` says that a
message has the fields a struct needs, and that is all `from_string()` looks at.
A wrapper opens with the key it was sealed with. The signature of a
ServerHelloCrypto covers only the server's key, and every client accepts it.

An active client stays connected but never reads its queue again: the model
takes it off `listeners`.

`crosstalk` is not in the code. It remembers that some client adopted the answer
to an attempt that is not its own present one, be it another client's or an
earlier run's of its own, so that properties can say what holds otherwise.
`Trusted` is: the server encrypts, or there was no such adoption.

### Channel

QoS 1 with a synchronous publish, clean sessions, no reconnect: every message
reaches, once and in order, the queue of each process subscribed at the time. A
process that loses its connection is the matter of `TunnelThreads`; for the others
it is as good as crashed, or stopped.

### Session service

`SessionService` has no messages and no handlers: an identifier gets a key
(`GrantKey`), is made an offer of an address nobody holds (`Offer`), the offer
becomes a session (`Establish`), the end of the session frees the address
(`Terminate`), and the end of the server takes all of it (`EndOfService`). In
`MQTTTunnel` the mapping reads these out of the code's state: `Keyed` from
`session_map_`, `Held` from the pool's flags, `Offers` from the entries of
`handshake_states_` that wait for a ClientACK, `Sessions` from `active_clients_`.
A handler is one step of the service or none; a ClientACK's establishes in its
second half. An address of a session that is overwritten (331) stays held.

### Data plane

| Code | Action |
|---|---|
| CryptoManager.cpp 156-195, the insertion at 192 | `BeginKey`, `EndKey` |
| TunnelServer.cpp 198-271, 314-334, 76-105 | `AnswerHello`, `EstablishSession`, `EndSession` |
| TunnelServer.cpp 386-408, up to the copy of the session | `ReadPacket` |
| TunnelServer.cpp 410-436 | `PublishPacket`, or `LosePacket` when it fails or QoS 0 loses it |
| TunnelClient.cpp 313-323 | `OpenTunnel` |
| TunnelClient.cpp 325-363 | `SendPacket` |
| TunnelClient.cpp 29-52, or a crash | `CloseTunnel`, `ClientCrashes` |
| TunCallback.cpp 12-45 | `ServerReceives`, `ClientReceives`; `ServerWrites` and `ClientWrites` say whether the packet is written or dropped |

The control thread is the session service, with the encrypted mode's identifiers,
one per run of a client. Of the handshake only what it leaves behind is here: a
client opens the tunnel it was offered, before or after the server has read its
ClientACK, and never takes another's answer (that it may is `foreign_topics`). A
packet to a client is the identifier whose topic and key it uses and the address
it is for; one to the server is the identifier only, because the client publishes
whatever it reads from its TUN device and nobody looks at the source. The reader's copy of the session lives between two actions, so that the
session can end, its address go to somebody else and the client come back in
between. `session_map_` has no lock: an insertion is two steps, and a look-up
between them may hit, miss (the packet is dropped) or end the process
(`ServerRestarts`); these are the outcomes of the race that the model knows.
Terminations are a set, because they come over another connection than the
packets and in no order with them.

A topic is the sequence of its levels. `--command-topic` and `--client-id` may
contain slashes: `CommandTopics` and `SlashedClients` say which. `Found` compares
what `extract_client_id_from_topic()` returns with what the key is stored under.

### Identity and threads

`IdentityStore` numbers the identities that are drawn. A file is the identity it
holds half of, or 0 if it is missing or short, which loading does not tell apart.
Opening with `trunc` empties a file, closing it fills it, or fails to, which
nobody notices since the stream is tested before (CryptoManager.cpp 238-242); the
process may die between any two steps (`IdentityForgotten`). Losing or damaging a file and
pinning are the users' steps.

`TunnelThreads` is one process, server or client. `main` is where the main thread
is:

| Code | `main` |
|---|---|
| construction (TunDevice.cpp 5-49 decides whether `read()` may block) | `construct` |
| TunnelServer.cpp 41-46, TunnelClient.cpp 19-26 | `connect_command`, `setup` (client), `connect_data`, `start` |
| TunnelServer.cpp 60-133, main.cpp 90-92 | `loop` |
| TunnelServer.cpp 140-161, TunnelClient.cpp 29-52 | `join`, `terminate` (client), `disconnect_command` (server), `disconnect_data` |
| destructors of the members, last one first | `destroy`, `destroy_channels` |

`Throw` is an exception on its way to main.cpp 108: on the server `~TunnelServer`
runs `stop_server()` once more, on the client the members are destroyed as they
are. A thread object not joined by then, an exception out of a destructor and one
out of the TUN reader end in `aborted`. A lost connection makes `publish()` and
`disconnect()` throw; the flags `*_channel_connected_` do not notice it. The
reader is `check`, `read`, `publish`; a device whose `fcntl()` failed (`blocking`)
returns from `read()` with a packet only.

`ProgramLife` runs the program again and again over the same files.

## 3. Properties and runs

Runs named `tunnel_*` are of `MCMQTTTunnel`. Bounds: `MaxStarts` runs of each
client, `MaxServerStarts` of the server, `pool_size` slots (n - 1 addresses).
`Faults` says which of time limits, crashes of clients, stops and kills of the
server happen. In `DataPlane` also `MaxQueue`, packets under way to one receiver;
in `ProgramLife` `MaxLives` runs and `MaxIdentities` identities drawn.
Deadlock is checked for the pool only: the others are done when all runs are
used up and the queues are empty.

| Run | Instance | Checked |
|---|---|---|
| `pool_leases` | pool of 7 | flags agree with the callers' books; count; refinement of `AddressPool` |
| `tunnel_encrypted` | 2 clients, 2 runs each, 2 addresses; server started twice; timeouts, crashes, server stopped, failed or killed at any time | addresses exclusive, reserved and known to the server; an active client is reserved at the server; distinct tunnels; what ends the server; terminations hit their own session; who was acknowledged stays served; `AttemptsInv` |
| `tunnel_insecure` | the same without encryption, both tunnel modes, one server run, timeouts and crashes | the same without what fails there (below) |
| `tunnel_live` | 2 clients with encryption and 1 without, server with it, started twice; timeouts | no handshake hangs; terminations take effect; what ends the server; the client without gets no tunnel; refinement of `SessionService` |
| `data_plane` | 2 clients, one with a slash in its name, 2 runs each, 2 addresses, one packet per queue, server started twice | `DataInv`; packets to a client are for it; a packet of a session finds its key |
| `program_life` | server or client, 3 runs, 3 identities, 1 client that pins, both files lost once each | `LifeInv`; identities; joins, goodbye, callbacks; SIGINT ends the process |

Why the bounds are enough: two clients are what a mix-up needs, two runs of each
are what a late message, a stale entry or an overwritten session needs, and with
two addresses the pool runs empty once a handshake was given up and both clients
have one. Two runs of the server let every client meet one that has forgotten it.
In `data_plane` the second client takes over the address of the
first while a packet for it is in the reader, in the queue, or with the client's
next run; a longer queue adds packets to the same few cases. In `program_life`
one run creates an identity, one can die over it, and one meets the rest.

**Fairness.** `FairSpec` has weak fairness of the server's loop (it polls for
ever), of each client's steps in `setup_session()` and, where they are enabled at
all, of the waits' time limits (three polls). Starting and stopping programs is up
to their users, and crashes need not happen: no fairness. A client that is active
need not stop. `FairLifeSpec` has weak fairness of the constructor, of the main
thread and of the reader as long as `read()` returns: every wait in them has a
time limit or ends by an exception. Packets, signals and losses need not come.

**What the exceptions in the properties mean.** They are what the code does not
give, and each is named in the comment of its property.

- `UsedAddressKnown` is checked with encryption only: without it the session of a
  client that comes back is overwritten (331) and its address lost. It does not say
  that an address comes back: that of a handshake given up does not
  (`stranded_address`).
- `ActiveIsReserved`, `ServedOnceAcknowledged`, `OnlyOwnTermination` are said while
  `Trusted`. Without encryption a client that adopted the answer to another attempt
  has the other one's identifier, and ends that one's session by its own termination
  (79-100). The first two also
  end with the server, whose memory they are about. `ServedOnceAcknowledged` starts
  from a client that got its ServerACK as a message, not from one whose wait ran
  out, and counts the rest of the handler that sent it as served.
- `DistinctTunnels` compares addresses from one run of the server only: a restarted
  one hands them out again.
- `ServerOutlivesClients` names the four ways in which a message does end the server
  by an exception: the hello of a client without encryption at a server with it
  (256); a message sealed under the identifier of another attempt, by a client that
  adopted a ServerHelloCrypto not meant for it, or a late one to an earlier run of
  its own (112); a message for an earlier run of the server (112); and, without
  encryption, anything after an answer to another attempt was adopted (285). The
  first three all happen in the runs with encryption; the last is as wide as
  `crosstalk`.
- `LoadedPairMatches` excepts a lost `ServerID.key`: the next start draws an
  identity, and when it dies after the first file, the new secret is next to the old
  public key, which loads without complaint. `PinnedKeyVerifies` excepts any loss.
- `NoCallbackOnGarbage` and `GoodbyeSaid` except a client whose command connection
  is lost: the `publish()` of its termination throws, and the data client is
  destroyed, still connected, after the callback that it calls and what that uses.
  `GoodbyeSaid` and `AbortOnlyOnLoss` except, besides, a reader that is in a
  `publish()` on a lost data connection: nobody catches what it throws, the process
  is aborted, and the server keeps the session.
- `StopsEventually` excepts a TUN device that blocks.
- `PacketsAccepted` is about names without slashes and sessions that exist; a packet
  for the server that arrives during an insertion into `session_map_` may be lost.

### Where the code and what is said of it disagree

| Run | Said | Done |
|---|---|---|
| `no_server_ack` | "Received Server ACK, session handshake complete" (TunnelClient.cpp 261) | the test after the last wait looks at a variable that still holds the ServerHello (240), which also parses as a ServerACK: a client becomes active without one |
| `foreign_topics` | topics are assigned by the client identifier (Ausarbeitung.md 257) | a client takes the first ServerHello on the topic, with another's identifier and topics |
| `default_topic` | packets are exchanged on `mqtt_tunnel/commands/<client-id>/A` (Ausarbeitung.md 272) | under this command topic, the default, the callback finds `commands` for the identifier (helpers.h 34) and drops every packet |
| `baseline_client` | one server is started for secure and baseline mode, and a client with `--insecure` measured (Ausarbeitung.md 741-747, 436) | the hello of such a client ends a server with encryption by an exception (TunnelServer.cpp 256) |
| `stranded_address` | the server keeps an assignment of client identifiers to tunnel addresses (Ausarbeitung.md 266) | the address of a handshake that was given up stays with its entry, and the client that finds the pool empty becomes active with the address "" (TunnelServer.cpp 216) |
| `closed_session` | the server accepts packets for active sessions only (Ausarbeitung.md 266) | the callback looks at keys and never at sessions (TunCallback.cpp 12); a termination overtakes packets |

The model shows more, without a run of its own. "remove iptables masquerade rule
for gateway mode" (TunnelServer.cpp 92) stands above a command that deletes `/24`,
while the rule added is `/32` (322): it stays (`AddMasquerade`,
`RemoveMasquerade`). The log message after `erase()` (334) puts an empty entry back
(`EraseHandshake`). A pool of n hands out n - 1 addresses (`Allocatable`).

## 4. Proofs

Assumptions, all named: `PoolSizeAssumption` (the constructor's check),
`MaxStartsAssumption`, `ServerAssumption`, `ClientAssumption`,
`DataPlaneAssumption`, `IdentityAssumption`, `LivesAssumption` (types of the
constants), `ProcessAssumption` (the server is no client), `NoneAssumption` (the
absent value is no key, session, configuration, message, address or identifier).
Clients, runs, modes, faults, topics and queue lengths are
arbitrary.

*Pool* (`PoolLeases_proofs`). `UsageMatchesLeases` with the types is inductive.
It gives the type theorem, the count, once slot 0 is known never to be marked
(`GatewayUnused`), and the refinement of `AddressPool`, step by step.

*Types* (`MQTTTunnel_proofs`). `TypeOK` is not inductive: the type of the answer to
a ClientACK needs that the identifier has a key, and the type of what a client
sends needs what it got before. `Inv` adds `AckCanBeSealed` and `ClientProgress`.
Each action has a lemma; the server's steps leave the clients' half alone and
the other way round. `Payload` is the lemma that makes the types of the messages
follow from their identifiers.

*Addresses*. `AddressExclusive` and `AddressReserved` are inductive only together,
on top of `Inv`: a new address belongs to nobody because what others have is marked
in the pool, and a termination leaves the marks of others alone because its
address is nobody else's. `AddressesKept` settles every step that neither
allocates nor releases. The four others (key hello, hello, end of the ACK,
termination) have a lemma each. Both theorems hold with and without encryption,
through mixed-up answers, exceptions and restarts: no such thing can put two
clients on one address of one server process.

*Service* (`SessionService_proofs`). The server implements `SessionService`: the
invariant of the addresses says that an address that is offered is free and that
one that is freed was held, and `EntryStays` that the second half of the ACK's
handler finds the entry its first half answered for. One lemma for each handler
that changes what the service sees; the others stutter. `tunnel_live`
checks the same with encryption, exceptions and a restart; the theorem holds in both
modes, and also for servers stopped or killed at any time.

*Mode* (`Handshake_proofs`). `NoMixedTunnel` follows from `ModeInv`: an answer in a
client's queue, other than a ServerHelloCrypto, is sealed exactly when the server
encrypts, and who waits for a ServerACK has read one. It needs no word
on `crosstalk`, restarts or time limits.

*Packets* (`DataPlane_proofs`). `Ties` are the pairs of identifier and address
anywhere in the system: offered, in a session, in the reader's copy, under way, in
a client. `DataInv` says that an identifier is tied to one address, and
to none while its hello is unread, that a client reads the topic of its latest run
only, and that keys and subscriptions stay. All actions but `AnswerHello` only take
ties away or repeat them. `DeliveredToAddressee` and `PacketsAccepted` follow.

*Process* (`ProgramLife_proofs`). `LifeInv` has two halves, the files with the
identity in memory (`OneIdentity`, `FilesArePinned`) and the threads
(`ThreadPhases`, `Farewell`, which also says where an aborted client's reader was), which meet only where the end of the process forgets
the identity. The five properties follow.

*Attempts* (`Attempts_proofs`). The handlers look at one message at a time. The
server never asks whether an identifier in a message is the sender's, a
termination names a client and the session it ends is not compared, and a hello
overwrites the offer before it. That this is right nevertheless is due to the order
of the queues, so the invariant has to speak of all that is in them. The messages
that a client ever sends have places in one order, four for each run;
`Done(c, n)` says that what c sent up to place n is handled or lost, and holds
for ever once it does (`DoneKept`). `AttemptsInv`, on top of the invariants of
types, addresses and mode, says in these terms

- of a message to the server: its key, identifiers and mode are those of the run
  that sent it (`MessagesInv`);
- of a key, an offer or a session of the server: which attempt it belongs to and up
  to which place that attempt is done (`ServiceInv`);
- of an answer, and of what a client took from it: the same (`AnswersInv`,
  `ClientsInv`);
- that the offer which a client has read or will read stands until its ACK is
  handled, and the session from then on (`PromisesInv`), with one address at both
  ends and another for everybody else (`AddressesInv`).

All but `ProcessInv` (a process that does not run has no queue and no memory) is
said while `Trusted`. With encryption it survives even such an adoption: a client
that took the key of another
attempt gets no further, because the server cannot open what it seals with it. The
lemmas `...Effects` say what a handler does where the invariant holds,
the lemmas `...Right` that it keeps it, and `Elsewhere` settles the identifiers it
does not touch. From `AttemptsInv` follow

| Theorem | Property | Where |
|---|---|---|
| `ActiveReserved` | `ActiveIsReserved` | always |
| `TunnelsDistinct` | `DistinctTunnels` | while `Trusted` |
| `ServerOutlives` | `ServerOutlivesClients` | always |
| `TerminationOwn` | `OnlyOwnTermination` | always |
| `NothingLost` | `UsedAddressKnown` | with encryption; without it an address is lost (section 3) |
| `ServedOnce` | `ServedOnceAcknowledged` | always |

"Always" means for all values of the constants; the exceptions that a property
names itself (section 3) are part of it. `ServerOutlives` rests on two lemmas: a
server fails by one of its three exceptions only (`OnlyByThrow`), and each of them,
where the invariant holds, is one of the four ways (`WhyItThrows`). The last two
theorems need more than the invariant: that what the pool has marked can be found
in a handshake or a session through every handler (`StillFound`), and that served
is what is done up to the ACK (`ServedWhenDone`). `tunnel_encrypted` checks
`AttemptsInv` on its instance.

*Model-checked only*: `HandshakeSettles`, `TerminationTakesEffect` and
`StopsEventually`, which are liveness under fairness and beyond the prover. Every
safety and action property of the passing runs is proved.

## 5. Not modelled

- The data plane without encryption: a callback then writes every packet it gets,
  and there is neither a key nor an identifier to be right about. Clients that
  share an identifier there share a topic, which `foreign_topics` is about.
- Packets that take a wrong turn before they are packets of the tunnel: what a
  client's packets have as their source, which nobody sets or checks, routing in the kernel, fragments,
  the size of the buffers, and the bytes of packets and JSON.
- The command line (CLI11) and the setters of the builders. What they decide are
  constants: `ServerEncrypts`, `EncryptedClients`, `Modes`, `CommandTopics`.
- libsodium: keys and signatures are values that match or do not, and fail in no
  other way.
- The broker's inside, and two processes with one MQTT client identifier, which
  make it close each other's connections in turn.
- A lost connection in the middle of a handshake, message by message. For the
  process it happens to, `TunnelThreads` has it in every phase; for the others it is
  a crash, which `MQTTTunnel` has.
- The queue of an active client's command connection, which grows and is never
  read (TunnelClient.cpp 226): nothing but memory depends on it.
- The `FORWARD` rules, `sysctl` and the configuration of tun0, which are set and
  never looked at, and functions that nothing calls (`HandshakeRST`,
  `generate_server_hello`, `hex_public_key`).

What could follow: `DataPlane` on top of `MQTTTunnel` itself in place of the
service it implements.
