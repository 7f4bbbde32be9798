--------------------------- MODULE TunnelThreads ----------------------------
(***************************************************************************)
(* The life of one process, server or client: main() with its objects, the *)
(* thread that reads the TUN device, the callback thread of the MQTT data  *)
(* client, and the two connections to the broker, either of which may get  *)
(* lost; nothing connects again.  A lost connection makes publish() and    *)
(* disconnect() throw, and puts an empty message into the queue of the     *)
(* command client.                                                         *)
(*                                                                         *)
(* An exception in the TUN reader, an exception out of a destructor and a  *)
(* thread object destroyed before its join() end the process at once.      *)
(***************************************************************************)
EXTENDS Naturals

VARIABLES
  role,            \* "server" or "client"
  blocking,        \* has fcntl() failed, so that read() of tun0 blocks?
  run,             \* the flag that SIGINT clears
  main,            \* where the main thread is
  destructor,      \* is main() in ~TunnelServer?
  tunnel_active_,  \* the flag that ends the reader
  reader,          \* the TUN reader; the callback is set when it is started
  connection,      \* "off", "up" or "lost", of the command and data clients
  terminated       \* has the client published its SessionTermination?

given == <<role, blocking, run>>
threads == <<destructor, tunnel_active_, reader>>
network == <<connection, terminated>>
threadVars == <<given, main, threads, network>>

Link == {"command", "data"}

Gone == {"off", "aborted"}

Disconnected == [l \in Link |-> "off"]

ThreadInit ==
  /\ role \in {"server", "client"}
  /\ blocking = FALSE
  /\ run = TRUE
  /\ main = "off"
  /\ destructor = FALSE
  /\ tunnel_active_ = FALSE
  /\ reader = "none"
  /\ connection = Disconnected
  /\ terminated = FALSE

ThreadTypeOK ==
  /\ role \in {"server", "client"}
  /\ blocking \in BOOLEAN
  /\ run \in BOOLEAN
  /\ main \in Gone \cup
       {"construct", "connect_command", "setup", "connect_data", "start",
        "loop", "join", "terminate", "disconnect_command", "disconnect_data",
        "destroy", "destroy_channels"}
  /\ destructor \in BOOLEAN
  /\ tunnel_active_ \in BOOLEAN
  /\ reader \in {"none", "check", "read", "publish", "ended", "joined"}
  /\ connection \in [Link -> {"off", "up", "lost"}]
  /\ terminated \in BOOLEAN

-----------------------------------------------------------------------------
\* The program is started.  Its first object is the TunDevice.
StartProcess ==
  /\ main \in Gone
  /\ main' = "construct"
  /\ blocking' \in BOOLEAN
  /\ run' = TRUE
  /\ destructor' = FALSE
  /\ tunnel_active_' = FALSE
  /\ reader' = "none"
  /\ connection' = Disconnected
  /\ terminated' = FALSE
  /\ UNCHANGED role

\* exit() and kill end a process without running the destructors of main().
EndProcess ==
  /\ main' = "off"
  /\ reader' = "none"
  /\ connection' = Disconnected
  /\ UNCHANGED <<given, destructor, tunnel_active_, terminated>>

Interrupt ==
  /\ main \notin Gone
  /\ run
  /\ run' = FALSE
  /\ UNCHANGED <<role, blocking, main, threads, network>>

LoseConnection(l) ==
  /\ main \notin Gone
  /\ connection[l] = "up"
  /\ connection' = [connection EXCEPT ![l] = "lost"]
  /\ UNCHANGED <<given, main, threads, terminated>>

-----------------------------------------------------------------------------
\* Mutant: the destructor does not stop the server.
Throw_unstopped ==
  /\ main' = "destroy"
  /\ UNCHANGED <<given, threads, network>>

\* An exception on its way to the handler in main(): the objects of main() are
\* destroyed, and ~TunnelServer begins with stop_server().
Throw ==
  /\ \/ /\ role = "client"
        /\ main' = "destroy"
        /\ UNCHANGED threads
     \/ /\ role = "server" /\ ~destructor
        /\ main' = "join"
        /\ destructor' = TRUE
        /\ tunnel_active_' = FALSE
        /\ UNCHANGED reader
     \/ /\ role = "server" /\ destructor
        /\ main' = "aborted"
        /\ UNCHANGED threads
  /\ UNCHANGED <<given, network>>

\* The main thread goes on at p, and nothing else happens.
GoesTo(p) ==
  /\ main' = p
  /\ UNCHANGED <<given, threads, network>>

\* The client of link connects; main() goes on at p.
Connect(l, p) ==
  \/ /\ connection' = [connection EXCEPT ![l] = "up"]
     /\ main' = p
     /\ UNCHANGED <<given, threads, terminated>>
  \/ Throw

ConnectCommand ==
  /\ main = "connect_command"
  /\ Connect("command", IF role = "client" THEN "setup" ELSE "connect_data")

\* setup_session() of the client ends well, throws, or calls exit().
SetupSession ==
  /\ main = "setup"
  /\ \/ connection["command"] = "up" /\ GoesTo("connect_data")
     \/ Throw
     \/ EndProcess

ConnectData ==
  /\ main = "connect_data"
  /\ Connect("data", "start")

\* set_tun_callback(), and the thread of async_tun_read().
StartReader ==
  /\ main = "start"
  /\ main' = "loop"
  /\ tunnel_active_' = TRUE
  /\ reader' = "check"
  /\ UNCHANGED <<given, destructor, network>>

\* A message of the command channel makes a handler of the server throw.
HandlerThrows ==
  /\ main = "loop"
  /\ role = "server"
  /\ Throw

\* The server uses an empty message like any other.
UseEmptyMessage ==
  /\ main = "loop"
  /\ role = "server"
  /\ connection["command"] = "lost"
  /\ GoesTo("aborted")

\* Mutant: the reader is not told.
LeaveLoop_untold ==
  /\ main = "loop"
  /\ ~run
  /\ GoesTo("join")

\* stop_tunnel(), or stop_server() at the end of start_server()
LeaveLoop ==
  /\ main = "loop"
  /\ ~run
  /\ main' = "join"
  /\ tunnel_active_' = FALSE
  /\ UNCHANGED <<given, destructor, reader, network>>

\* Mutant: the client leaves its data connection first.
AfterJoin_data_first ==
  IF role = "client" THEN "disconnect_data" ELSE "disconnect_command"

AfterJoin == IF role = "client" THEN "terminate" ELSE "disconnect_command"

JoinReader ==
  /\ main = "join"
  /\ reader \in {"none", "ended", "joined"}
  /\ reader' = IF reader = "ended" THEN "joined" ELSE reader
  /\ main' = AfterJoin
  /\ UNCHANGED <<given, destructor, tunnel_active_, network>>

PublishTermination ==
  /\ main = "terminate"
  /\ \/ /\ connection["command"] = "up"
        /\ terminated' = TRUE
        /\ main' = "disconnect_data"
        /\ UNCHANGED <<given, threads, connection>>
     \/ connection["command"] = "lost" /\ Throw

\* The server disconnects what command_channel_connected_ and
\* data_channel_connected_ say, which stay set when a connection is lost.
DisconnectCommand ==
  /\ main = "disconnect_command"
  /\ \/ /\ connection["command"] # "lost"
        /\ connection' = [connection EXCEPT !["command"] = "off"]
        /\ main' = "disconnect_data"
        /\ UNCHANGED <<given, threads, terminated>>
     \/ connection["command"] = "lost" /\ Throw

\* Mutant: disconnect() without wait().
DisconnectData_unwaited ==
  /\ main = "disconnect_data"
  /\ \/ connection["data"] # "lost" /\ GoesTo("destroy")
     \/ connection["data"] = "lost" /\ Throw

\* The end of stop_tunnel() or of stop_server(), which the server calls at the
\* end of start_server() and in its destructor once more.
DisconnectData ==
  /\ main = "disconnect_data"
  /\ \/ /\ connection["data"] # "lost"
        /\ connection' = [connection EXCEPT !["data"] = "off"]
        /\ IF role = "client" \/ destructor
           THEN main' = "destroy" /\ UNCHANGED destructor
           ELSE main' = "join" /\ destructor' = TRUE
        /\ UNCHANGED <<given, tunnel_active_, reader, terminated>>
     \/ connection["data"] = "lost" /\ Throw

\* The members, last one first: the thread, crypto_manager_ and tun_device_,
\* then mqtt_channels_ with the callback in front of the clients that use it.
DestroyTargets ==
  /\ main = "destroy"
  /\ GoesTo(IF reader \in {"none", "joined"} THEN "destroy_channels"
                                             ELSE "aborted")

DestroyChannels ==
  /\ main = "destroy_channels"
  /\ main' = "off"
  /\ connection' = [l \in Link |-> IF connection[l] = "up" THEN "off"
                                                           ELSE connection[l]]
  /\ UNCHANGED <<given, threads, terminated>>

MainStep ==
  \/ ConnectCommand
  \/ SetupSession
  \/ ConnectData
  \/ StartReader
  \/ LeaveLoop
  \/ JoinReader
  \/ PublishTermination
  \/ DisconnectCommand
  \/ DisconnectData
  \/ DestroyTargets
  \/ DestroyChannels

LoopFails == HandlerThrows \/ UseEmptyMessage

-----------------------------------------------------------------------------
\* async_tun_read()
ReaderGoesTo(p) ==
  /\ main \notin Gone
  /\ reader' = p
  /\ UNCHANGED <<given, main, destructor, tunnel_active_, network>>

ReaderChecks ==
  /\ reader = "check"
  /\ ReaderGoesTo(IF tunnel_active_ THEN "read" ELSE "ended")

\* No packet, or an error: it sleeps or not, and goes on.
ReadFails ==
  /\ reader = "read"
  /\ ~blocking
  /\ ReaderGoesTo("check")

\* A packet; the server has none to send without a session.
ReadPacket ==
  /\ reader = "read"
  /\ \/ ReaderGoesTo("publish")
     \/ role = "server" /\ ReaderGoesTo("check")

\* publish(), and on the client the wait for it; nobody catches what it throws.
PublishPacket ==
  /\ reader = "publish"
  /\ \/ connection["data"] = "up" /\ ReaderGoesTo("check")
     \/ /\ connection["data"] # "up"
        /\ main \notin Gone
        /\ GoesTo("aborted")

ReaderStep ==
  \/ ReaderChecks
  \/ ReadFails
  \/ ReadPacket
  \/ PublishPacket

ThreadStep ==
  \/ MainStep
  \/ LoopFails
  \/ ReaderStep
  \/ Interrupt
  \/ \E l \in Link : LoseConnection(l)

-----------------------------------------------------------------------------
Lost(l) == connection[l] = "lost"

\* Before and after there is a reader, and while there is one.
Starting == {"construct", "connect_command", "setup", "connect_data", "start"}
Stopping == {"terminate", "disconnect_command", "disconnect_data", "destroy",
             "destroy_channels"}

\* What there is when main() is where it is.
ThreadPhases ==
  /\ main \in Starting => reader = "none" /\ ~destructor
  /\ main = "start" => connection["data"] # "off"
  /\ main = "loop" => reader \notin {"none", "joined"} /\ ~destructor
  /\ main \in {"loop", "join"} /\ reader \notin {"none", "joined"} =>
       connection["data"] # "off"
  /\ main \in Stopping \cup {"off"} => reader \in {"none", "joined"}
  /\ role = "client" => ~destructor /\ main # "disconnect_command"
  /\ role = "server" => main # "terminate"

\* What a process has done when it is about to destroy its objects.
Farewell ==
  /\ main = "destroy" /\ reader # "none" /\ connection["data"] = "up" =>
       role = "client" /\ Lost("command")
  /\ role = "client" /\ reader = "joined" =>
       /\ main \in Stopping \cup Gone
       /\ main # "terminate" => terminated \/ Lost("command")
  /\ role = "client" /\ main = "aborted" =>
       reader = "publish" /\ Lost("data")

(***************************************************************************)
(* However main() ends, by the run flag, by an exception in any phase of   *)
(* the start or out of a handler, the process is not aborted in mid-flight *)
(* (a thread not joined, an exception during unwinding) unless it lost a   *)
(* connection to the broker.                                               *)
(***************************************************************************)
AbortOnlyOnLoss == main = "aborted" => Lost("command") \/ Lost("data")

(***************************************************************************)
(* When TUN device, keys and callback object are gone, nothing is received *)
(* any more that the callback thread would use them for.  The exception is *)
(* in the code: a client whose command connection is lost never gets to    *)
(* the disconnect behind the publish() that throws.                        *)
(***************************************************************************)
NoCallbackOnGarbage ==
  main = "destroy_channels" /\ reader # "none" /\ connection["data"] = "up" =>
    role = "client" /\ Lost("command")

(***************************************************************************)
(* A client whose tunnel was up, reader and all, and that ends in whatever *)
(* way but by being killed, has told the server, so that its session ends  *)
(* there too.  There are two exceptions, both in the code: its command     *)
(* connection was lost, so that the publish() of the goodbye throws, or    *)
(* its reader was in a publish() on a lost data connection, which throws   *)
(* and which nobody catches.                                               *)
(***************************************************************************)
GoodbyeSaid ==
  role = "client" /\ main \in Gone /\ reader # "none" =>
    \/ terminated
    \/ Lost("command")
    \/ main = "aborted" /\ reader = "publish" /\ Lost("data")

(***************************************************************************)
(* SIGINT ends the process, in whatever phase it comes: the join waits for *)
(* a reader that looks at the flag again.  It does so only on a device     *)
(* that does not block.                                                    *)
(***************************************************************************)
StopsEventually == ~run /\ ~blocking ~> main \in Gone
=============================================================================
