--------------------------- MODULE CommandChannel ---------------------------
(***************************************************************************)
(* The broker between the command clients, as the program uses it.  The    *)
(* clients publish on "<command topic>_RX", which only the server reads;   *)
(* the server publishes on "<command topic>_TX", which every client reads. *)
(*                                                                         *)
(* Publishing waits for the broker (QoS 1), sessions are clean and nobody  *)
(* reconnects: a message reaches, once and in order, the queue of every    *)
(* process that is subscribed when it is published, and no other.          *)
(***************************************************************************)
EXTENDS Messages

CONSTANT Server          \* the server among the processes that subscribe

ASSUME ProcessAssumption == Server \notin Clients

VARIABLES rx,            \* consumer queue of the server
          inbox,         \* consumer queue of each client
          listeners      \* the processes that are subscribed and still read

channelVars == <<rx, inbox, listeners>>

ChannelInit ==
  /\ rx = <<>>
  /\ inbox = [c \in Clients |-> <<>>]
  /\ listeners = {}

ChannelTypeOK ==
  /\ rx \in Seq(ClientMessage)
  /\ inbox \in [Clients -> Seq(ServerMessage)]
  /\ listeners \subseteq Clients \cup {Server}

\* publish() on _RX
ToServer(m) == rx' = IF Server \in listeners THEN Append(rx, m) ELSE rx

\* publish() on _TX
ToClients(m) ==
  inbox' = [c \in Clients |->
              IF c \in listeners THEN Append(inbox[c], m) ELSE inbox[c]]

\* try_consume_message() of client c answers true, with Head(inbox[c]).
Consume(c) == inbox' = [inbox EXCEPT ![c] = Tail(@)]

ServerSubscribes ==
  /\ listeners' = listeners \cup {Server}
  /\ UNCHANGED <<rx, inbox>>

ServerLeaves ==
  /\ listeners' = listeners \ {Server}
  /\ rx' = <<>>
  /\ UNCHANGED inbox

ClientSubscribes(c) ==
  /\ listeners' = listeners \cup {c}
  /\ UNCHANGED <<rx, inbox>>

\* The process of c ends, or never reads its queue again.
ClientLeaves(c) ==
  /\ listeners' = listeners \ {c}
  /\ inbox' = [inbox EXCEPT ![c] = <<>>]
=============================================================================
