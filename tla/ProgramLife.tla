---------------------------- MODULE ProgramLife -----------------------------
(***************************************************************************)
(* The program from start to end, again and again: main() builds its       *)
(* object, on the server with the identity of IdentityStore, and runs it   *)
(* with the threads of TunnelThreads.  The process may be killed at any    *)
(* time; what stays are the files.                                         *)
(***************************************************************************)
EXTENDS IdentityStore, TunnelThreads

CONSTANT MaxLives      \* bound: how often the program is run

ASSUME LivesAssumption == MaxLives \in Nat

VARIABLE lives         \* how often it was run

lifeVars == <<identityVars, threadVars, lives>>

LifeInit ==
  /\ IdentityInit
  /\ ThreadInit
  /\ lives = 0

LifeTypeOK ==
  /\ IdentityTypeOK
  /\ ThreadTypeOK
  /\ lives \in 0 .. MaxLives

-----------------------------------------------------------------------------
Start ==
  /\ lives < MaxLives
  /\ lives' = lives + 1
  /\ StartProcess
  /\ UNCHANGED identityVars

\* CryptoManager is the last of the members that do something.
ConstructIdentity ==
  /\ main = "construct"
  /\ role = "server"
  /\ ConstructorStep
  /\ UNCHANGED <<threadVars, lives>>

\* start_tunnel(), start_server()
Constructed ==
  /\ main = "construct"
  /\ role = "client" \/ constructing = "ready"
  /\ GoesTo("connect_command")
  /\ UNCHANGED <<identityVars, lives>>

\* What the threads do may be the end of the process, and with it of what it
\* had in memory.
Runs(A) ==
  /\ A
  /\ IF main' \in Gone THEN IdentityForgotten ELSE UNCHANGED identityVars
  /\ UNCHANGED lives

\* The process is killed, or its constructor throws: a file could not be
\* opened.  There is no thread yet that would have to be joined.
Dies ==
  /\ main \notin Gone
  /\ Runs(EndProcess)

Users ==
  /\ LosePublic \/ LoseSecret \/ \E c \in Pinners : PinKey(c)
  /\ UNCHANGED <<threadVars, lives>>

LifeNext ==
  \/ Start
  \/ ConstructIdentity
  \/ Constructed
  \/ Runs(ThreadStep)
  \/ Dies
  \/ Users

LifeSpec == LifeInit /\ [][LifeNext]_lifeVars

\* What is inductive: the types, and how far files, identity, main thread and
\* reader are, with one another.
LifeInv ==
  /\ LifeTypeOK
  /\ OneIdentity
  /\ FilesArePinned
  /\ ThreadPhases
  /\ Farewell
  /\ AbortOnlyOnLoss
  /\ NoCallbackOnGarbage

(***************************************************************************)
(* Fairness.  The main thread goes on: connecting ends in a connection or  *)
(* in an exception, the handshake has time limits, and the loops look at   *)
(* the run flag every 100 ms.  So does the reader, whose read() returns at *)
(* once unless it blocks, and whose wait for a packet to be sent ends      *)
(* after 10 s.  Packets need not come, and nobody need press Ctrl-C.       *)
(***************************************************************************)
FairLifeSpec ==
  /\ LifeSpec
  /\ WF_lifeVars(ConstructIdentity \/ Constructed)
  /\ WF_lifeVars(Runs(MainStep))
  /\ WF_lifeVars(Runs(ReaderChecks \/ ReadFails \/ PublishPacket))
=============================================================================
