------------------------- MODULE ProgramLife_proofs -------------------------
(***************************************************************************)
(* LifeInv is inductive, and what follows from it.  Every step is one of   *)
(* the files or one of the threads, and the end of the process is one of   *)
(* both; each half of the invariant looks at its own variables only.       *)
(***************************************************************************)
EXTENDS ProgramLife, TLAPS

IdentityInv == IdentityTypeOK /\ OneIdentity /\ FilesArePinned

ThreadInv ==
  /\ ThreadTypeOK
  /\ ThreadPhases
  /\ Farewell
  /\ AbortOnlyOnLoss
  /\ NoCallbackOnGarbage

IdentityStep ==
  \/ ConstructorStep
  \/ IdentityForgotten
  \/ LosePublic
  \/ LoseSecret
  \/ \E c \in Pinners : PinKey(c)

-----------------------------------------------------------------------------
\* The files and the identity.
LEMMA IdentityInvInit == IdentityInit => IdentityInv
  BY IdentityAssumption DEF IdentityInit, IdentityInv, IdentityTypeOK,
     OneIdentity, FilesArePinned, Identity, NoPair

\* The constructor of CryptoManager, one file operation at a time.
LEMMA ConstructorKeepsInv ==
  ASSUME IdentityInv, ConstructorStep
  PROVE  IdentityInv'
<1> USE IdentityAssumption DEF IdentityInv, IdentityTypeOK, OneIdentity,
        FilesArePinned, Identity
<1>1. ASSUME LoadIdentity PROVE IdentityInv'
  BY <1>1 DEF LoadIdentity, Loadable
<1>2. ASSUME GenerateIdentity PROVE IdentityInv'
  BY <1>2 DEF GenerateIdentity, Loadable
<1>3. ASSUME StoreSecret PROVE IdentityInv'
  BY <1>3 DEF StoreSecret
<1>4. ASSUME OpenPublic PROVE IdentityInv'
  BY <1>4 DEF OpenPublic
<1>5. ASSUME StorePublic PROVE IdentityInv'
  BY <1>5 DEF StorePublic
<1> QED
  BY <1>1, <1>2, <1>3, <1>4, <1>5 DEF ConstructorStep

LEMMA IdentityStepKeepsInv ==
  ASSUME IdentityInv, IdentityStep
  PROVE  IdentityInv'
<1> USE IdentityAssumption DEF IdentityInv, IdentityTypeOK, OneIdentity,
        FilesArePinned, Identity
<1>1. ASSUME ConstructorStep PROVE IdentityInv'
  BY <1>1, ConstructorKeepsInv
<1>2. ASSUME IdentityForgotten PROVE IdentityInv'
  BY <1>2 DEF IdentityForgotten, NoPair
<1>3. ASSUME LosePublic PROVE IdentityInv'
  BY <1>3 DEF LosePublic
<1>4. ASSUME LoseSecret PROVE IdentityInv'
  BY <1>4 DEF LoseSecret
<1>5. ASSUME NEW c \in Pinners, PinKey(c) PROVE IdentityInv'
  BY <1>5 DEF PinKey
<1> QED
  BY <1>1, <1>2, <1>3, <1>4, <1>5 DEF IdentityStep

LEMMA IdentityUnchanged ==
  ASSUME IdentityInv, UNCHANGED identityVars
  PROVE  IdentityInv'
  BY DEF identityVars, IdentityInv, IdentityTypeOK, OneIdentity, FilesArePinned

-----------------------------------------------------------------------------
\* The threads.
LEMMA ThreadInvInit == ThreadInit => ThreadInv
  BY DEF ThreadInit, ThreadInv, ThreadTypeOK, ThreadPhases, Farewell,
     AbortOnlyOnLoss, NoCallbackOnGarbage, Gone, Starting, Stopping, Link,
     Disconnected, Lost

LEMMA ProcessKeepsInv ==
  ASSUME ThreadInv,
         \/ StartProcess
         \/ EndProcess
         \/ main = "construct" /\ GoesTo("connect_command")
  PROVE  ThreadInv'
<1> USE DEF ThreadInv, ThreadTypeOK, ThreadPhases, Farewell,
        AbortOnlyOnLoss, NoCallbackOnGarbage, Gone, Starting, Stopping, Link,
        Disconnected, Lost, given, threads, network
<1>1. ASSUME StartProcess PROVE ThreadInv'
  BY <1>1 DEF StartProcess
<1>2. ASSUME EndProcess PROVE ThreadInv'
  BY <1>2 DEF EndProcess
<1>3. ASSUME main = "construct", GoesTo("connect_command") PROVE ThreadInv'
  BY <1>3 DEF GoesTo
<1> QED
  BY <1>1, <1>2, <1>3

\* An exception is harmless before there is a reader, in the loop, and when a
\* connection is lost; a client that has a reader must have lost one too.
LEMMA ThrowKeepsInv ==
  ASSUME ThreadInv, Throw,
         \/ main \in Starting
         \/ main = "loop" /\ role = "server"
         \/ main = "terminate" /\ Lost("command")
         \/ main = "disconnect_command" /\ Lost("command")
         \/ main = "disconnect_data" /\ Lost("data")
  PROVE  ThreadInv'
<1> USE DEF ThreadInv, ThreadTypeOK, ThreadPhases, Farewell,
        AbortOnlyOnLoss, NoCallbackOnGarbage, Gone, Starting, Stopping, Link,
        Lost, given, threads, network
<1>1. ASSUME role = "client", main' = "destroy", UNCHANGED threads
      PROVE  ThreadInv'
  BY <1>1 DEF Throw
<1>2. ASSUME role = "server", ~destructor, main' = "join", destructor' = TRUE,
             tunnel_active_' = FALSE, UNCHANGED reader
      PROVE  ThreadInv'
  BY <1>2 DEF Throw
<1>3. ASSUME role = "server", destructor, main' = "aborted", UNCHANGED threads
      PROVE  ThreadInv'
  BY <1>3 DEF Throw
<1> QED
  BY <1>1, <1>2, <1>3 DEF Throw

LEMMA MainKeepsInv ==
  ASSUME ThreadInv, MainStep \/ LoopFails
  PROVE  ThreadInv'
<1> USE DEF ThreadInv, ThreadTypeOK, ThreadPhases, Farewell,
        AbortOnlyOnLoss, NoCallbackOnGarbage, Gone, Starting, Stopping, Link,
        Disconnected, Lost, given, threads, network, GoesTo
<1>1. ASSUME ConnectCommand PROVE ThreadInv'
  <2>1. CASE Throw
    BY <1>1, <2>1, ThrowKeepsInv DEF ConnectCommand
  <2>2. CASE ~Throw
    BY <1>1, <2>2 DEF ConnectCommand, Connect
  <2> QED
    BY <2>1, <2>2
<1>2. ASSUME SetupSession PROVE ThreadInv'
  <2>1. CASE Throw
    BY <1>2, <2>1, ThrowKeepsInv DEF SetupSession
  <2>2. CASE ~Throw
    BY <1>2, <2>2 DEF SetupSession, EndProcess
  <2> QED
    BY <2>1, <2>2
<1>3. ASSUME ConnectData PROVE ThreadInv'
  <2>1. CASE Throw
    BY <1>3, <2>1, ThrowKeepsInv DEF ConnectData
  <2>2. CASE ~Throw
    BY <1>3, <2>2 DEF ConnectData, Connect
  <2> QED
    BY <2>1, <2>2
<1>4. ASSUME StartReader PROVE ThreadInv'
  BY <1>4 DEF StartReader
<1>5. ASSUME LeaveLoop PROVE ThreadInv'
  BY <1>5 DEF LeaveLoop
<1>6. ASSUME JoinReader PROVE ThreadInv'
  BY <1>6 DEF JoinReader, AfterJoin
<1>7. ASSUME PublishTermination PROVE ThreadInv'
  <2>1. CASE Lost("command")
    BY <1>7, <2>1, ThrowKeepsInv DEF PublishTermination
  <2>2. CASE ~Lost("command")
    <3>1. /\ main = "terminate" /\ main' = "disconnect_data"
          /\ terminated' \in BOOLEAN /\ terminated'
          /\ UNCHANGED <<given, threads, connection>>
      BY <1>7, <2>2 DEF PublishTermination
    <3> QED
      BY <3>1
  <2> QED
    BY <2>1, <2>2
<1>8. ASSUME DisconnectCommand PROVE ThreadInv'
  <2>1. CASE Lost("command")
    BY <1>8, <2>1, ThrowKeepsInv DEF DisconnectCommand
  <2>2. CASE ~Lost("command")
    BY <1>8, <2>2 DEF DisconnectCommand
  <2> QED
    BY <2>1, <2>2
<1>9. ASSUME DisconnectData PROVE ThreadInv'
  <2>1. CASE Lost("data")
    BY <1>9, <2>1, ThrowKeepsInv DEF DisconnectData
  <2>2. CASE ~Lost("data")
    BY <1>9, <2>2 DEF DisconnectData
  <2> QED
    BY <2>1, <2>2
<1>10. ASSUME DestroyTargets PROVE ThreadInv'
  BY <1>10 DEF DestroyTargets
<1>11. ASSUME DestroyChannels PROVE ThreadInv'
  BY <1>11 DEF DestroyChannels
<1>12. ASSUME HandlerThrows PROVE ThreadInv'
  BY <1>12, ThrowKeepsInv DEF HandlerThrows
<1>13. ASSUME UseEmptyMessage PROVE ThreadInv'
  BY <1>13 DEF UseEmptyMessage
<1> QED
  BY <1>1, <1>2, <1>3, <1>4, <1>5, <1>6, <1>7, <1>8, <1>9, <1>10, <1>11,
     <1>12, <1>13 DEF MainStep, LoopFails

\* The reader, the user and the network.
LEMMA OthersKeepInv ==
  ASSUME ThreadInv,
         ReaderStep \/ Interrupt \/ \E l \in Link : LoseConnection(l)
  PROVE  ThreadInv'
<1> USE DEF ThreadInv, ThreadTypeOK, ThreadPhases, Farewell,
        AbortOnlyOnLoss, NoCallbackOnGarbage, Gone, Starting, Stopping, Link,
        Lost, given, threads, network
<1>1. ASSUME ReaderChecks PROVE ThreadInv'
  BY <1>1 DEF ReaderChecks, ReaderGoesTo
<1>2. ASSUME ReadFails PROVE ThreadInv'
  BY <1>2 DEF ReadFails, ReaderGoesTo
<1>3. ASSUME ReadPacket PROVE ThreadInv'
  BY <1>3 DEF ReadPacket, ReaderGoesTo
<1>4. ASSUME PublishPacket PROVE ThreadInv'
  BY <1>4 DEF PublishPacket, ReaderGoesTo, GoesTo
<1>5. ASSUME Interrupt PROVE ThreadInv'
  <2>1. /\ run' \in BOOLEAN
        /\ UNCHANGED <<role, blocking, main, threads, network>>
    BY <1>5 DEF Interrupt
  <2> QED
    BY <2>1
<1>6. ASSUME NEW l \in Link, LoseConnection(l) PROVE ThreadInv'
  BY <1>6 DEF LoseConnection
<1> QED
  BY <1>1, <1>2, <1>3, <1>4, <1>5, <1>6 DEF ReaderStep

LEMMA ThreadUnchanged ==
  ASSUME ThreadInv, UNCHANGED threadVars
  PROVE  ThreadInv'
  BY DEF threadVars, given, threads, network, ThreadInv, ThreadTypeOK,
     ThreadPhases, Farewell, AbortOnlyOnLoss, NoCallbackOnGarbage, Lost

LEMMA ThreadStepKeepsInv ==
  ASSUME ThreadInv, ThreadStep
  PROVE  ThreadInv'
  BY MainKeepsInv, OthersKeepInv DEF ThreadStep

-----------------------------------------------------------------------------
\* Both together.
LEMMA LifeInvInit == LifeInit => LifeInv
  BY IdentityInvInit, ThreadInvInit, LivesAssumption
  DEF LifeInit, LifeInv, LifeTypeOK, IdentityInv, ThreadInv

LEMMA Halves ==
  LifeInv <=> IdentityInv /\ ThreadInv /\ lives \in 0 .. MaxLives
  BY DEF LifeInv, LifeTypeOK, IdentityInv, ThreadInv

LEMMA LifeInvNext ==
  ASSUME LifeInv, [LifeNext]_lifeVars
  PROVE  LifeInv'
<1>1. IdentityInv /\ ThreadInv /\ lives \in 0 .. MaxLives
  BY Halves
<1> SUFFICES IdentityInv' /\ ThreadInv' /\ lives' \in 0 .. MaxLives
  BY DEF LifeInv, LifeTypeOK, IdentityInv, ThreadInv
<1>2. ASSUME Start
      PROVE  IdentityInv' /\ ThreadInv' /\ lives' \in 0 .. MaxLives
  BY <1>1, <1>2, IdentityUnchanged, ProcessKeepsInv, LivesAssumption DEF Start
<1>3. ASSUME ConstructIdentity
      PROVE  IdentityInv' /\ ThreadInv' /\ lives' \in 0 .. MaxLives
  BY <1>1, <1>3, IdentityStepKeepsInv, ThreadUnchanged
  DEF ConstructIdentity, IdentityStep
<1>4. ASSUME Constructed
      PROVE  IdentityInv' /\ ThreadInv' /\ lives' \in 0 .. MaxLives
  BY <1>1, <1>4, IdentityUnchanged, ProcessKeepsInv DEF Constructed
<1>5. ASSUME Runs(ThreadStep)
      PROVE  IdentityInv' /\ ThreadInv' /\ lives' \in 0 .. MaxLives
  BY <1>1, <1>5, IdentityUnchanged, IdentityStepKeepsInv, ThreadStepKeepsInv
  DEF Runs, IdentityStep
<1>6. ASSUME Dies
      PROVE  IdentityInv' /\ ThreadInv' /\ lives' \in 0 .. MaxLives
  BY <1>1, <1>6, IdentityUnchanged, IdentityStepKeepsInv, ProcessKeepsInv
  DEF Dies, Runs, IdentityStep
<1>7. ASSUME Users
      PROVE  IdentityInv' /\ ThreadInv' /\ lives' \in 0 .. MaxLives
  BY <1>1, <1>7, IdentityStepKeepsInv, ThreadUnchanged DEF Users, IdentityStep
<1>8. ASSUME UNCHANGED lifeVars
      PROVE  IdentityInv' /\ ThreadInv' /\ lives' \in 0 .. MaxLives
  BY <1>1, <1>8, IdentityUnchanged, ThreadUnchanged DEF lifeVars
<1> QED
  BY <1>2, <1>3, <1>4, <1>5, <1>6, <1>7, <1>8 DEF LifeNext

(***************************************************************************)
(* The inductive invariant of the program's life.                          *)
(***************************************************************************)
THEOREM LifeInvHolds == LifeSpec => []LifeInv
  BY LifeInvInit, LifeInvNext, PTL DEF LifeSpec

(***************************************************************************)
(* A server that is ready signs with the secret of its own public key,     *)
(* wherever earlier processes ended in the constructor, unless ServerID.key*)
(* was lost.                                                               *)
(***************************************************************************)
THEOREM PairsMatch == LifeSpec => []LoadedPairMatches
<1>1. LifeInv => LoadedPairMatches
  BY DEF LifeInv, OneIdentity, LoadedPairMatches
<1> QED
  BY <1>1, LifeInvHolds, PTL

(***************************************************************************)
(* The key a client pinned verifies the signatures of every later server   *)
(* process, as long as no file is lost.                                    *)
(***************************************************************************)
THEOREM PinsVerify == LifeSpec => []PinnedKeyVerifies
<1>1. LifeInv => PinnedKeyVerifies
  BY DEF LifeInv, FilesArePinned, PinnedKeyVerifies, Verifies
<1> QED
  BY <1>1, LifeInvHolds, PTL

(***************************************************************************)
(* However main() ends, no process is aborted that has not lost a          *)
(* connection to the broker.                                               *)
(***************************************************************************)
THEOREM AbortsOnlyOnLoss == LifeSpec => []AbortOnlyOnLoss
<1>1. LifeInv => AbortOnlyOnLoss
  BY DEF LifeInv
<1> QED
  BY <1>1, LifeInvHolds, PTL

(***************************************************************************)
(* The callback thread finds its objects alive, except on a client whose   *)
(* command connection was lost.                                            *)
(***************************************************************************)
THEOREM CallbacksFindObjects == LifeSpec => []NoCallbackOnGarbage
<1>1. LifeInv => NoCallbackOnGarbage
  BY DEF LifeInv
<1> QED
  BY <1>1, LifeInvHolds, PTL

(***************************************************************************)
(* A client whose tunnel was up and that ends, but by being killed, has    *)
(* told the server, unless its command connection was lost or its reader   *)
(* was publishing on a lost data connection.                               *)
(***************************************************************************)
THEOREM GoodbyesSaid == LifeSpec => []GoodbyeSaid
<1>1. LifeInv => GoodbyeSaid
  BY DEF LifeInv, ThreadPhases, Farewell, GoodbyeSaid, Gone, Stopping
<1> QED
  BY <1>1, LifeInvHolds, PTL
=============================================================================
