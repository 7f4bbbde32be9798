--------------------------- MODULE IdentityStore ----------------------------
(***************************************************************************)
(* The long-term identity of the server: the key pair it signs with, kept  *)
(* in ServerID.key and ServerID.pub, and the copies of the public key that *)
(* clients have as identity.pub.  The constructor of CryptoManager loads   *)
(* the pair or, when that fails for whatever reason, draws a new one and   *)
(* stores it: two files, each emptied when it is opened, filled when it is *)
(* closed.  The process may end between any two of these steps.            *)
(*                                                                         *)
(* Identities are numbered in the order in which they are drawn.  A file   *)
(* is the number of the identity it belongs to, or 0 when it is missing or *)
(* of the wrong size, which the loading does not tell apart.               *)
(***************************************************************************)
EXTENDS Naturals

CONSTANTS MaxIdentities,   \* bound: how many identities are drawn
          Pinners          \* the clients that are given the public key

ASSUME IdentityAssumption == MaxIdentities \in Nat

VARIABLES secret_file,       \* ServerID.key
          public_file,       \* ServerID.pub
          drawn,             \* how many identities were drawn
          losses,            \* which of the two were lost, "secret" or "public"
          constructing,      \* where the constructor is
          server_identity_,  \* the pair in the memory of the process
          pinned             \* identity.pub of each client, 0 without one

identityVars == <<secret_file, public_file, drawn, losses, constructing,
                  server_identity_, pinned>>

Identity == 0 .. MaxIdentities

NoPair == [secret |-> 0, public |-> 0]

IdentityInit ==
  /\ secret_file = 0
  /\ public_file = 0
  /\ drawn = 0
  /\ losses = {}
  /\ constructing = "off"
  /\ server_identity_ = NoPair
  /\ pinned = [c \in Pinners |-> 0]

IdentityTypeOK ==
  /\ secret_file \in Identity
  /\ public_file \in Identity
  /\ drawn \in Identity
  /\ losses \subseteq {"secret", "public"}
  /\ constructing \in {"off", "secret_open", "secret_stored", "public_open",
                       "ready"}
  /\ server_identity_ \in [secret : Identity, public : Identity]
  /\ pinned \in [Pinners -> Identity]

-----------------------------------------------------------------------------
\* Mutant: the size of the second file is not looked at.
Loadable_secret == secret_file # 0

\* load_local_server_identity() returns.
Loadable == secret_file # 0 /\ public_file # 0

LoadIdentity ==
  /\ constructing = "off"
  /\ Loadable
  /\ server_identity_' = [secret |-> secret_file, public |-> public_file]
  /\ constructing' = "ready"
  /\ UNCHANGED <<secret_file, public_file, drawn, losses, pinned>>

\* Mutant: the new identity is not stored.
GenerateIdentity_unstored ==
  /\ constructing = "off"
  /\ ~Loadable
  /\ drawn < MaxIdentities
  /\ drawn' = drawn + 1
  /\ server_identity_' = [secret |-> drawn + 1, public |-> drawn + 1]
  /\ constructing' = "ready"
  /\ UNCHANGED <<secret_file, public_file, losses, pinned>>

\* Loading has failed: a new pair, and the first file is opened.
GenerateIdentity ==
  /\ constructing = "off"
  /\ ~Loadable
  /\ drawn < MaxIdentities
  /\ drawn' = drawn + 1
  /\ server_identity_' = [secret |-> drawn + 1, public |-> drawn + 1]
  /\ secret_file' = 0
  /\ constructing' = "secret_open"
  /\ UNCHANGED <<public_file, losses, pinned>>

\* The stream is tested while the bytes are in its buffer.  When they cannot be
\* written as it is closed nobody notices: the file is lost, and the
\* constructor goes on.
StoreSecret ==
  /\ constructing = "secret_open"
  /\ \/ secret_file' = server_identity_.secret /\ UNCHANGED losses
     \/ losses' = losses \cup {"secret"} /\ UNCHANGED secret_file
  /\ constructing' = "secret_stored"
  /\ UNCHANGED <<public_file, drawn, server_identity_, pinned>>

OpenPublic ==
  /\ constructing = "secret_stored"
  /\ public_file' = 0
  /\ constructing' = "public_open"
  /\ UNCHANGED <<secret_file, drawn, losses, server_identity_, pinned>>

StorePublic ==
  /\ constructing = "public_open"
  /\ \/ public_file' = server_identity_.public /\ UNCHANGED losses
     \/ losses' = losses \cup {"public"} /\ UNCHANGED public_file
  /\ constructing' = "ready"
  /\ UNCHANGED <<secret_file, drawn, server_identity_, pinned>>

\* The process ends, in mid-constructor too: it is killed, or a file cannot be
\* opened and the exception leaves the constructor.
IdentityForgotten ==
  /\ constructing' = "off"
  /\ server_identity_' = NoPair
  /\ UNCHANGED <<secret_file, public_file, drawn, losses, pinned>>

\* Outside of the program: a file gets lost or damaged, unless it was before, or
\* a client is given the public key that the server shows when it is ready.
LosePublic ==
  /\ "public" \notin losses
  /\ losses' = losses \cup {"public"}
  /\ public_file' = 0
  /\ UNCHANGED <<secret_file, drawn, constructing, server_identity_, pinned>>

LoseSecret ==
  /\ "secret" \notin losses
  /\ losses' = losses \cup {"secret"}
  /\ secret_file' = 0
  /\ UNCHANGED <<public_file, drawn, constructing, server_identity_, pinned>>

PinKey(c) ==
  /\ constructing = "ready"
  /\ pinned' = [pinned EXCEPT ![c] = server_identity_.public]
  /\ UNCHANGED <<secret_file, public_file, drawn, losses, constructing,
                 server_identity_>>

ConstructorStep ==
  \/ LoadIdentity
  \/ GenerateIdentity
  \/ StoreSecret
  \/ OpenPublic
  \/ StorePublic

-----------------------------------------------------------------------------
\* establish_client_session(): the signature of the server under the key of c.
Verifies(c) == pinned[c] = server_identity_.secret

\* As long as the secret is not lost: the files belong to one identity, that of
\* the process, up to the file that it is writing.
OneIdentity ==
  "secret" \notin losses =>
    /\ public_file # 0 => secret_file = public_file
    /\ constructing # "off" =>
         server_identity_.secret = server_identity_.public
    /\ constructing \in {"secret_open", "secret_stored", "public_open"} =>
         public_file = 0
    /\ constructing \in {"secret_stored", "public_open"} =>
         secret_file = server_identity_.secret

\* Without losses: what clients pinned, and what is in use, is in the files.
FilesArePinned ==
  losses = {} =>
    /\ constructing = "ready" =>
         /\ secret_file = server_identity_.secret
         /\ public_file = server_identity_.public
    /\ \A c \in Pinners :
         pinned[c] # 0 => pinned[c] = secret_file /\ pinned[c] = public_file

(***************************************************************************)
(* A server that is ready signs with the secret that belongs to its public *)
(* key: no end of the process between the two files, and no loss of        *)
(* ServerID.pub, makes it load the halves of two identities.  The loss of  *)
(* ServerID.key does: the old ServerID.pub is still there when the process *)
(* ends right after the new secret was stored.                             *)
(***************************************************************************)
LoadedPairMatches ==
  constructing = "ready" /\ "secret" \notin losses =>
    server_identity_.secret = server_identity_.public

(***************************************************************************)
(* What clients have pinned is the identity of every later server process, *)
(* however the earlier ones ended, as long as no file is lost.             *)
(***************************************************************************)
PinnedKeyVerifies ==
  constructing = "ready" /\ losses = {} =>
    \A c \in Pinners : pinned[c] # 0 => Verifies(c)
=============================================================================
