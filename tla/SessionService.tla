--------------------------- MODULE SessionService ---------------------------
(***************************************************************************)
(* What the server is to the addresses and the sessions of its clients,    *)
(* without messages, handshake states and network configuration: an        *)
(* identifier may get a key, is offered an address that nobody has, the    *)
(* offer becomes a session, and the end of the session brings the address  *)
(* back.  The end of the server takes all of it along.                     *)
(***************************************************************************)
EXTENDS Messages

CONSTANTS Addresses,   \* the addresses of the pool
          NoAddress    \* what is offered when the pool has none left

VARIABLES encrypts,    \* does the server seal what it sends?  Never changes
          keyed,       \* the identifiers with a key
          held,        \* the addresses taken out of the pool
          offers,      \* address offered to each identifier, or None
          sessions     \* address of the session of each identifier, or None

serviceVars == <<encrypts, keyed, held, offers, sessions>>

NobodyHasOne == [id \in Id |-> None]

ServiceInit ==
  /\ encrypts \in BOOLEAN
  /\ keyed = {}
  /\ held = {}
  /\ offers = NobodyHasOne
  /\ sessions = NobodyHasOne

ServiceTypeOK ==
  /\ encrypts \in BOOLEAN
  /\ keyed \subseteq Id
  /\ held \subseteq Addresses
  /\ offers \in [Id -> Addresses \cup {NoAddress, None}]
  /\ sessions \in [Id -> Addresses \cup {NoAddress, None}]

\* A new key is the beginning of a new handshake.
GrantKey(id) ==
  /\ keyed' = keyed \cup {id}
  /\ offers' = [offers EXCEPT ![id] = None]
  /\ UNCHANGED <<encrypts, held, sessions>>

Offer(id, ip) ==
  /\ offers[id] = None
  /\ encrypts => id \in keyed
  /\ \/ ip \in Addresses \ held
     \/ ip = NoAddress /\ held = Addresses
  /\ held' = held \cup ({ip} \ {NoAddress})
  /\ offers' = [offers EXCEPT ![id] = ip]
  /\ UNCHANGED <<encrypts, keyed, sessions>>

Establish(id) ==
  /\ offers[id] # None
  /\ sessions' = [sessions EXCEPT ![id] = offers[id]]
  /\ offers' = [offers EXCEPT ![id] = None]
  /\ UNCHANGED <<encrypts, keyed, held>>

Terminate(id) ==
  /\ sessions[id] # None
  /\ sessions' = [sessions EXCEPT ![id] = None]
  /\ held' = held \ {sessions[id]}
  /\ UNCHANGED <<encrypts, keyed, offers>>

EndOfService ==
  /\ keyed' = {}
  /\ held' = {}
  /\ offers' = NobodyHasOne
  /\ sessions' = NobodyHasOne
  /\ UNCHANGED encrypts

ServiceNext ==
  \/ \E id \in Id :
       \/ GrantKey(id)
       \/ \E ip \in Addresses \cup {NoAddress} : Offer(id, ip)
       \/ Establish(id)
       \/ Terminate(id)
  \/ EndOfService

ServiceSpec == ServiceInit /\ [][ServiceNext]_serviceVars
=============================================================================
