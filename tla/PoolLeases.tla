----------------------------- MODULE PoolLeases -----------------------------
(***************************************************************************)
(* IPPool together with the books of its callers: which addresses they     *)
(* were given and have not given back.  A caller gives back an address it  *)
(* holds, or calls release_ip() with an address nobody holds.              *)
(***************************************************************************)
EXTENDS IPPool, FiniteSets

VARIABLES leases,      \* how many callers hold each address
          returned     \* what the last allocate_ip() returned

poolVars == <<ip_usage, leases, returned>>

Init ==
  /\ PoolInit
  /\ leases = [a \in Address |-> 0]
  /\ returned = NoAddress

Allocate(a) ==
  /\ allocate_ip(a)
  /\ returned' = a
  /\ leases' = [leases EXCEPT ![a] = @ + 1]

AllocateFails ==
  /\ allocate_ip(NoAddress)
  /\ returned' = NoAddress
  /\ UNCHANGED leases

Release(a) ==
  /\ leases[a] > 0
  /\ release_ip(a)
  /\ leases' = [leases EXCEPT ![a] = @ - 1]
  /\ UNCHANGED returned

\* Includes "", the gateway's address, and the first addresses past the pool,
\* where the slot one past the last is still a bit of the vector.
ReleaseUnleased(ip) ==
  /\ ip \in Address => leases[ip] = 0
  /\ ip = pool_size + 1 => pool_size % 64 # 0
  /\ release_ip(ip)
  /\ UNCHANGED <<leases, returned>>

Next ==
  \/ \E a \in Address : Allocate(a) \/ Release(a)
  \/ AllocateFails
  \/ \E ip \in 0 .. pool_size + 2 : ReleaseUnleased(ip)

Spec == Init /\ [][Next]_poolVars

-----------------------------------------------------------------------------
count_allocated == Cardinality({i \in Slot : ip_usage[i]})

(***************************************************************************)
(* The flags of the pool and the books of its callers agree: an address is *)
(* held by at most one caller, and its slot is marked exactly while it is  *)
(* held.  Relates allocate_ip()'s slot-to-address arithmetic with          *)
(* release_ip()'s address-to-slot arithmetic, and covers the calls         *)
(* release_ip() is expected to ignore.                                     *)
(***************************************************************************)
UsageMatchesLeases ==
  \A a \in Address : leases[a] = IF ip_usage[a - 1] THEN 1 ELSE 0

\* Slot 0, whose address is the gateway's, is never marked.
GatewayUnused == ~ip_usage[0]

\* count_allocated() is the number of leased addresses: slot 0, which is never
\* handed out, is never counted either.
CountIsLeases ==
  count_allocated = Cardinality({a \in Address : leases[a] > 0})

TypeOK ==
  /\ PoolTypeOK
  /\ leases \in [Address -> Nat]
  /\ returned \in Address \cup {NoAddress}

(***************************************************************************)
(* The pool keeps the promise of AddressPool for the addresses 2 ..        *)
(* pool_size: one holder per address, and a refusal only when they are all *)
(* held.                                                                   *)
(***************************************************************************)
Abstract == INSTANCE AddressPool
              WITH Addresses <- Address, Refusal <- NoAddress,
                   holders <- leases, answer <- returned

ImplementsAddressPool == Abstract!Spec
=============================================================================
