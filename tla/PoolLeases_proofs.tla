-------------------------- MODULE PoolLeases_proofs --------------------------
(***************************************************************************)
(* Proofs about the pool of addresses, for every pool_size.                *)
(*                                                                         *)
(* The invariant is TypeOK /\ UsageMatchesLeases /\ GatewayUnused.  The     *)
(* first two are inductive together: the flags say who holds an address,   *)
(* and every operation is decided by the flags.  The third is what the     *)
(* count of the flags needs: without it slot 0 could be counted.           *)
(***************************************************************************)
EXTENDS PoolLeases, IPPool_proofs, FiniteSetTheorems

Inv == TypeOK /\ UsageMatchesLeases /\ GatewayUnused

-----------------------------------------------------------------------------
LEMMA InvInit == Init => Inv
BY PoolSizeAssumption
   DEF Init, PoolInit, Inv, TypeOK, PoolTypeOK, UsageMatchesLeases, GatewayUnused,
       Address, Slot, NoAddress

LEMMA InvNext == Inv /\ [Next]_poolVars => Inv'
<1> SUFFICES ASSUME Inv, [Next]_poolVars PROVE Inv'
  OBVIOUS
<1> USE DEF Inv, TypeOK, PoolTypeOK, UsageMatchesLeases, GatewayUnused
<1>0. 0 \in Slot
  BY PoolSizeAssumption DEF Slot
<1>1. ASSUME NEW a \in Address, Allocate(a) PROVE Inv'
  <2>1. /\ ip_usage[a - 1] = FALSE
        /\ ip_usage' = [ip_usage EXCEPT ![a - 1] = TRUE]
    BY <1>1, AllocateAddress DEF Allocate
  <2>2. leases[a] = 0 /\ leases' = [leases EXCEPT ![a] = leases[a] + 1]
    BY <1>1, <2>1 DEF Allocate
  <2>3. TypeOK'
    BY <1>1, <2>1, <2>2, SlotOfAddress DEF Allocate
  <2>4. UsageMatchesLeases'
    BY <1>1, <2>1, <2>2, SlotOfAddress
  <2>5. a - 1 # 0
    BY PoolSizeAssumption DEF Address
  <2>6. GatewayUnused'
    BY <1>0, <2>1, <2>5
  <2> QED
    BY <2>3, <2>4, <2>6
<1>2. ASSUME NEW a \in Address, Release(a) PROVE Inv'
  <2>1. ip_usage' = [ip_usage EXCEPT ![a - 1] = FALSE]
    BY <1>2, ReleaseAddress DEF Release
  <2>2. leases[a] = 1 /\ leases' = [leases EXCEPT ![a] = leases[a] - 1]
    BY <1>2 DEF Release
  <2>3. TypeOK'
    BY <1>2, <2>1, <2>2, SlotOfAddress DEF Release
  <2>4. UsageMatchesLeases'
    BY <1>2, <2>1, <2>2, SlotOfAddress
  <2>5. a - 1 # 0
    BY PoolSizeAssumption DEF Address
  <2>6. GatewayUnused'
    BY <1>0, <2>1, <2>5
  <2> QED
    BY <2>3, <2>4, <2>6
<1>3. CASE AllocateFails
  BY <1>3, AllocateNothing DEF AllocateFails
<1>4. ASSUME NEW ip \in 0 .. pool_size + 2, ReleaseUnleased(ip) PROVE Inv'
  <2>1. CASE ip \in Address
    <3>1. ip_usage[ip - 1] = FALSE
      BY <1>4, <2>1, SlotOfAddress DEF ReleaseUnleased
    <3>2. ip_usage' = [ip_usage EXCEPT ![ip - 1] = FALSE]
      BY <1>4, <2>1, ReleaseAddress DEF ReleaseUnleased
    <3>3. ip_usage' = ip_usage
      BY <3>1, <3>2
    <3> QED
      BY <1>4, <3>3 DEF ReleaseUnleased
  <2>2. CASE ip \notin Address
    <3>1. ip_usage' = ip_usage
      BY <1>4, <2>2, ReleaseElsewhere DEF ReleaseUnleased
    <3> QED
      BY <1>4, <3>1 DEF ReleaseUnleased
  <2> QED
    BY <2>1, <2>2
<1>5. CASE UNCHANGED poolVars
  BY <1>5 DEF poolVars
<1> QED
  BY <1>1, <1>2, <1>3, <1>4, <1>5 DEF Next

(***************************************************************************)
(* Type correctness, for every size of the pool.                           *)
(***************************************************************************)
THEOREM TypeCorrect == Spec => []TypeOK
<1>1. Inv => TypeOK
  BY DEF Inv
<1> QED
  BY <1>1, InvInit, InvNext, PTL DEF Spec

(***************************************************************************)
(* The flags of the pool and the books of its callers agree: no address    *)
(* has two holders, none is lost, and calls of release_ip() with an        *)
(* address nobody holds change nothing.                                    *)
(***************************************************************************)
THEOREM PoolAgreesWithLeases == Spec => []UsageMatchesLeases
<1>1. Inv => UsageMatchesLeases
  BY DEF Inv
<1> QED
  BY <1>1, InvInit, InvNext, PTL DEF Spec

(***************************************************************************)
(* count_allocated() is the number of addresses that are held: the slots   *)
(* it counts and the addresses correspond one to one.                      *)
(***************************************************************************)
THEOREM CountCorrect == Spec => []CountIsLeases
<1> DEFINE used == {i \in Slot : ip_usage[i]}
           held == {a \in Address : leases[a] > 0}
           slot == [a \in held |-> a - 1]
<1>1. Inv => CountIsLeases
  <2> SUFFICES ASSUME Inv PROVE Cardinality(used) = Cardinality(held)
    BY DEF CountIsLeases, count_allocated
  <2>1. \A a \in held : a - 1 \in used
    BY SlotOfAddress DEF Inv, UsageMatchesLeases
  <2>2. \A i \in used : i + 1 \in held /\ (i + 1) - 1 = i
    <3> SUFFICES ASSUME NEW i \in used PROVE i + 1 \in held /\ (i + 1) - 1 = i
      OBVIOUS
    <3>1. i \in Allocatable
      BY DEF Inv, GatewayUnused, Allocatable
    <3>2. i + 1 \in Address /\ (i + 1) - 1 = i
      BY <3>1, SlotOfAddress DEF Slot
    <3> QED
      BY <3>2 DEF Inv, UsageMatchesLeases
  <2>3. slot \in Bijection(held, used)
    BY <2>1, <2>2, SlotOfAddress
    DEF Bijection, Injection, Surjection, IsInjective
  <2>4. IsFiniteSet(held)
    <3>1. IsFiniteSet(Address)
      BY FS_Interval, PoolSizeAssumption DEF Address
    <3> QED
      BY <3>1, FS_Subset
  <2>5. ExistsBijection(held, used)
    BY <2>3 DEF ExistsBijection
  <2> QED
    BY <2>4, <2>5, FS_Bijection
<1> QED
  BY <1>1, InvInit, InvNext, PTL DEF Spec

(***************************************************************************)
(* IPPool implements AddressPool: one holder per address, and an empty     *)
(* answer only when every address of the pool is held.                     *)
(***************************************************************************)
THEOREM PoolImplementsAddressPool == Spec => ImplementsAddressPool
<1>1. Init => Abstract!Init
  BY DEF Init, Abstract!Init
<1>2. Inv /\ [Next]_poolVars => [Abstract!Next]_<<leases, returned>>
  <2> SUFFICES ASSUME Inv, [Next]_poolVars
               PROVE  Abstract!Next \/ UNCHANGED <<leases, returned>>
    OBVIOUS
  <2>1. ASSUME NEW a \in Address, Allocate(a) PROVE Abstract!Lease(a)
    <3>1. ip_usage[a - 1] = FALSE
      BY <2>1, AllocateAddress DEF Allocate, Inv, TypeOK
    <3>2. leases[a] = 0
      BY <3>1 DEF Inv, UsageMatchesLeases
    <3> QED
      BY <2>1, <3>2 DEF Allocate, Abstract!Lease, Inv, TypeOK
  <2>2. ASSUME NEW a \in Address, Release(a) PROVE Abstract!Return(a)
    <3>1. leases[a] = 1
      BY <2>2 DEF Release, Inv, UsageMatchesLeases
    <3> QED
      BY <2>2, <3>1 DEF Release, Abstract!Return, Inv, TypeOK
  <2>3. CASE AllocateFails
    <3>1. \A i \in Allocatable : ip_usage[i]
      BY <2>3, AllocateNothing DEF AllocateFails, Inv, TypeOK
    <3>2. \A a \in Address : leases[a] = 1
      BY <3>1, SlotOfAddress DEF Inv, UsageMatchesLeases
    <3> QED
      BY <2>3, <3>2 DEF AllocateFails, Abstract!Refuse, Abstract!Next
  <2>4. ASSUME NEW ip \in 0 .. pool_size + 2, ReleaseUnleased(ip)
        PROVE  UNCHANGED <<leases, returned>>
    BY <2>4 DEF ReleaseUnleased
  <2>5. CASE UNCHANGED poolVars
    BY <2>5 DEF poolVars
  <2> QED
    BY <2>1, <2>2, <2>3, <2>4, <2>5 DEF Next, Abstract!Next
<1> QED
  BY <1>1, <1>2, InvInit, InvNext, PTL
  DEF Spec, ImplementsAddressPool, Abstract!Spec
=============================================================================
