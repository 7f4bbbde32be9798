---------------------------- MODULE IPPool_proofs ----------------------------
(***************************************************************************)
(* Lemmas about the operations of the pool, for every pool_size.           *)
(***************************************************************************)
EXTENDS IPPool, TLAPS

\* An address and its slot: allocate_ip() and release_ip() convert one into
\* the other.
LEMMA SlotOfAddress ==
  /\ \A a \in Address : a - 1 \in Slot /\ a - 1 \in Allocatable
  /\ \A i \in Allocatable : i + 1 \in Address
  /\ \A a, b \in Address : a - 1 = b - 1 => a = b
BY PoolSizeAssumption DEF Address, Slot, Allocatable

\* What allocate_ip() does when it answers address a.
LEMMA AllocateAddress ==
  ASSUME PoolTypeOK, NEW a \in Address, allocate_ip(a)
  PROVE  /\ ip_usage[a - 1] = FALSE
         /\ ip_usage' = [ip_usage EXCEPT ![a - 1] = TRUE]
<1>1. a # NoAddress
  BY PoolSizeAssumption DEF Address, NoAddress
<1>2. PICK i \in Allocatable : /\ ~ip_usage[i]
                               /\ a = i + 1
                               /\ ip_usage' = [ip_usage EXCEPT ![i] = TRUE]
  BY <1>1 DEF allocate_ip
<1>3. i = a - 1
  BY <1>2, PoolSizeAssumption DEF Allocatable, Slot
<1>4. ip_usage[i] \in BOOLEAN
  BY DEF PoolTypeOK, Allocatable
<1> QED
  BY <1>2, <1>3, <1>4

\* What it does when it answers "".
LEMMA AllocateNothing ==
  ASSUME PoolTypeOK, allocate_ip(NoAddress)
  PROVE  /\ \A i \in Allocatable : ip_usage[i]
         /\ UNCHANGED ip_usage
<1>1. \A i \in Allocatable : NoAddress # i + 1
  BY PoolSizeAssumption DEF Allocatable, Slot, NoAddress
<1> QED
  BY <1>1 DEF allocate_ip

\* release_ip() clears the flag of an address of the pool.
LEMMA ReleaseAddress ==
  ASSUME PoolTypeOK, NEW a \in Address, release_ip(a)
  PROVE  ip_usage' = [ip_usage EXCEPT ![a - 1] = FALSE]
<1>1. Releasable(a)
  BY PoolSizeAssumption DEF Address, Releasable
<1> QED
  BY <1>1 DEF release_ip

\* For any other argument it does not change a flag, although its range check
\* lets the first address past the pool through.
LEMMA ReleaseElsewhere ==
  ASSUME PoolTypeOK, NEW ip \in Int, ip \notin Address, release_ip(ip)
  PROVE  UNCHANGED ip_usage
<1>1. CASE ~Releasable(ip)
  BY <1>1 DEF release_ip
<1>2. CASE Releasable(ip)
  <2>1. ip - 1 \notin Slot
    BY <1>2, PoolSizeAssumption DEF Releasable, Address, Slot
  <2>2. ip_usage' = [ip_usage EXCEPT ![ip - 1] = FALSE]
    BY <1>2 DEF release_ip
  <2>3. DOMAIN ip_usage = Slot /\ ip_usage = [i \in Slot |-> ip_usage[i]]
    BY DEF PoolTypeOK
  <2> QED
    BY <2>1, <2>2, <2>3
<1> QED
  BY <1>1, <1>2

\* A caller has an address of the pool, or "".
LEMMA PoolTyped ==
  ASSUME PoolTypeOK, NEW ip \in Address \cup {NoAddress},
         allocate_ip(ip) \/ release_ip(ip)
  PROVE  PoolTypeOK'
<1>1. CASE ip \in Address
  BY <1>1, AllocateAddress, ReleaseAddress DEF PoolTypeOK
<1>2. CASE ip = NoAddress
  BY <1>2, AllocateNothing DEF PoolTypeOK, release_ip, Releasable, NoAddress
<1> QED
  BY <1>1, <1>2
=============================================================================
