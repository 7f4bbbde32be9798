------------------------------- MODULE IPPool -------------------------------
(***************************************************************************)
(* The pool of tunnel addresses of the server (class IPPool).  The pool    *)
(* serves one /24 network, so an address is represented by its last octet, *)
(* and 0 stands for the empty string that allocate_ip() answers when no    *)
(* address is free.                                                        *)
(*                                                                         *)
(* Both operations run under the pool's mutex: each is one atomic action.  *)
(***************************************************************************)
EXTENDS Integers

CONSTANT pool_size

\* The constructor throws for any other size.
ASSUME PoolSizeAssumption == pool_size \in 1 .. 253

VARIABLE ip_usage      \* one flag per slot: is its address handed out?

NoAddress == 0

Slot == 0 .. pool_size - 1

\* The addresses the pool can hand out: slot i has address i + 1, and slot 0,
\* whose address is the gateway's, is skipped.
Address == 2 .. pool_size

\* Mutants: one flag too many; the flag of the gateway set.
PoolInit_oversized == ip_usage = [i \in 0 .. pool_size |-> FALSE]
PoolInit_gateway_used == ip_usage = [i \in Slot |-> i = 0]

PoolInit == ip_usage = [i \in Slot |-> FALSE]

PoolTypeOK == ip_usage \in [Slot -> BOOLEAN]

\* Mutant: the last slot is never looked at.
Allocatable_short == Slot \ {0, pool_size - 1}

Allocatable == Slot \ {0}

\* Mutant: the slot is found but not marked.
allocate_ip_unmarked(ip) ==
  /\ UNCHANGED ip_usage
  /\ \/ \E i \in Allocatable :
          ~ip_usage[i] /\ (\A j \in 1 .. i - 1 : ip_usage[j]) /\ ip = i + 1
     \/ (\A i \in Allocatable : ip_usage[i]) /\ ip = NoAddress

\* The first unused slot from 1 on is taken; without one the answer is "".
allocate_ip(ip) ==
  \/ \E i \in Allocatable :
       /\ ~ip_usage[i]
       /\ \A j \in 1 .. i - 1 : ip_usage[j]
       /\ ip = i + 1
       /\ ip_usage' = [ip_usage EXCEPT ![i] = TRUE]
  \/ /\ \A i \in Allocatable : ip_usage[i]
     /\ ip = NoAddress
     /\ UNCHANGED ip_usage

\* Mutant: the first address is refused with the gateway's.
Releasable_strict(ip) == ip > 2 /\ ip < pool_size + 2

\* The range check of release_ip(); it also rejects "", which has no dot.
Releasable(ip) == ip >= 2 /\ ip < pool_size + 2

\* Mutant: the address is taken for the number of the slot.
release_ip_shifted(ip) ==
  \/ Releasable(ip) /\ ip_usage' = [ip_usage EXCEPT ![ip] = FALSE]
  \/ ~Releasable(ip) /\ UNCHANGED ip_usage

\* The check admits address pool_size + 1, whose slot lies one past the vector.
\* Unless the size is a multiple of 64, that slot is a padding bit of the last
\* word of the vector<bool>, which no operation reads: EXCEPT outside the
\* domain, which changes nothing, is what the build does.  At a multiple of 64
\* the call writes behind the vector, and has no meaning here: PoolLeases does
\* not make it, and the server, whose pool has 253 slots and which releases
\* what it allocated, never does.
release_ip(ip) ==
  \/ Releasable(ip) /\ ip_usage' = [ip_usage EXCEPT ![ip - 1] = FALSE]
  \/ ~Releasable(ip) /\ UNCHANGED ip_usage
=============================================================================
