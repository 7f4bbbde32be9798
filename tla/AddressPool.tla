----------------------------- MODULE AddressPool -----------------------------
(***************************************************************************)
(* What a pool of addresses promises its callers: an address is leased to  *)
(* one holder at a time, and a request is refused only while every address *)
(* of the pool is leased.                                                  *)
(***************************************************************************)
EXTENDS Naturals

CONSTANTS Addresses, Refusal

VARIABLES holders,     \* how many callers hold each address
          answer       \* the answer to the last request

Init ==
  /\ holders = [a \in Addresses |-> 0]
  /\ answer = Refusal

Lease(a) ==
  /\ holders[a] = 0
  /\ holders' = [holders EXCEPT ![a] = 1]
  /\ answer' = a

Refuse ==
  /\ \A a \in Addresses : holders[a] > 0
  /\ answer' = Refusal
  /\ UNCHANGED holders

Return(a) ==
  /\ holders[a] = 1
  /\ holders' = [holders EXCEPT ![a] = 0]
  /\ UNCHANGED answer

Next ==
  \/ \E a \in Addresses : Lease(a) \/ Return(a)
  \/ Refuse

Spec == Init /\ [][Next]_<<holders, answer>>
=============================================================================
