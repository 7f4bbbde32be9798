----------------------- MODULE SessionService_proofs ------------------------
(***************************************************************************)
(* The server implements the SessionService.  Beyond types and addresses   *)
(* the proof needs that the handler of a ClientACK, once it has answered,  *)
(* still finds the entry that it answered for.                             *)
(***************************************************************************)
EXTENDS MQTTTunnel_proofs

\* The entry whose ACK is being worked on.
EntryStays == establishing # None => AckExpected(establishing)

MappingInv == IInv /\ EntryStays

\* What the service is made of stays as it is.
Stutter == UNCHANGED <<Keyed, Held, Offers, Sessions>>

LEMMA EntryStaysInit == Init => EntryStays
  BY DEF Init, ServerInit, EntryStays

LEMMA EntryStaysStep ==
  ASSUME IInv, EntryStays, [Next]_vars
  PROVE  EntryStays'
<1> USE DEF EntryStays, AckExpected
<1>1. ASSUME UNCHANGED <<establishing, handshake_states_>> PROVE EntryStays'
  BY <1>1
<1>2. CASE UNCHANGED vars
  BY <1>1, <1>2 DEF vars, serverVars, memoryVars
<1>3. ASSUME NEW c \in Clients, ClientStep(c) PROVE EntryStays'
  BY <1>1, <1>3 DEF ClientStep, serverVars, memoryVars
<1>4. ASSUME NEW pc, ServerProcessEnds(pc) PROVE EntryStays'
  BY <1>4 DEF ServerProcessEnds
<1>5. ASSUME HandleClientHelloCrypto \/ HandleClientHello PROVE EntryStays'
  BY <1>5 DEF HandleClientHelloCrypto, HandleClientHello, Handles, Consumes
<1>6. ASSUME HandleClientAck PROVE EntryStays'
  BY <1>6 DEF HandleClientAck
<1>7. ASSUME FinishClientAck PROVE EntryStays'
  BY <1>7 DEF FinishClientAck
<1>8. ASSUME HandleSessionTermination PROVE EntryStays'
  BY <1>1, <1>8 DEF HandleSessionTermination
<1>9. ASSUME StartServer \/ RejectClientHello \/ RejectClientAck
               \/ IgnoreSessionTermination
      PROVE  EntryStays'
  BY <1>1, <1>9 DEF StartServer, RejectClientHello, RejectClientAck,
     IgnoreSessionTermination, serverVars, memoryVars
<1>10. ASSUME ServerStep PROVE EntryStays'
  BY <1>4, <1>5, <1>6, <1>7, <1>8, <1>9, <1>10
  DEF ServerStep, ServerLoop, StopServer, KillServer, ThrowUndecryptable,
      ThrowCannotSeal, ThrowAckMismatch
<1> QED
  BY <1>2, <1>3, <1>10 DEF Next

-----------------------------------------------------------------------------
LEMMA InitImplementsService ==
  ASSUME Init
  PROVE  Service!ServiceInit
<1>1. Keyed = {}
  BY DEF Init, ServerInit, NoEntries, Keyed
<1>2. Held = {}
  BY SlotOfAddress DEF Init, ServerInit, PoolInit, Held
<1>3. Offers = [id \in Id |-> None]
  BY DEF Init, ServerInit, NoEntries, Offers, OfferOf, AckExpected
<1>4. Sessions = [id \in Id |-> None]
  BY DEF Init, ServerInit, NoEntries, Sessions, SessionOf, has_session
<1> QED
  BY <1>1, <1>2, <1>3, <1>4, ServerAssumption
  DEF Service!ServiceInit, Service!NobodyHasOne, Service!Id, Id

\* The same entries make the same offers, and the same sessions.
LEMMA SameService ==
  /\ UNCHANGED session_map_ => UNCHANGED Keyed
  /\ UNCHANGED ip_usage => UNCHANGED Held
  /\ UNCHANGED handshake_states_ => UNCHANGED Offers
  /\ UNCHANGED active_clients_ => UNCHANGED Sessions
BY DEF Keyed, Held, Offers, OfferOf, AckExpected, Sessions, SessionOf,
       has_session

\* An offer and a session have an address or "", which are not None.
LEMMA OfferedAddress ==
  ASSUME ServerTypeOK, NEW id \in Id
  PROVE  /\ AckExpected(id) =>
              /\ Offers[id] = handshake_states_[id].client_address
              /\ Offers[id] # None
         /\ ~AckExpected(id) => Offers[id] = None
         /\ has_session(id) =>
              /\ Sessions[id] = active_clients_[id].client_address
              /\ Sessions[id] # None
<1>1. AckExpected(id) =>
        handshake_states_[id].client_address \in Address \cup {NoAddress}
  BY DEF ServerTypeOK, SessionConfig, AckExpected
<1>2. has_session(id) =>
        active_clients_[id].client_address \in Address \cup {NoAddress}
  BY DEF ServerTypeOK, SessionConfig, has_session
<1> QED
  BY <1>1, <1>2, NoneAssumption DEF Offers, OfferOf, Sessions, SessionOf

LEMMA HelloCryptoGrants ==
  ASSUME MappingInv, HandleClientHelloCrypto
  PROVE  \E id \in Id : Service!GrantKey(id)
<1> DEFINE key == payload.client_ephemeral_public_key
<1>1. PICK uid \in Id : uid = unique_identifier(payload)
  <2>1. payload \in ClientHelloCryptos
    BY Payload
    DEF HandleClientHelloCrypto, Handles, Consumes, MappingInv, IInv, Inv
  <2> QED
    BY <2>1, Identifiers DEF unique_identifier, ClientHelloCryptos
<1>2. key \in Attempt
  BY Payload
  DEF HandleClientHelloCrypto, Handles, Consumes, MappingInv, IInv, Inv,
      ClientHelloCryptos
<1>3. SharedKey(key, key) # None
  BY <1>2, NoneAssumption DEF SharedKey, Key
<1>4. ServerTypeOK
  BY DEF MappingInv, IInv, Inv, ServerInv
<1>5. Keyed' = Keyed \cup {uid}
  BY <1>1, <1>3, <1>4
  DEF HandleClientHelloCrypto, establish_server_session, Keyed, ServerTypeOK
<1>6. UNCHANGED <<Held, Sessions>>
  BY SameService DEF HandleClientHelloCrypto
<1>7. /\ \A i \in Id \ {uid} : handshake_states_'[i] = handshake_states_[i]
      /\ handshake_states_'[uid].session_state = "HANDSHAKE_CLIENT_HELLO"
  <2> DEFINE old == IF handshake_states_[uid] = None
                    THEN DefaultEntry ELSE handshake_states_[uid]
             new == [old EXCEPT !.session_state = "HANDSHAKE_CLIENT_HELLO"]
  <2>1. old \in SessionConfig
    BY <1>4, DefaultTyped DEF ServerTypeOK
  <2>2. new.session_state = "HANDSHAKE_CLIENT_HELLO"
    BY <2>1 DEF SessionConfig
  <2>3. handshake_states_' = [handshake_states_ EXCEPT ![uid] = new]
    BY <1>1 DEF HandleClientHelloCrypto
  <2> HIDE DEF new
  <2> QED
    BY <1>4, <2>2, <2>3 DEF ServerTypeOK
<1>8. Offers' = [Offers EXCEPT ![uid] = None]
  BY <1>7 DEF Offers, OfferOf, AckExpected
<1> QED
  BY <1>5, <1>6, <1>8 DEF Service!GrantKey

LEMMA HelloOffers ==
  ASSUME MappingInv, HandleClientHello
  PROVE  \E id \in Id, ip \in Address \cup {NoAddress} : Service!Offer(id, ip)
<1> DEFINE h == payload.handshake_identifier
           mode == payload.tunnel_mode
<1>1. PICK id \in Id, ip \in Address \cup {NoAddress} :
        /\ id = payload.client_base_id
        /\ HelloExpected(id)
        /\ CanSeal(id)
        /\ allocate_ip(ip)
        /\ handshake_states_' =
             [handshake_states_ EXCEPT ![id] = Offer(h, ip, mode)]
  <2>1. payload.client_base_id \in Id
    BY Payload
    DEF HandleClientHello, Handles, Consumes, MappingInv, IInv, Inv,
        ClientHellos
  <2> QED
    BY <2>1 DEF HandleClientHello
<1>2. Offer(h, ip, mode) \in SessionConfig
  <2>1. payload \in ClientHellos
    BY Payload
    DEF HandleClientHello, Handles, Consumes, MappingInv, IInv, Inv
  <2> QED
    BY <2>1 DEF ClientHellos, Offer, SessionConfig
<1>3. ServerTypeOK /\ PoolTypeOK
  BY DEF MappingInv, IInv, Inv, ServerInv, ServerTypeOK
<1>4. UNCHANGED <<Keyed, Sessions>>
  BY SameService DEF HandleClientHello
<1>5. Offers[id] = None
  BY <1>1, <1>3, OfferedAddress DEF HelloExpected, AckExpected
<1>6. ServerEncrypts => id \in Keyed
  BY <1>1 DEF CanSeal, Keyed
<1>7. Offers' = [Offers EXCEPT ![id] = ip]
  <2>1. handshake_states_'[id] = Offer(h, ip, mode)
    BY <1>1, <1>3 DEF ServerTypeOK
  <2>2. \A i \in Id \ {id} : handshake_states_'[i] = handshake_states_[i]
    BY <1>1, <1>3 DEF ServerTypeOK
  <2>3. OfferOf(id)' = ip
    BY <1>2, <2>1, NoneAssumption DEF OfferOf, AckExpected, Offer
  <2>4. \A i \in Id \ {id} : OfferOf(i)' = OfferOf(i)
    BY <2>2 DEF OfferOf, AckExpected
  <2> QED
    BY <2>3, <2>4 DEF Offers
<1>8. CASE ip \in Address
  <2>1. ip # NoAddress
    BY <1>8, PoolSizeAssumption DEF Address, NoAddress
  <2>2. /\ ip_usage[ip - 1] = FALSE
        /\ ip_usage' = [ip_usage EXCEPT ![ip - 1] = TRUE]
    BY <1>1, <1>3, <1>8, AllocateAddress
  <2>3. ip \in Address \ Held /\ Held' = Held \cup {ip}
    BY <1>3, <1>8, <2>2, SlotOfAddress DEF Held, PoolTypeOK
  <2> QED
    BY <1>4, <1>5, <1>6, <1>7, <2>1, <2>3 DEF Service!Offer
<1>9. CASE ip = NoAddress
  <2>1. (\A i \in Allocatable : ip_usage[i]) /\ UNCHANGED ip_usage
    BY <1>1, <1>3, <1>9, AllocateNothing
  <2>2. Held = Address /\ UNCHANGED Held
    BY <2>1, SlotOfAddress, SameService DEF Held
  <2> QED
    BY <1>4, <1>5, <1>6, <1>7, <1>9, <2>2 DEF Service!Offer
<1> QED
  BY <1>8, <1>9

LEMMA FinishEstablishes ==
  ASSUME MappingInv, FinishClientAck
  PROVE  \E id \in Id : Service!Establish(id)
<1>1. PICK id \in Id : id = establishing
  BY DEF FinishClientAck, MappingInv, IInv, Inv, ServerInv, ServerTypeOK
<1>2. ServerTypeOK
  BY DEF MappingInv, IInv, Inv, ServerInv
<1>3. AckExpected(id)
  BY <1>1 DEF FinishClientAck, MappingInv, EntryStays
<1>4. UNCHANGED <<Keyed, Held>>
  BY SameService DEF FinishClientAck
<1>5. Offers[id] # None /\ Offers[id] = handshake_states_[id].client_address
  BY <1>2, <1>3, OfferedAddress
<1>6. Offers' = [Offers EXCEPT ![id] = None]
  BY <1>1, <1>2
  DEF FinishClientAck, EraseHandshake, DefaultEntry, Offers, OfferOf,
      AckExpected, ServerTypeOK
<1>7. Sessions' = [Sessions EXCEPT ![id] = Offers[id]]
  <2>1. active_clients_' = [active_clients_ EXCEPT
                              ![id] = handshake_states_[id]]
    BY <1>1 DEF FinishClientAck, add_session
  <2>2. handshake_states_[id] # None
    BY <1>3 DEF AckExpected
  <2> QED
    BY <1>2, <1>5, <2>1, <2>2 DEF Sessions, SessionOf, has_session, ServerTypeOK
<1> QED
  BY <1>4, <1>5, <1>6, <1>7 DEF Service!Establish

LEMMA TerminationTerminates ==
  ASSUME MappingInv, HandleSessionTermination
  PROVE  \E id \in Id : Service!Terminate(id)
<1>1. PICK id \in Id, a \in Address \cup {NoAddress} :
        /\ has_session(id)
        /\ a = active_clients_[id].client_address
        /\ remove_session(id)
        /\ release_ip(a)
  BY Payload, SessionTyped
  DEF HandleSessionTermination, Handles, Consumes, MappingInv, IInv, Inv,
      ServerInv, SessionTerminations
<1>2. ServerTypeOK /\ PoolTypeOK
  BY DEF MappingInv, IInv, Inv, ServerInv, ServerTypeOK
<1>3. UNCHANGED <<Keyed, Offers>>
  BY SameService DEF HandleSessionTermination
<1>4. Sessions[id] = a /\ Sessions[id] # None
  BY <1>1, <1>2, OfferedAddress
<1>5. Sessions' = [Sessions EXCEPT ![id] = None]
  BY <1>1, <1>2
  DEF remove_session, Sessions, SessionOf, has_session, ServerTypeOK
<1>6. Held' = Held \ {a}
  <2>1. CASE a = NoAddress
    BY <1>1, <2>1, PoolSizeAssumption
    DEF release_ip, Releasable, NoAddress, Held, Address
  <2>2. CASE a \in Address
    BY <1>1, <1>2, <2>2, ReleaseAddress, SlotOfAddress DEF Held, PoolTypeOK
  <2> QED
    BY <2>1, <2>2
<1> QED
  BY <1>3, <1>4, <1>5, <1>6 DEF Service!Terminate

LEMMA EndIsEndOfService ==
  ASSUME NEW pc, ServerProcessEnds(pc)
  PROVE  Service!EndOfService
<1>1. Keyed' = {}
  BY DEF ServerProcessEnds, NoEntries, Keyed
<1>2. Held' = {}
  BY SlotOfAddress DEF ServerProcessEnds, Held
<1>3. Offers' = [id \in Id |-> None]
  BY DEF ServerProcessEnds, NoEntries, Offers, OfferOf, AckExpected
<1>4. Sessions' = [id \in Id |-> None]
  BY DEF ServerProcessEnds, NoEntries, Sessions, SessionOf, has_session
<1> QED
  BY <1>1, <1>2, <1>3, <1>4
  DEF Service!EndOfService, Service!NobodyHasOne, Service!Id, Id

LEMMA NextImplementsService ==
  ASSUME MappingInv, [Next]_vars
  PROVE  Service!ServiceNext \/ Stutter
<1>1. ASSUME UNCHANGED <<session_map_, ip_usage, handshake_states_,
                         active_clients_>>
      PROVE  Stutter
  BY <1>1, SameService DEF Stutter
<1>2. CASE UNCHANGED vars
  BY <1>1, <1>2 DEF vars, serverVars, memoryVars
<1>3. ASSUME NEW c \in Clients, ClientStep(c) PROVE Stutter
  BY <1>1, <1>3 DEF ClientStep, serverVars, memoryVars
<1>4. ASSUME StartServer \/ HandleClientAck \/ RejectClientHello
               \/ RejectClientAck \/ IgnoreSessionTermination
      PROVE  Stutter
  BY <1>1, <1>4 DEF StartServer, HandleClientAck, RejectClientHello,
     RejectClientAck, IgnoreSessionTermination, serverVars, memoryVars
<1>5. ASSUME StopServer \/ KillServer \/ ThrowUndecryptable
               \/ ThrowCannotSeal \/ ThrowAckMismatch
      PROVE  Service!ServiceNext
  BY <1>5, EndIsEndOfService
  DEF StopServer, KillServer, ThrowUndecryptable, ThrowCannotSeal,
      ThrowAckMismatch, Service!ServiceNext
<1>6. ASSUME HandleClientHelloCrypto \/ HandleClientHello \/ FinishClientAck
               \/ HandleSessionTermination
      PROVE  Service!ServiceNext
  BY <1>6, HelloCryptoGrants, HelloOffers, FinishEstablishes,
     TerminationTerminates DEF Service!ServiceNext, Service!Id, Id
<1>7. ASSUME ServerStep PROVE Service!ServiceNext \/ Stutter
  BY <1>4, <1>5, <1>6, <1>7 DEF ServerStep, ServerLoop
<1> QED
  BY <1>2, <1>3, <1>7 DEF Next

(***************************************************************************)
(* The server, its messages, exceptions and restarts included, implements  *)
(* the service: for any number of clients, runs and addresses, each of its *)
(* steps is one of the service's, for one identifier, or none.             *)
(***************************************************************************)
THEOREM ServerImplementsService ==
  Spec => ImplementsSessionService
<1>1. Init => Service!ServiceInit
  BY InitImplementsService
<1>2. Init => EntryStays
  BY EntryStaysInit
<1>3. IInv /\ EntryStays /\ [Next]_vars => EntryStays'
  BY EntryStaysStep
<1>4. IInv /\ EntryStays /\ [Next]_vars =>
        [Service!ServiceNext]_Service!serviceVars
  BY NextImplementsService DEF MappingInv, Stutter, Service!serviceVars
<1> QED
  BY <1>1, <1>2, <1>3, <1>4, IInvHolds, PTL
  DEF Spec, ImplementsSessionService, Service!ServiceSpec
=============================================================================
