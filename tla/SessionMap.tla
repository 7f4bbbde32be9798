----------------------------- MODULE SessionMap -----------------------------
(***************************************************************************)
(* SessionMap<SessionConfig>: the sessions of the server by identifier.    *)
(* Its mutex makes each operation one atomic action.                       *)
(***************************************************************************)
EXTENDS Messages

VARIABLE active_clients_      \* session of each identifier, or None

NoEntries == [i \in Id |-> None]

\* add_session() replaces the session that the identifier may have.
add_session(id, config) ==
  active_clients_' = [active_clients_ EXCEPT ![id] = config]

\* get_session() answers true
has_session(id) == active_clients_[id] # None

\* Mutants: the map is cleared; nothing is erased; every identifier that
\* begins with the same client is erased.
remove_session_clears(id) == active_clients_' = NoEntries
remove_session_forgets(id) == UNCHANGED active_clients_
remove_session_prefix(id) ==
  active_clients_' =
    [i \in Id |-> IF i[1] = id[1] THEN None ELSE active_clients_[i]]

remove_session(id) ==
  active_clients_' = [active_clients_ EXCEPT ![id] = None]
=============================================================================
