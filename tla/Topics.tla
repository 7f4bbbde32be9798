------------------------------- MODULE Topics -------------------------------
(***************************************************************************)
(* The names of the data topics.  A name is the sequence of its levels,    *)
(* what stands between its slashes; no level is empty.  The server builds  *)
(* the two topics of a session from the command topic and the identifier,  *)
(* both given by the user and free to contain slashes; the receiver of a   *)
(* packet takes the identifier out of the topic again.                     *)
(***************************************************************************)
EXTENDS Naturals, Sequences

\* command_channel_name_ + "/" + identifier + "/A" or "/B"
data_topic(command, identifier, direction) ==
  command \o identifier \o <<direction>>

\* What stands between the first two slashes, or nothing without two slashes.
extract_client_id_from_topic(topic) ==
  IF Len(topic) >= 3 THEN <<topic[2]>> ELSE <<>>
=============================================================================
