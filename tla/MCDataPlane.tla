---------------------------- MODULE MCDataPlane -----------------------------
(***************************************************************************)
(* DataPlane for TLC.  A command topic of one level, and the one that the  *)
(* program uses when none is given, mqtt_tunnel/commands.                  *)
(***************************************************************************)
EXTENDS DataPlane, TLC

CONSTANTS mqtt_tunnel, commands

NamesOfLevels == {mqtt_tunnel, commands}

OneLevel == {<<mqtt_tunnel>>}
DefaultTopic == {<<mqtt_tunnel, commands>>}
=============================================================================
