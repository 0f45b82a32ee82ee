---------------------------- MODULE MCConnectorHub ----------------------------
(***************************************************************************)
(* Instances of ConnectorHub for TLC: an open-tcp, a probe, and an agent   *)
(* that connects twice.                                                    *)
(***************************************************************************)
EXTENDS ConnectorHub

\* What goes wrong in the main run: each set on its own.
Mixed == { {"drop"}, {"late", "cancel", "refuse", "dataFails", "freeze"} }

Drops == {{"drop"}}
=============================================================================
