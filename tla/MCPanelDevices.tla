--------------------------- MODULE MCPanelDevices ---------------------------
(* Instance for TLC of the panel's clients, nodes and profiles.            *)
EXTENDS PanelDevices

MCPool == {2, 3}
MCExpiries == {1, Never}
=============================================================================
