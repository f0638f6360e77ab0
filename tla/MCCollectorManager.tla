------------------------- MODULE MCCollectorManager -------------------------
(* Small instances of CollectorManager for TLC.                            *)
EXTENDS CollectorManager

\* one collector of every kind, in the order Manager.Init appends them
ThreeKinds == <<"ring", "protocol", "host">>

\* a single collector, where only the command table matters
OneKind == <<"protocol">>
=============================================================================
