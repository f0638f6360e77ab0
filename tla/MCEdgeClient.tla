---------------------------- MODULE MCEdgeClient ----------------------------
(* Small instances of EdgeClient for TLC.                                  *)
EXTENDS EdgeClient

CONSTANTS w1, w2

TwoWriters == {w1, w2}
=============================================================================
