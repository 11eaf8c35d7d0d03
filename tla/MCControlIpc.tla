----------------------------- MODULE MCControlIpc -----------------------------
(* Two connections, so that one can quit while the other waits.            *)
EXTENDS ControlIpc

CONSTANTS c1, c2

Connections == {c1, c2}
===============================================================================
