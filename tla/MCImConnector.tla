--------------------------- MODULE MCImConnector ---------------------------
(* Two socket names: the socket in ws and one more.  A name is free again   *)
(* once its socket is over and ws has moved on, so two sockets can be alive *)
(* and the reconnect loop never runs out of names.                          *)
EXTENDS ImConnector

CONSTANTS s1, s2

MCSockets == {s1, s2}
=============================================================================
