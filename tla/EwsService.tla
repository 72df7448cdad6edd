---------------------------- MODULE EwsService ----------------------------
(***************************************************************************)
(* What the HTTP server promises the launcher that starts and stops it:    *)
(* requests are handled only between ews_start and the return of ews_stop, *)
(* which comes when the last handler is through.  The handlers reach the   *)
(* EWS_SERVER through connection->server, and ews_stop frees it.           *)
(***************************************************************************)
EXTENDS FiniteSets

CONSTANT Conns

VARIABLES
  phase,   \* "off", "on", or inside ews_stop: "stopping" while the accept
           \* thread may create one more handler, then "draining"
  serving  \* connections whose handler may use the server

svars == <<phase, serving>>

SInit == phase = "off" /\ serving = {}

SStart == phase = "off" /\ phase' = "on" /\ UNCHANGED serving

(* A handler is created, until the accept thread has left its loop.        *)
SBegin(c) ==
  /\ phase \in {"on", "stopping"}
  /\ c \notin serving
  /\ serving' = serving \cup {c}
  /\ UNCHANGED phase

SEnd(c) ==
  /\ c \in serving
  /\ serving' = serving \ {c}
  /\ UNCHANGED phase

(* ews_stop is called; the accept thread may have given up before.         *)
SStop == phase = "on" /\ phase' \in {"stopping", "draining"} /\ UNCHANGED serving

SDrain == phase = "stopping" /\ phase' = "draining" /\ UNCHANGED serving

(* ews_stop frees the server.                                              *)
SOff ==
  /\ phase = "draining"
  /\ serving = {}
  /\ phase' = "off"
  /\ UNCHANGED serving

SNext ==
  \/ SStart \/ SStop \/ SDrain \/ SOff
  \/ \E c \in Conns : SBegin(c) \/ SEnd(c)

SSpec == SInit /\ [][SNext]_svars
===========================================================================
