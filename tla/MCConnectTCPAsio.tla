-------------------------- MODULE MCConnectTCPAsio --------------------------
(* A connection used for a few operations, in every order, with aborts and *)
(* with destruction at any moment.                                         *)
EXTENDS ConnectTCPAsio

CONSTANTS conn, recv, send, disc, acc

const_Op == [c \in Cmds |->
    CASE c = recv -> "RECEIVE"
      [] c = send -> "SEND"
      [] c = disc -> "DISCONNECT"
      [] c = acc -> "ACCEPT"
      [] OTHER -> "CONNECT"]
=============================================================================
