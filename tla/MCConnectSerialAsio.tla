------------------------ MODULE MCConnectSerialAsio ------------------------
(* A serial port used for a few operations, in every order, with aborts    *)
(* and with destruction at any moment.                                     *)
EXTENDS ConnectSerialAsio

CONSTANTS conn, again, recv, send, disc

const_Op == [c \in Cmds |->
    CASE c = recv -> "RECEIVE"
      [] c = send -> "SEND"
      [] c = disc -> "DISCONNECT"
      [] OTHER -> "CONNECT"]
=============================================================================
