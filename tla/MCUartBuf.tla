------------------------------ MODULE MCUartBuf -----------------------------
(* One UART with two buffer sizes and two different bytes, to see the       *)
(* buffer itself; two UARTs with the smallest buffer and one byte, to see   *)
(* what they do to each other through the handler slot they share.          *)
EXTENDS UartBuf, TLC

CONSTANTS u1, u2, x, y

OneUart       == {u1}
OneBytes      == u1 :> {x, y}
OneLogSizes   == u1 :> {1, 2}

TwoUarts      == {u1, u2}
TwoBytes      == u1 :> {x} @@ u2 :> {x}
TwoLogSizes   == u1 :> {1} @@ u2 :> {1}
=============================================================================
