------------------------------- MODULE MCUart -------------------------------
(* Instance of Uart: bytes that begin and end with either level.              *)
EXTENDS Uart

MCBytes == {{}, {0, 2}, {1}}
============================================================================
