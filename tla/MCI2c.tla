------------------------------- MODULE MCI2c -------------------------------
(***************************************************************************)
(* Model-checking instances of I2c: bytes of three bits and addresses of   *)
(* two.                                                                    *)
(***************************************************************************)
EXTENDS I2c

MCId     == {0}
MCAddrs  == {{0}, {0, 1}}
MCValues == {{0}, {1}, {0, 2}}
MCInputs == {{0, 1, 2}, {1, 2}}
============================================================================
