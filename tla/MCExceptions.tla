---------------------------- MODULE MCExceptions ----------------------------
(* Exceptions with one value of sp_usr in RAM and one, 0, that is not.      *)
EXTENDS Exceptions

GoodSp == 868220928    \* 0x33c00000
MCUsrSp == {GoodSp, 0}
=============================================================================
