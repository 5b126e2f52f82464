----------------------------- MODULE MCDevices -----------------------------
(***************************************************************************)
(* Small instance of Devices for TLC: numbers below, at and above every    *)
(* limit of a handler, and one that only fits an int once it has wrapped.  *)
(***************************************************************************)
EXTENDS Devices

MCNumbers == {-1, 0, 50, 100, 101, 180, 181, 20000, 20001, IntMod + 50}
MCAdcSamples == {-32768, -1, 0, 40, 41, 2048, 4094, 4095, 4096, 32767}
MCSensorValues ==
    {v \in [val1 : {-40, -1, 0, 1, 40}, val2 : {-999999, -1, 0, 1, 999999}] :
        ~(v.val1 > 0 /\ v.val2 < 0) /\ ~(v.val1 < 0 /\ v.val2 > 0)}
=============================================================================
