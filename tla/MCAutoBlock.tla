----------------------------- MODULE MCAutoBlock -----------------------------
(* Finite instances of AutoBlock.                                          *)
EXTENDS AutoBlock, TLC

CONSTANTS a1, a2, e1, e2

\* One alert per address; a2 is also the address of a further alert if e2 is.
MCSourceIp == (e1 :> a1) @@ [e \in Alerts |-> IF a2 \in Addresses THEN a2 ELSE a1]
MCNetworks == {{a1}}
DeviceSymmetry == Permutations(Devices)
=============================================================================
