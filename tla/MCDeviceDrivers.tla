-------------------------- MODULE MCDeviceDrivers --------------------------
(* The five makes, and the firmwares of each that behave differently.      *)
EXTENDS DeviceDrivers, TLC

Plain(vendor) == [vendor |-> vendor, pairs |-> FALSE, narrow |-> FALSE, keeps |-> FALSE, exact |-> FALSE, cuts |-> FALSE]
MCFirmwares ==
    {Plain(v) : v \in Vendors} \cup
    {[Plain("topsec") EXCEPT !.pairs = TRUE], [Plain("nsfocus") EXCEPT !.cuts = TRUE],
     [Plain("qianxin") EXCEPT !.narrow = TRUE], [Plain("qianxin") EXCEPT !.keeps = TRUE, !.exact = TRUE]}
DriverSymmetry == Permutations(Callers) \cup Permutations(Addresses)
=============================================================================
