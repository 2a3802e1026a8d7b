-------------------------- MODULE MCDriverRegistry --------------------------
(* Two keys, and scripts of which two have the same name.                  *)
EXTENDS DriverRegistry, TLC
MCScripts == {[name |-> "fw", text |-> 1], [name |-> "fw", text |-> 2], [name |-> "ips", text |-> 1], [name |-> "own", text |-> 1]}
=============================================================================
