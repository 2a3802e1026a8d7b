---------------------------- MODULE MCDeviceStore ----------------------------
(* Scripts that disagree about which field is secret.                      *)
EXTENDS DeviceStore
CONSTANTS host, key
MCSchemas == {[plain |-> {host}, secret |-> {key}, required |-> {host, key}],
              [plain |-> {host, key}, secret |-> {}, required |-> {host}],
              [plain |-> {}, secret |-> {host, key}, required |-> {key}],
              [plain |-> {host}, secret |-> {}, required |-> {}]}
MCUnfit == {<<host, "enc:x">>}
=============================================================================
