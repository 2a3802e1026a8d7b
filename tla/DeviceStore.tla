----------------------------- MODULE DeviceStore -----------------------------
(***************************************************************************)
(* The configuration of a saved device.  The driver's script declares the  *)
(* fields, which of them are required and which are secret; the script may *)
(* be replaced by one with other fields, deleted and uploaded again while  *)
(* the device stays.  Secrets are kept sealed, and a secret left blank     *)
(* keeps its value.                                                        *)
(***************************************************************************)
EXTENDS Integers

CONSTANTS
    Fields,         \* names of fields
    Inputs,         \* what can be entered
    Lookalikes,     \* inputs that begin with the prefix of sealed values
    Unfit,          \* <<field, input>> that the type of the field refuses
    Schemas,        \* versions of the script: [plain, secret, required]
    Blank,          \* nothing entered; no value
    MaxSaves        \* bound: times the device is saved

Stored == [sealed: BOOLEAN, value: Inputs]
Row == [config: [Fields -> Stored \cup {Blank}], secrets: SUBSET Fields]

ASSUME StoreAssumption ==
    /\ Blank \notin Inputs \cup Stored \cup Row \cup Schemas \cup {"error"}
    /\ Lookalikes \subseteq Inputs /\ "error" \notin Inputs
    /\ \A s \in Schemas : s.plain \cup s.secret \subseteq Fields /\ s.plain \cap s.secret = {}
    /\ MaxSaves \in Nat

VARIABLES
    schema,     \* the fields of the registered script, or Blank without one
    device,     \* the row: [config, secrets], or Blank
    saves,
    meant,      \* history: of each field the value the script is to get
    secretly    \* history: the fields whose value was entered as a secret

storeVars == <<schema, device, saves, meant, secretly>>

StoreInit ==
    /\ schema = Blank /\ device = Blank /\ saves = 0
    /\ meant = [f \in Fields |-> Blank] /\ secretly = {}

Existing(f) == IF device = Blank THEN Blank ELSE device.config[f]

\* validate_config: known fields only, required ones present, values that fit.
\* A required secret may be left blank if there is a value.
Accepted(payload) ==
    /\ \A f \in Fields : payload[f] # Blank => f \in schema.plain \cup schema.secret /\ <<f, payload[f]>> \notin Unfit
    /\ \A f \in schema.required : payload[f] # Blank \/ (f \in schema.secret /\ Existing(f) # Blank)

\* Mutation: a blank secret is dropped like any other blank field.
SealDropsBlank(payload, f) ==
    CASE payload[f] # Blank -> [sealed |-> f \in schema.secret, value |-> payload[f]]
      [] OTHER              -> Blank
\* A secret left blank stays as it was stored, even if that was in the open.
Seal(payload, f) ==
    CASE payload[f] # Blank                          -> [sealed |-> f \in schema.secret, value |-> payload[f]]
      [] payload[f] = Blank /\ f \in schema.secret   -> Existing(f)
      [] OTHER                                       -> Blank

\* Mutation: only what was entered this time.
SecretsEntered(config, payload) == {f \in schema.secret : payload[f] # Blank}
SecretFields(config, payload) == {f \in schema.secret : config[f] # Blank}

\* The device is created or its configuration edited, if its script is registered.
Save(payload) ==
    LET config == [f \in Fields |-> Seal(payload, f)]
        keeps(f) == payload[f] = Blank /\ f \in schema.secret
    IN  /\ saves < MaxSaves /\ schema # Blank /\ Accepted(payload)
        /\ saves' = saves + 1
        /\ device' = [config |-> config, secrets |-> SecretFields(config, payload)]
        /\ meant' = [f \in Fields |-> IF keeps(f) THEN meant[f] ELSE payload[f]]
        /\ secretly' = {f \in Fields : IF keeps(f) THEN f \in secretly ELSE payload[f] # Blank /\ f \in schema.secret}
        /\ UNCHANGED schema

\* The script is uploaded, replaced or deleted; the device is not looked at.
ChangeScript ==
    /\ schema' \in (Schemas \cup {Blank}) \ {schema}
    /\ UNCHANGED <<device, saves, meant, secretly>>

\* The device may be deleted while no task refers to it.
DeleteDevice ==
    /\ device # Blank /\ device' = Blank
    /\ meant' = [f \in Fields |-> Blank] /\ secretly' = {}
    /\ UNCHANGED <<schema, saves>>

StoreNext == (\E payload \in [Fields -> Inputs \cup {Blank}] : Save(payload)) \/ ChangeScript \/ DeleteDevice

StoreSpec == StoreInit /\ [][StoreNext]_storeVars

\* runtime_config: an open value that looks sealed cannot be opened.
Opened(stored) ==
    IF stored # Blank /\ ~stored.sealed /\ stored.value \in Lookalikes THEN "error"
    ELSE IF stored = Blank THEN Blank ELSE stored.value
\* public_config
Shown == {f \in Fields : device.config[f] # Blank /\ f \notin device.secrets}

-----------------------------------------------------------------------------
(* Properties                                                              *)

\* The variables have their types.
StoreTypeOK == device \in Row \cup {Blank} /\ schema \in Schemas \cup {Blank} /\ saves \in 0..MaxSaves

\* Over any sequence of edits and changes of the script, the script gets of each
\* field what was last entered, also if it was left blank as a secret since, and
\* nothing for a field left blank otherwise; but for open values that look sealed
\* (store.py seal_config, runtime_config; DEVICE_INTEGRATION.md:68).
ScriptGetsWhatWasSaved ==
    device # Blank => \A f \in Fields : Opened(device.config[f]) \in {meant[f], "error"}
                                        /\ (Opened(device.config[f]) = "error" => meant[f] \in Lookalikes)

\* A value that was entered as a secret is not shown, whatever the script has
\* declared since (store.py public_config; DEVICE_INTEGRATION.md:67).
SecretsStayHidden == device # Blank => secretly \cap Shown = {}
=============================================================================
