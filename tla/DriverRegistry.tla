--------------------------- MODULE DriverRegistry ---------------------------
(***************************************************************************)
(* The driver scripts administrators upload: files in custom/, a file of   *)
(* what was uploaded by whom, and the cache of loaded drivers everything   *)
(* else reads.  An upload runs within the event loop, one at a time; a     *)
(* deletion runs in a thread beside it and beside other deletions.         *)
(***************************************************************************)
EXTENDS Integers, FiniteSets

CONSTANTS
    Loop,           \* the event loop
    Deleters,        \* threads that handle deletions
    Keys,           \* keys of uploaded scripts
    Scripts,        \* texts that pass the checks: [name, text]
    BuiltinNames,   \* display names of the built-in drivers
    Missing,           \* no script, no record
    MaxRequests,    \* bound: uploads and deletions
    MaxMishaps      \* bound: failed writes and restarts

Requesters == {Loop} \cup Deleters
Shelf == [Keys -> Scripts \cup {Missing}]
Driver == [script: Scripts, meta: Scripts \cup {Missing}]

ASSUME RegistryAssumption ==
    /\ Loop \notin Deleters /\ Missing \notin Scripts \cup Keys \cup Driver
    /\ \A s \in Scripts : s = [name |-> s.name, text |-> s.text]
    /\ MaxRequests \in Nat /\ MaxMishaps \in Nat

VARIABLES
    files,      \* the scripts in custom/
    meta,       \* .meta.json: of each key the script it speaks of
    temporary,  \* .meta.json.tmp, or Missing
    drivers,    \* scan._cache, as far as uploaded drivers go
    handling,   \* what each handler is at
    handled, mishap,
    shaken,     \* history: requests overlapped or one broke off, and nothing has mended the cache since
    strayed,    \* history: an upload was checked while shaken
    settled     \* history: the key of the last request, if it ran alone and nothing came after it

registryVars == <<files, meta, temporary, drivers, handling, handled, mishap, shaken, strayed, settled>>

Resting == [step |-> "idle", op |-> "none", key |-> Missing, script |-> Missing, data |-> Missing, alone |-> FALSE]

\* A record file that cannot be read counts as empty.
NoRecords == [k \in Keys |-> Missing]
\* Scripts without a record have an empty one.
FromDisk(records) == [k \in Keys |-> IF files[k] = Missing THEN Missing ELSE [script |-> files[k], meta |-> records[k]]]
Registered == FromDisk(meta)

RegistryInit ==
    /\ files = NoRecords /\ meta = NoRecords /\ drivers = NoRecords
    /\ temporary = Missing
    /\ handling = [h \in Requesters |-> Resting]
    /\ handled = 0 /\ mishap = 0
    /\ shaken = FALSE /\ strayed = FALSE /\ settled = Missing

On(h, step) == handling[h].step = step
Busy == {h \in Requesters : ~On(h, "idle")}
Goto(h, step) == handling' = [handling EXCEPT ![h].step = step]
\* An exception: the request ends where it is.
Quits(h) == handling' = [handling EXCEPT ![h] = Resting]
\* Likewise, the scripts on disk already changed and the cache not yet.
BreaksOff(h) == Quits(h) /\ shaken' = TRUE
Mishap == mishap < MaxMishaps /\ mishap' = mishap + 1
Reads(records) == IF records = meta THEN UNCHANGED mishap ELSE Mishap

Starts(h, record) ==
    /\ On(h, "idle") /\ handled < MaxRequests
    /\ handled' = handled + 1
    /\ handling' = [g \in Requesters |-> IF g = h THEN [record EXCEPT !.alone = Busy = {}]
                                      ELSE [handling[g] EXCEPT !.alone = FALSE]]
    /\ shaken' = (shaken \/ Busy # {}) /\ settled' = Missing
    /\ UNCHANGED <<files, meta, temporary, drivers, mishap, strayed>>

\* install_script up to the existence check; a refused upload changes nothing.
Upload(key, script, overwrite) ==
    /\ files[key] = Missing \/ overwrite
    /\ Starts(Loop, [Resting EXCEPT !.step = "check", !.op = "upload", !.key = key, !.script = script])

\* Mutation: only the built-in drivers are looked at.
BuiltinNamesOnly(key) == BuiltinNames
NamesInUse(key) == BuiltinNames \cup {drivers[k].script.name : k \in {l \in Keys \ {key} : drivers[l] # Missing}}
CheckDisplayName ==
    /\ On(Loop, "check")
    /\ IF handling[Loop].script.name \in NamesInUse(handling[Loop].key)
       THEN Quits(Loop) /\ UNCHANGED strayed
       ELSE Goto(Loop, "move") /\ strayed' = (strayed \/ shaken)
    /\ UNCHANGED <<files, meta, temporary, drivers, handled, mishap, shaken, settled>>

Move ==
    /\ On(Loop, "move")
    /\ \/ files' = [files EXCEPT ![handling[Loop].key] = handling[Loop].script]
          /\ Goto(Loop, "meta") /\ UNCHANGED mishap
       \/ Mishap /\ Quits(Loop) /\ UNCHANGED files
    /\ UNCHANGED <<meta, temporary, drivers, handled, shaken, strayed, settled>>

Delete(h, key) ==
    /\ files[key] # Missing
    /\ Starts(h, [Resting EXCEPT !.step = "unlink", !.op = "delete", !.key = key])

\* Another deletion may have been faster.
Unlink(h) ==
    /\ On(h, "unlink")
    /\ IF files[handling[h].key] = Missing THEN Quits(h) /\ UNCHANGED files
       ELSE files' = [files EXCEPT ![handling[h].key] = Missing] /\ Goto(h, "meta")
    /\ UNCHANGED <<meta, temporary, drivers, handled, mishap, shaken, strayed, settled>>

\* A record that is not there needs no writing.
ReadMeta(h) ==
    LET r == handling[h]
    IN  /\ On(h, "meta")
        /\ \E records \in {meta, NoRecords} :
             /\ Reads(records)
             /\ handling' = [handling EXCEPT
                  ![h].data = [records EXCEPT ![r.key] = r.script],
                  ![h].step = IF r.op = "delete" /\ records[r.key] = Missing THEN "scan" ELSE "stage",
                  ![h].alone = r.alone /\ records = meta]
        /\ UNCHANGED <<files, meta, temporary, drivers, handled, shaken, strayed, settled>>

\* All writers use one temporary file.
StageMeta(h) ==
    /\ On(h, "stage")
    /\ \/ temporary' = handling[h].data /\ Goto(h, "replace") /\ UNCHANGED <<mishap, shaken>>
       \/ Mishap /\ BreaksOff(h) /\ UNCHANGED temporary
    /\ UNCHANGED <<files, meta, drivers, handled, strayed, settled>>

\* It fails on a bad disk, or when another writer has already moved the file away.
ReplaceMeta(h) ==
    /\ On(h, "replace")
    /\ \/ /\ temporary # Missing
          /\ meta' = temporary /\ temporary' = Missing /\ Goto(h, "scan") /\ UNCHANGED <<mishap, shaken>>
       \/ /\ IF temporary = Missing THEN UNCHANGED mishap ELSE Mishap
          /\ BreaksOff(h) /\ UNCHANGED <<meta, temporary>>
    /\ UNCHANGED <<files, drivers, handled, strayed, settled>>

\* Mutation: the cache is good enough.
ScanUnforced(h) ==
    /\ On(h, "scan")
    /\ handling' = [handling EXCEPT ![h].data = drivers, ![h].step = "publish"]
    /\ UNCHANGED <<files, meta, temporary, drivers, handled, mishap, shaken, strayed, settled>>
\* The scripts are read and run one after the other, then the cache is replaced.
Scan(h) ==
    /\ On(h, "scan")
    /\ \E records \in {meta, NoRecords} :
         /\ Reads(records)
         /\ handling' = [handling EXCEPT ![h].data = FromDisk(records), ![h].step = "publish",
                                         ![h].alone = handling[h].alone /\ records = meta]
    /\ UNCHANGED <<files, meta, temporary, drivers, handled, shaken, strayed, settled>>

\* Alone, it has brought cache and disk together again.
Publish(h) ==
    /\ On(h, "publish")
    /\ drivers' = handling[h].data
    /\ Quits(h)
    /\ settled' = IF handling[h].alone THEN handling[h].key ELSE Missing
    /\ shaken' = (shaken /\ ~handling[h].alone)
    /\ UNCHANGED <<files, meta, temporary, handled, mishap, strayed>>

\* The responder restarts and scans before it serves.
RestartResponder ==
    /\ Mishap
    /\ handling' = [h \in Requesters |-> Resting]
    /\ drivers' = Registered /\ settled' = Missing /\ shaken' = FALSE
    /\ UNCHANGED <<files, meta, temporary, handled, strayed>>

RegistryNext ==
    \/ \E key \in Keys, script \in Scripts, overwrite \in BOOLEAN : Upload(key, script, overwrite)
    \/ CheckDisplayName \/ Move
    \/ \E h \in Deleters, key \in Keys : Delete(h, key)
    \/ \E h \in Requesters : Unlink(h) \/ ReadMeta(h) \/ StageMeta(h) \/ ReplaceMeta(h) \/ Scan(h) \/ Publish(h)
    \/ RestartResponder

RegistrySpec == RegistryInit /\ [][RegistryNext]_registryVars

-----------------------------------------------------------------------------
(* Properties                                                              *)

\* The variables have their types, and a handler with data has a function in it.
RegistryTypeOK ==
    /\ files \in Shelf /\ meta \in Shelf /\ temporary \in Shelf \cup {Missing}
    /\ drivers \in [Keys -> Driver \cup {Missing}]
    /\ handled \in 0..MaxRequests /\ mishap \in 0..MaxMishaps /\ shaken \in BOOLEAN /\ strayed \in BOOLEAN /\ settled \in Keys \cup {Missing}
    /\ \A h \in Requesters : /\ handling[h].step \in {"idle", "check", "move", "unlink", "meta", "stage", "replace", "scan", "publish"}
                           /\ ~On(h, "idle") => handling[h].key \in Keys

\* Drivers on disk have different display names, and none that of a built-in
\* driver, over uploads, replacements, deletions, broken-off requests and
\* restarts, unless an upload was checked against a cache that requests which
\* overlapped or broke off had left behind the disk, with neither a restart nor
\* a request running alone in between (registry.py:301, _check_display_name).
NamesDiffer ==
    strayed \/ \A k \in Keys : files[k] # Missing =>
        /\ files[k].name \notin BuiltinNames
        /\ \A l \in Keys \ {k} : files[l] # Missing => files[l].name # files[k].name

\* After a request that ran alone and could read the records, whatever went
\* wrong before it, the cache is what the disk holds and the record of its key
\* speaks of its file
\* (registry.py install_script, uninstall_script).
RequestLeavesTruth ==
    settled # Missing => drivers = Registered /\ meta[settled] = files[settled]
=============================================================================
