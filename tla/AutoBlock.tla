------------------------------ MODULE AutoBlock ------------------------------
(***************************************************************************)
(* Automatic and manual blocking of the alert responder.                   *)
(*                                                                         *)
(* The analyzer inserts a row into response_pending_actions for every      *)
(* response task an alert matches.  A background job takes the due rows in *)
(* rounds, calls the driver script of the row's device, writes a block     *)
(* record, marks the alert blocked=true and deletes the row; a failed call *)
(* backs off and is given up after MAX_ATTEMPTS.  Administrators act on    *)
(* tasks, devices, whitelist and driver scripts meanwhile, block addresses *)
(* by hand and revoke earlier blocks; each of these calls the same         *)
(* executor.  Every commit is a step of its own, so a crash or an error    *)
(* can fall between any two of them.                                       *)
(*                                                                         *)
(* Identifiers are never handed out twice (serial primary keys): a deleted *)
(* task or device is remembered in `spent'.                                *)
(***************************************************************************)
EXTENDS Integers, FiniteSets, Sequences, Functions

CONSTANTS
    Tasks,          \* ids of response_tasks
    Devices,        \* ids of response_devices
    Presets,        \* alert search presets a task can be bound to
    Drivers,        \* driver script keys
    Builtin,        \* the scripts shipped in devices/, which cannot be removed
    Addresses,      \* source addresses
    Networks,       \* CIDR blocks of the whitelist, each a set of addresses
    Alerts,         \* analysed alerts (event ids)
    SourceIp,       \* the usable source address of an alert, None if it has none
    Handlers,       \* request threads serving /actions and /records/{id}/revoke
    Consumer,       \* the scheduler thread running process_pending
    None,           \* no value
    MAX_ATTEMPTS,   \* auto_block.MAX_ATTEMPTS
    BATCH,          \* auto_block.BATCH
    MaxRows,        \* bound: pending rows inserted over a behaviour
    MaxRecords,     \* bound: records after which no manual request is taken
    MaxFaults       \* bound: crashes and database errors over a behaviour

Workers == Handlers \cup {Consumer}
RowIds == 1..MaxRows
Manual == 0                                 \* task_id of a manual record
Documents == {"alert", "result"}            \* an alert has both in Elasticsearch

TaskRow == [device: Devices, preset: Presets, enabled: BOOLEAN]
DeviceRow == [driver: Drivers, enabled: BOOLEAN]
PendingRow == [task: Tasks, device: Devices, ip: Addresses, event: Alerts,
               attempts: 0..(MAX_ATTEMPTS - 1), due: BOOLEAN]
Record == [task: Tasks \cup {Manual}, device: Devices, ip: Addresses,
           action: {"block", "unblock"}, status: {"success", "failed"},
           event: Alerts \cup {None}]
\* What a worker carries through a call of executor.run_device_action and
\* executor.record_action; `row' is the pending row, None for a manual call.
Job == [phase: {"call", "record", "mark", "count", "drop"},
        row: RowIds \cup {None}, task: Tasks \cup {Manual}, device: Devices,
        ip: Addresses, action: {"block", "unblock"}, event: Alerts \cup {None},
        applied: BOOLEAN, status: {"success", "failed"}]

ASSUME ConstantsAssumption ==
    /\ Builtin \subseteq Drivers
    /\ Networks \subseteq SUBSET Addresses
    /\ SourceIp \in [Alerts -> Addresses \cup {None}]
    /\ Consumer \notin Handlers
    /\ Manual \notin Tasks
    /\ None \notin Addresses \cup Alerts \cup RowIds \cup Job
    /\ MAX_ATTEMPTS \in Nat \ {0}
    /\ BATCH \in Nat \ {0}
    /\ MaxRows \in Nat /\ MaxRecords \in Nat /\ MaxFaults \in Nat

VARIABLES
    tasks, devices,   \* live rows of the two tables, by id
    spent,            \* ids of deleted tasks and devices
    installed,        \* driver scripts the registry can load
    whitelist,        \* response_whitelist
    pending,          \* response_pending_actions, by row id
    lastRow,          \* the highest row id given out
    records,          \* response_block_records, in id order
    marked,           \* documents whose `blocked' is true
    blacklist,        \* what each physical device blocks
    batch,            \* rows the current round has still to handle
    job,              \* what each worker is doing, None when nothing
    faults,           \* crashes and database errors so far
    \* history, for the properties only
    tally,            \* device calls and successes of each pending row
    lost,             \* blocks whose record an error or crash has swallowed
    exposed           \* addresses the whitelist has not covered at some time

tables == <<tasks, devices, spent, installed, whitelist>>
history == <<tally, lost, exposed>>
vars == <<tables, pending, lastRow, records, marked, blacklist, batch, job,
          faults, history>>

Put(f, x, v) == [y \in DOMAIN f \cup {x} |-> IF y = x THEN v ELSE f[y]]
Delete(f, x) == [y \in DOMAIN f \ {x} |-> f[y]]

Whitelisted(ip, nets) == \E n \in nets : ip \in n

Init ==
    /\ tasks = << >> /\ devices = << >> /\ spent = {}
    /\ installed = Drivers
    /\ whitelist \in SUBSET Networks
    /\ pending = << >> /\ lastRow = 0
    /\ records = << >> /\ marked = {}
    /\ blacklist = [d \in Devices |-> {}]
    /\ batch = {} /\ job = [w \in Workers |-> None]
    /\ faults = 0
    /\ tally = [r \in RowIds |-> [tries |-> 0, wins |-> 0]]
    /\ lost = {}
    /\ exposed = {a \in Addresses : ~Whitelisted(a, whitelist)}

-----------------------------------------------------------------------------
(* Administration: each request is one database transaction.               *)

rest == <<pending, lastRow, records, marked, blacklist, batch, job, faults, tally, lost>>

CreateDevice(d, k, on) ==
    /\ d \notin DOMAIN devices \cup spent
    /\ k \in installed                                    \* _spec_or_404
    /\ devices' = Put(devices, d, [driver |-> k, enabled |-> on])
    /\ UNCHANGED <<tasks, spent, installed, whitelist, exposed, rest>>

\* Without its script a device cannot be updated, hence not disabled either.
UpdateDevice(d, on) ==
    /\ d \in DOMAIN devices
    /\ devices[d].driver \in installed
    /\ devices' = [devices EXCEPT ![d].enabled = on]
    /\ UNCHANGED <<tasks, spent, installed, whitelist, exposed, rest>>

DeleteDevice(d) ==
    /\ d \in DOMAIN devices
    /\ \A t \in DOMAIN tasks : tasks[t].device # d        \* 409 otherwise
    /\ devices' = Delete(devices, d)
    /\ spent' = spent \cup {d}
    /\ UNCHANGED <<tasks, installed, whitelist, exposed, rest>>

\* uq_response_tasks_device_preset
Unbound(d, p, t) ==
    \A u \in DOMAIN tasks \ {t} : ~(tasks[u].device = d /\ tasks[u].preset = p)

CreateTask(t, d, p, on) ==
    /\ t \notin DOMAIN tasks \cup spent
    /\ d \in DOMAIN devices
    /\ Unbound(d, p, t)
    /\ tasks' = Put(tasks, t, [device |-> d, preset |-> p, enabled |-> on])
    /\ UNCHANGED <<devices, spent, installed, whitelist, exposed, rest>>

UpdateTask(t, d, p, on) ==
    /\ t \in DOMAIN tasks
    /\ d \in DOMAIN devices
    /\ Unbound(d, p, t)
    /\ tasks' = [tasks EXCEPT ![t] = [device |-> d, preset |-> p, enabled |-> on]]
    /\ UNCHANGED <<devices, spent, installed, whitelist, exposed, rest>>

\* The pending rows of the task stay; the consumer drops them later.
DeleteTask(t) ==
    /\ t \in DOMAIN tasks
    /\ tasks' = Delete(tasks, t)
    /\ spent' = spent \cup {t}
    /\ UNCHANGED <<devices, installed, whitelist, exposed, rest>>

SetWhitelist(nets) ==
    /\ whitelist' = nets
    /\ exposed' = exposed \cup {a \in Addresses : ~Whitelisted(a, nets)}
    /\ UNCHANGED <<tasks, devices, spent, installed, rest>>

CreateWhitelist(n) == n \notin whitelist /\ SetWhitelist(whitelist \cup {n})
DeleteWhitelist(n) == n \in whitelist /\ SetWhitelist(whitelist \ {n})

InstallScript(k) ==
    /\ k \in Drivers \ installed
    /\ installed' = installed \cup {k}
    /\ UNCHANGED <<tasks, devices, spent, whitelist, exposed, rest>>

\* No check that a device still uses the script.
UninstallScript(k) ==
    /\ k \in installed \ Builtin
    /\ installed' = installed \ {k}
    /\ UNCHANGED <<tasks, devices, spent, whitelist, exposed, rest>>

-----------------------------------------------------------------------------
(* The analyzer: one transaction inserts the rows of all matched tasks.    *)

\* INSERT_PENDING finds the task and its device enabled, and no conflict on
\* (task_id, device_id, ip).
Insertable(t, ip) ==
    /\ t \in DOMAIN tasks
    /\ tasks[t].enabled
    /\ devices[tasks[t].device].enabled
    /\ \A r \in DOMAIN pending : ~(/\ pending[r].task = t
                                   /\ pending[r].device = tasks[t].device
                                   /\ pending[r].ip = ip)

\* `hits' is whatever the percolator index returned, stale entries included.
EnqueueTaskActions(e, hits) ==
    LET ip    == SourceIp[e]
        bound == {t \in hits : Insertable(t, ip)}
    IN  /\ ip # None
        /\ bound # {}
        /\ \E n \in (lastRow + 1)..MaxRows : \E owner \in Bijection((lastRow + 1)..n, bound) :
              /\ lastRow' = n
              /\ pending' = [r \in DOMAIN pending \cup (lastRow + 1)..n |->
                               IF r \in DOMAIN pending THEN pending[r]
                               ELSE [task     |-> owner[r],
                                     device   |-> tasks[owner[r]].device,
                                     ip       |-> ip,
                                     event    |-> e,
                                     attempts |-> 0,
                                     due      |-> TRUE]]
        /\ UNCHANGED <<tables, records, marked, blacklist, batch, job, faults, history>>

-----------------------------------------------------------------------------
(* executor.py and es_marker.py: shared by the consumer and the handlers.   *)

NewJob(row, t, d, ip, action, e) ==
    [phase |-> "call", row |-> row, task |-> t, device |-> d, ip |-> ip,
     action |-> action, event |-> e, applied |-> FALSE, status |-> "failed"]

InPhase(w, phase) == job[w] # None /\ job[w].phase = phase

\* The device carries out the command; the answer may still fail to arrive.
DeviceApplies(w) ==
    LET j == job[w]
    IN  /\ InPhase(w, "call") /\ ~j.applied
        /\ job' = [job EXCEPT ![w].applied = TRUE]
        /\ blacklist' = [blacklist EXCEPT ![j.device] =
                           IF j.action = "block" THEN @ \cup {j.ip} ELSE @ \ {j.ip}]
        /\ UNCHANGED <<tables, pending, lastRow, records, marked, batch, faults, history>>

\* Mutation: a failed call is not logged.
PhaseAfterCallQuiet(status) == IF status = "success" THEN "record" ELSE "count"
\* Both outcomes are recorded.
PhaseAfterCall(status) == "record"

\* run_device_action returns: any exception of the script means "failed".
DeviceAnswers(w, status) ==
    LET j == job[w]
    IN  /\ InPhase(w, "call")
        /\ status = "success" => j.applied
        /\ job' = [job EXCEPT ![w].phase = PhaseAfterCall(status),
                               ![w].status = status]
        /\ tally' = IF j.row = None THEN tally
                    ELSE [tally EXCEPT ![j.row].tries = @ + 1,
                                       ![j.row].wins = IF status = "success" THEN @ + 1 ELSE @]
        /\ UNCHANGED <<tables, pending, lastRow, records, marked, blacklist, batch,
                       faults, lost, exposed>>

\* Mutation: failed blocks are marked too.
ToBeMarkedAlways(j) == j.action = "block"
\* blocked=true is for successful blocks.
ToBeMarked(j) == j.status = "success" /\ j.action = "block"

\* What follows the record: a successful block is marked, a failure of the
\* consumer counted, and a handler's failed block or unblock is answered.
AfterRecord(w, j) ==
    IF ToBeMarked(j) THEN [j EXCEPT !.phase = "mark"]
    ELSE IF w = Consumer THEN [j EXCEPT !.phase = "count"] ELSE None

RecordAction(w) ==
    LET j == job[w]
    IN  /\ InPhase(w, "record")
        /\ records' = Append(records, [task |-> j.task, device |-> j.device, ip |-> j.ip,
                                       action |-> j.action, status |-> j.status,
                                       event |-> j.event])
        /\ job' = [job EXCEPT ![w] = AfterRecord(w, j)]
        /\ UNCHANGED <<tables, pending, lastRow, marked, blacklist, batch, faults, history>>

\* Each of the two updates can fail on its own; without an event there is none.
MarkBlocked(w) ==
    LET j == job[w]
    IN  /\ InPhase(w, "mark")
        /\ \E docs \in SUBSET Documents :
              marked' = IF j.event = None THEN marked ELSE marked \cup (docs \X {j.event})
        /\ job' = [job EXCEPT ![w] = IF w = Consumer THEN [j EXCEPT !.phase = "drop"] ELSE None]
        /\ UNCHANGED <<tables, pending, lastRow, records, blacklist, batch, faults, history>>

-----------------------------------------------------------------------------
(* process_pending: one round at a time (max_instances=1).                 *)

DueRows == {r \in DOMAIN pending : pending[r].due}

\* ORDER BY id LIMIT BATCH
FirstDue == {r \in DueRows : Cardinality({q \in DueRows : q < r}) < BATCH}

Permitted(row) ==
    /\ row.task \in DOMAIN tasks
    /\ row.device \in DOMAIN devices
    /\ tasks[row.task].enabled
    /\ devices[row.device].enabled
    /\ ~Whitelisted(row.ip, whitelist)

StartRound ==
    /\ batch = {} /\ job[Consumer] = None
    /\ DueRows # {}
    /\ batch' = FirstDue
    /\ UNCHANGED <<tables, pending, lastRow, records, marked, blacklist, job, faults, history>>

\* The round turns to its lowest row.
IsNext(r) ==
    /\ job[Consumer] = None
    /\ r \in batch /\ \A q \in batch : r <= q

DropRow(r) ==
    /\ pending' = Delete(pending, r)
    /\ batch' = batch \ {r}

\* Mutation: the round passes over the row and leaves it.
RefusedPassing(r) == batch' = batch \ {r} /\ UNCHANGED pending
\* A forbidden row is dropped at once, without a call or a record.
Refused(r) == DropRow(r)

RefuseRow(r) ==
    /\ IsNext(r) /\ ~Permitted(pending[r])
    /\ Refused(r)
    /\ UNCHANGED <<tables, lastRow, records, marked, blacklist, job, faults, history>>

\* registry.get raises outside run_device_action's try: the round is over and
\* the row, its attempts and its due time are as they were.
MissDriver(r) ==
    /\ IsNext(r) /\ Permitted(pending[r])
    /\ devices[pending[r].device].driver \notin installed
    /\ batch' = {}
    /\ UNCHANGED <<tables, pending, lastRow, records, marked, blacklist, job, faults, history>>

TakeRow(r) ==
    LET row == pending[r]
    IN  /\ IsNext(r) /\ Permitted(row)
        /\ devices[row.device].driver \in installed
        /\ job' = [job EXCEPT ![Consumer] =
                     NewJob(r, row.task, row.device, row.ip, "block", row.event)]
        /\ UNCHANGED <<tables, pending, lastRow, records, marked, blacklist, batch,
                       faults, history>>

\* ObjectDeletedError: an object expired by the commit is gone when the log
\* line reads it.  The session rolls back, the round ends, the row stays.
AbortRound == batch' = {} /\ UNCHANGED pending

LogAndDrop ==
    LET j == job[Consumer]
    IN  /\ InPhase(Consumer, "drop")
        /\ IF j.task \in DOMAIN tasks /\ j.device \in DOMAIN devices
             THEN DropRow(j.row) ELSE AbortRound
        /\ job' = [job EXCEPT ![Consumer] = None]
        /\ UNCHANGED <<tables, lastRow, records, marked, blacklist, faults, history>>

\* Mutation: the row is given up one attempt early.
ExhaustedEarly(row) == row.attempts + 2 >= MAX_ATTEMPTS
\* Mutation: the attempt just made is forgotten.
ExhaustedLate(row) == row.attempts >= MAX_ATTEMPTS
Exhausted(row) == row.attempts + 1 >= MAX_ATTEMPTS

Backoff(r) ==
    /\ pending' = [pending EXCEPT ![r].attempts = @ + 1, ![r].due = FALSE]
    /\ batch' = batch \ {r}

CountFailure ==
    LET j == job[Consumer]
    IN  /\ InPhase(Consumer, "count")
        /\ \/ ~Exhausted(pending[j.row]) /\ Backoff(j.row)
           \/ /\ Exhausted(pending[j.row])
              /\ IF j.task \in DOMAIN tasks THEN DropRow(j.row) ELSE AbortRound
        /\ job' = [job EXCEPT ![Consumer] = None]
        /\ UNCHANGED <<tables, lastRow, records, marked, blacklist, faults, history>>

\* next_attempt_at has passed.
BecomeDue(r) ==
    /\ r \in DOMAIN pending /\ ~pending[r].due
    /\ pending' = [pending EXCEPT ![r].due = TRUE]
    /\ UNCHANGED <<tables, lastRow, records, marked, blacklist, batch, job, faults, history>>

-----------------------------------------------------------------------------
(* Manual handling.                                                        *)

Reachable(d) ==
    /\ d \in DOMAIN devices
    /\ devices[d].enabled
    /\ devices[d].driver \in installed

\* Mutation: the whitelist is not consulted for manual blocks.
AcceptedUnchecked(d, ip) == Reachable(d)
Accepted(d, ip) == Reachable(d) /\ ~Whitelisted(ip, whitelist)

RunAction(h, d, ip, e) ==
    /\ job[h] = None /\ Len(records) < MaxRecords
    /\ Accepted(d, ip)
    /\ job' = [job EXCEPT ![h] = NewJob(None, Manual, d, ip, "block", e)]
    /\ UNCHANGED <<tables, pending, lastRow, records, marked, blacklist, batch, faults, history>>

\* Mutation: a failed block can be revoked.
RevocableAny(origin) == origin.action = "block"
Revocable(origin) == origin.action = "block" /\ origin.status = "success"

RevokeRecord(h, i) ==
    LET origin == records[i]
    IN  /\ job[h] = None /\ Len(records) < MaxRecords
        /\ Revocable(origin)
        /\ Reachable(origin.device)
        /\ job' = [job EXCEPT ![h] = NewJob(None, origin.task, origin.device, origin.ip,
                                            "unblock", origin.event)]
        /\ UNCHANGED <<tables, pending, lastRow, records, marked, blacklist, batch,
                       faults, history>>

-----------------------------------------------------------------------------
(* Faults: a database error ends one worker's work, a crash everyone's.     *)

UnrecordedBlock(w) ==
    job[w] # None /\ job[w].phase \in {"call", "record"} /\ job[w].action = "block"

Stop(W) ==
    /\ faults < MaxFaults
    /\ faults' = faults + 1
    /\ job' = [w \in Workers |-> IF w \in W THEN None ELSE job[w]]
    /\ batch' = IF Consumer \in W THEN {} ELSE batch
    /\ lost' = lost \cup {<<job[w].device, job[w].ip>> : w \in {v \in W : UnrecordedBlock(v)}}
    /\ UNCHANGED <<tables, pending, lastRow, records, marked, blacklist, tally, exposed>>

DatabaseError(w) ==
    /\ \/ job[w] # None /\ job[w].phase # "call"
       \/ w = Consumer /\ job[w] = None /\ batch # {}
    /\ Stop({w})

Crash ==
    /\ batch # {} \/ \E w \in Workers : job[w] # None
    /\ Stop(Workers)

-----------------------------------------------------------------------------
AdminNext ==
    \/ \E d \in Devices, on \in BOOLEAN :
          \/ \E k \in Drivers : CreateDevice(d, k, on)
          \/ UpdateDevice(d, on)
          \/ \E t \in Tasks, p \in Presets : CreateTask(t, d, p, on) \/ UpdateTask(t, d, p, on)
    \/ \E d \in Devices : DeleteDevice(d)
    \/ \E t \in Tasks : DeleteTask(t)
    \/ \E n \in Networks : CreateWhitelist(n) \/ DeleteWhitelist(n)
    \/ \E k \in Drivers : InstallScript(k) \/ UninstallScript(k)

ExecutorNext(w) ==
    \/ DeviceApplies(w)
    \/ \E status \in {"success", "failed"} : DeviceAnswers(w, status)
    \/ RecordAction(w)
    \/ MarkBlocked(w)

ConsumerNext ==
    \/ StartRound
    \/ \E r \in RowIds : RefuseRow(r) \/ MissDriver(r) \/ TakeRow(r)
    \/ ExecutorNext(Consumer)
    \/ LogAndDrop
    \/ CountFailure

HandlerNext(h) ==
    \/ \E d \in Devices, ip \in Addresses, e \in Alerts \cup {None} : RunAction(h, d, ip, e)
    \/ \E i \in DOMAIN records : RevokeRecord(h, i)
    \/ ExecutorNext(h)

Next ==
    \/ AdminNext
    \/ \E e \in Alerts, hits \in SUBSET Tasks : EnqueueTaskActions(e, hits)
    \/ ConsumerNext
    \/ \E h \in Handlers : HandlerNext(h)
    \/ \E r \in RowIds : BecomeDue(r)
    \/ \E w \in Workers : DatabaseError(w)
    \/ Crash

Spec == Init /\ [][Next]_vars

\* The 5-second job keeps running, a driver call returns (its requests carry
\* timeouts) and time passes.  Nothing is assumed of people or of faults.
Fairness ==
    /\ WF_vars(ConsumerNext)
    /\ \A r \in RowIds : WF_vars(BecomeDue(r))

FairSpec == Spec /\ Fairness

-----------------------------------------------------------------------------
(* Properties                                                              *)

\* Types; a round only has rows that are still in the table, and a row that
\* used up its attempts is gone.
TypeOK ==
    /\ DOMAIN tasks \subseteq Tasks /\ tasks \in [DOMAIN tasks -> TaskRow]
    /\ DOMAIN devices \subseteq Devices /\ devices \in [DOMAIN devices -> DeviceRow]
    /\ spent \subseteq Tasks \cup Devices
    /\ installed \subseteq Drivers
    /\ whitelist \subseteq Networks
    /\ DOMAIN pending \subseteq 1..lastRow /\ pending \in [DOMAIN pending -> PendingRow]
    /\ lastRow \in 0..MaxRows
    /\ records \in Seq(Record)
    /\ marked \subseteq Documents \X Alerts
    /\ blacklist \in [Devices -> SUBSET Addresses]
    /\ batch \subseteq DOMAIN pending
    /\ job \in [Workers -> Job \cup {None}]
    /\ faults \in 0..MaxFaults
    /\ tally \in [RowIds -> [tries: Nat, wins: Nat]]
    /\ lost \subseteq Devices \X Addresses
    /\ exposed \subseteq Addresses

(* What the log shows: a successful block for alert e, at position i one of *)
(* address ip on device d, anywhere, and before position i.                 *)
Backed(e) ==
    \E i \in DOMAIN records :
        records[i].action = "block" /\ records[i].status = "success" /\ records[i].event = e

Succeeded(i, d, ip) ==
    /\ records[i].action = "block" /\ records[i].status = "success"
    /\ records[i].device = d /\ records[i].ip = ip

EverBlocked(d, ip) == \E i \in DOMAIN records : Succeeded(i, d, ip)

Logged(d, ip) ==
    \E i \in DOMAIN records :
        records[i].action = "block" /\ records[i].device = d /\ records[i].ip = ip

\* An alert is marked blocked=true only when the log holds a successful block
\* for it (es_marker: a failed handling is not marked), whichever of the
\* consumer and the handlers blocked it and whatever fails between record and
\* mark.
MarkedOnlyAfterSuccess == \A m \in marked : Backed(m[2])

\* An address that sits on a device is accounted for: the log has a block of
\* it on that device, or the call is still to be recorded, or a crash or a
\* database error fell between the call and its record.  A device call that
\* fails after taking effect is no exception.
BlockedIsLogged ==
    \A d \in Devices : \A ip \in blacklist[d] :
        \/ Logged(d, ip)
        \/ <<d, ip>> \in lost
        \/ \E w \in Workers : UnrecordedBlock(w) /\ job[w].device = d /\ job[w].ip = ip

\* An address the whitelist has covered all along is on no device and in no
\* block record, however rows, manual requests and whitelist edits interleave.
ProtectedNeverBlocked ==
    /\ \A d \in Devices : blacklist[d] \subseteq exposed
    /\ \A i \in DOMAIN records : records[i].ip \in exposed

\* Every record of an unblock comes after a successful block of the same
\* address on the same device, though the log grows under the revoke.
UnblockFollowsBlock ==
    \A i \in DOMAIN records :
        records[i].action = "unblock" =>
            \E k \in 1..(i - 1) : Succeeded(k, records[i].device, records[i].ip)

\* A row costs its device at most MAX_ATTEMPTS calls and one success; only a
\* fault between a call and the commit that follows buys another.  A task or
\* device deleted during the call makes the round abort, and buys none.
RetriesBounded ==
    \A r \in RowIds : /\ tally[r].tries <= MAX_ATTEMPTS + faults
                      /\ tally[r].wins <= 1 + faults

\* A row leaves the table only when its device accepted the block, when its
\* attempts are used up, or when the task, the device or the whitelist forbids
\* the block at that moment: no fault loses it.
NoSilentLoss ==
    [][\A r \in DOMAIN pending : r \notin DOMAIN pending' =>
          \/ tally[r].wins > 0
          \/ tally[r].tries >= MAX_ATTEMPTS
          \/ ~Permitted(pending[r])]_vars

\* Every row is eventually dealt with, though rows before it fail and back off.
RowsLeave == \A r \in RowIds : r \in DOMAIN pending ~> r \notin DOMAIN pending

\* Pending, for a device whose script ships with the product (or that is gone).
BuiltinRow(r) ==
    /\ r \in DOMAIN pending
    /\ pending[r].device \in DOMAIN devices => devices[pending[r].device].driver \in Builtin

\* auto_block: a failure is retried with backoff and dropped after MAX_ATTEMPTS.
\* So once administration is quiet, the rows of devices whose script ships with
\* the product are dealt with, whatever became of other devices' scripts.
BuiltinRowsLeave ==
    <>[][FALSE]_tables => \A r \in RowIds : BuiltinRow(r) ~> r \notin DOMAIN pending

-----------------------------------------------------------------------------
(* The rounds, tables and workers implement BlockContract.                 *)

Stage == [r \in RowIds |-> IF r \in DOMAIN pending THEN "waiting"
                           ELSE IF r <= lastRow THEN "settled" ELSE "absent"]
Withdrawn == {r \in DOMAIN pending : ~Permitted(pending[r])}
Proven == {e \in Alerts : Backed(e)}
Flagged == {m[2] : m \in marked}

Contract == INSTANCE BlockContract WITH
    Requests <- RowIds, MaxTries <- MAX_ATTEMPTS,
    stage <- Stage, withdrawn <- Withdrawn, proven <- Proven, flagged <- Flagged

\* Whatever the consumer, the handlers, the administrators and the faults do, a row
\* waits, is tried, and settles by a success, by running out of tries or because it is
\* not wanted any more, and an alert is flagged only when proven (process_pending,
\* run_device_action, mark_blocked).
Refines == Contract!Spec
=============================================================================
