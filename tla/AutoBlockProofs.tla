--------------------------- MODULE AutoBlockProofs ---------------------------
(* Theorems about AutoBlock, for every value of its constants.             *)
EXTENDS AutoBlock, TLAPS

-----------------------------------------------------------------------------
(* Helpers                                                                 *)

\* What a worker is busy with is a job.
LEMMA BusyIsJob ==
    ASSUME TypeOK, NEW w \in Workers, job[w] # None
    PROVE  job[w] \in Job
  BY DEF TypeOK

LEMMA NoneIsNoJob == None \notin Job
  BY ConstantsAssumption

-----------------------------------------------------------------------------
(* Type correctness                                                        *)

LEMMA InitType == Init => TypeOK
  <1> SUFFICES ASSUME Init PROVE TypeOK
    OBVIOUS
  <1>1. records \in Seq(Record)
    BY DEF Init
  <1>2. tally \in [RowIds -> [tries: Nat, wins: Nat]]
    BY DEF Init
  <1>3. QED
    BY <1>1, <1>2, ConstantsAssumption DEF Init, TypeOK

LEMMA AdminType == TypeOK /\ AdminNext => TypeOK'
  <1> SUFFICES ASSUME TypeOK, AdminNext PROVE TypeOK'
    OBVIOUS
  <1> USE DEF TypeOK, rest
  <1>1. ASSUME NEW d \in Devices, NEW on \in BOOLEAN, NEW k \in Drivers, CreateDevice(d, k, on)
        PROVE  TypeOK'
    <2>1. [driver |-> k, enabled |-> on] \in DeviceRow
      BY DEF DeviceRow
    <2>2. DOMAIN devices' \subseteq Devices /\ devices' \in [DOMAIN devices' -> DeviceRow]
      BY <1>1, <2>1 DEF CreateDevice, Put
    <2>3. QED
      BY <1>1, <2>2 DEF CreateDevice
  <1>2. ASSUME NEW d \in Devices, NEW on \in BOOLEAN, UpdateDevice(d, on)
        PROVE  TypeOK'
    BY <1>2 DEF UpdateDevice, DeviceRow
  <1>3. ASSUME NEW d \in Devices, NEW on \in BOOLEAN, NEW t \in Tasks, NEW p \in Presets,
               CreateTask(t, d, p, on)
        PROVE  TypeOK'
    <2>1. [device |-> d, preset |-> p, enabled |-> on] \in TaskRow
      BY DEF TaskRow
    <2>2. DOMAIN tasks' \subseteq Tasks /\ tasks' \in [DOMAIN tasks' -> TaskRow]
      BY <1>3, <2>1 DEF CreateTask, Put
    <2>3. QED
      BY <1>3, <2>2 DEF CreateTask
  <1>4. ASSUME NEW d \in Devices, NEW on \in BOOLEAN, NEW t \in Tasks, NEW p \in Presets,
               UpdateTask(t, d, p, on)
        PROVE  TypeOK'
    BY <1>4 DEF UpdateTask, TaskRow
  <1>5. ASSUME NEW d \in Devices, DeleteDevice(d)
        PROVE  TypeOK'
    BY <1>5 DEF DeleteDevice, Delete
  <1>6. ASSUME NEW t \in Tasks, DeleteTask(t)
        PROVE  TypeOK'
    BY <1>6 DEF DeleteTask, Delete
  <1>7. ASSUME NEW n \in Networks, CreateWhitelist(n) \/ DeleteWhitelist(n)
        PROVE  TypeOK'
    BY <1>7 DEF CreateWhitelist, DeleteWhitelist, SetWhitelist
  <1>8. ASSUME NEW k \in Drivers, InstallScript(k) \/ UninstallScript(k)
        PROVE  TypeOK'
    BY <1>8 DEF InstallScript, UninstallScript
  <1>9. QED
    BY <1>1, <1>2, <1>3, <1>4, <1>5, <1>6, <1>7, <1>8 DEF AdminNext

LEMMA EnqueueType ==
    ASSUME TypeOK, NEW e \in Alerts, NEW hits \in SUBSET Tasks, EnqueueTaskActions(e, hits)
    PROVE  TypeOK'
  <1> DEFINE Rows(n, owner) == [r \in DOMAIN pending \cup (lastRow + 1)..n |->
                               IF r \in DOMAIN pending THEN pending[r]
                               ELSE [task     |-> owner[r],
                                     device   |-> tasks[owner[r]].device,
                                     ip       |-> SourceIp[e],
                                     event    |-> e,
                                     attempts |-> 0,
                                     due      |-> TRUE]]
             bound == {t \in hits : Insertable(t, SourceIp[e])}
  <1>1. PICK n \in (lastRow + 1)..MaxRows : \E owner \in Bijection((lastRow + 1)..n, bound) :
            lastRow' = n /\ pending' = Rows(n, owner)
    BY DEF EnqueueTaskActions
  <1>0. PICK owner \in [(lastRow + 1)..n -> bound] : lastRow' = n /\ pending' = Rows(n, owner)
    BY <1>1 DEF Bijection, Injection
  <1>2. ASSUME NEW r \in (lastRow + 1)..n
        PROVE  /\ owner[r] \in Tasks
               /\ tasks[owner[r]].device \in Devices
    BY <1>0 DEF TypeOK, Insertable, TaskRow
  <1>3. SourceIp[e] \in Addresses
    BY ConstantsAssumption DEF EnqueueTaskActions
  <1>4. pending' \in [DOMAIN pending' -> PendingRow]
    BY <1>0, <1>2, <1>3, ConstantsAssumption DEF TypeOK, PendingRow
  <1>5. DOMAIN pending' \subseteq 1..lastRow' /\ DOMAIN pending \subseteq DOMAIN pending'
    BY <1>0, ConstantsAssumption DEF TypeOK
  <1>6. lastRow' \in 0..MaxRows
    BY <1>0, ConstantsAssumption DEF TypeOK
  <1>7. QED
    BY <1>4, <1>5, <1>6 DEF EnqueueTaskActions, TypeOK, tables, history

\* The four executor steps, whoever takes them.
LEMMA ExecutorType ==
    ASSUME TypeOK, NEW w \in Workers, ExecutorNext(w)
    PROVE  TypeOK'
  <1> USE DEF TypeOK, tables, history, InPhase
  <1>1. CASE DeviceApplies(w)
    <2>1. job[w] \in Job /\ job[w].device \in Devices /\ job[w].ip \in Addresses
      BY <1>1, BusyIsJob DEF DeviceApplies, Job
    <2>2. [job[w] EXCEPT !.applied = TRUE] \in Job
      BY <2>1 DEF Job
    <2>3. job' \in [Workers -> Job \cup {None}]
      BY <1>1, <2>2 DEF DeviceApplies
    <2>4. blacklist' \in [Devices -> SUBSET Addresses]
      BY <1>1, <2>1 DEF DeviceApplies
    <2>5. QED
      BY <1>1, <2>3, <2>4 DEF DeviceApplies
  <1>2. ASSUME NEW status \in {"success", "failed"}, DeviceAnswers(w, status)
        PROVE  TypeOK'
    <2>1. job[w] \in Job /\ job[w].row \in RowIds \cup {None}
      BY <1>2, BusyIsJob DEF DeviceAnswers, Job
    <2>2. [job[w] EXCEPT !.phase = PhaseAfterCall(status), !.status = status] \in Job
      BY <2>1 DEF Job, PhaseAfterCall
    <2>3. job' \in [Workers -> Job \cup {None}]
      BY <1>2, <2>2 DEF DeviceAnswers
    <2>4. tally' \in [RowIds -> [tries: Nat, wins: Nat]]
      BY <1>2, <2>1 DEF DeviceAnswers
    <2>5. QED
      BY <1>2, <2>3, <2>4 DEF DeviceAnswers
  <1>3. CASE RecordAction(w)
    <2>1. job[w] \in Job
      BY <1>3, BusyIsJob DEF RecordAction
    <2>2. [task |-> job[w].task, device |-> job[w].device, ip |-> job[w].ip,
           action |-> job[w].action, status |-> job[w].status, event |-> job[w].event] \in Record
      BY <2>1 DEF Job, Record
    <2>3. records' \in Seq(Record)
      BY <1>3, <2>2 DEF RecordAction
    <2>4. AfterRecord(w, job[w]) \in Job \cup {None}
      BY <2>1 DEF AfterRecord, Job
    <2>5. QED
      BY <1>3, <2>3, <2>4 DEF RecordAction
  <1>4. CASE MarkBlocked(w)
    <2>1. job[w] \in Job /\ job[w].event \in Alerts \cup {None}
      BY <1>4, BusyIsJob DEF MarkBlocked, Job
    <2>2. [job[w] EXCEPT !.phase = "drop"] \in Job
      BY <2>1 DEF Job
    <2>3. marked' \subseteq Documents \X Alerts
      BY <1>4, <2>1 DEF MarkBlocked
    <2>4. QED
      BY <1>4, <2>2, <2>3 DEF MarkBlocked
  <1>5. QED
    BY <1>1, <1>2, <1>3, <1>4 DEF ExecutorNext

\* Dropping a row, or ending the round, keeps the table and the round typed.
LEMMA DropType ==
    ASSUME TypeOK, NEW r, DropRow(r) \/ AbortRound
    PROVE  /\ pending' \in [DOMAIN pending' -> PendingRow]
           /\ DOMAIN pending' \subseteq 1..lastRow
           /\ batch' \subseteq DOMAIN pending'
  BY DEF TypeOK, DropRow, AbortRound, Delete

LEMMA ConsumerType == TypeOK /\ ConsumerNext => TypeOK'
  <1> SUFFICES ASSUME TypeOK, ConsumerNext PROVE TypeOK'
    OBVIOUS
  <1> USE DEF tables, history, InPhase
  <1>1. CASE StartRound
    BY <1>1 DEF StartRound, FirstDue, DueRows, TypeOK
  <1>2. ASSUME NEW r \in RowIds, RefuseRow(r) PROVE TypeOK'
    BY <1>2, DropType DEF RefuseRow, Refused, TypeOK
  <1>3. ASSUME NEW r \in RowIds, MissDriver(r) PROVE TypeOK'
    BY <1>3 DEF MissDriver, TypeOK
  <1>4. ASSUME NEW r \in RowIds, TakeRow(r) PROVE TypeOK'
    <2>1. pending[r] \in PendingRow
      BY <1>4 DEF TakeRow, IsNext, TypeOK
    <2>2. NewJob(r, pending[r].task, pending[r].device, pending[r].ip, "block",
                 pending[r].event) \in Job
      BY <2>1 DEF NewJob, Job, PendingRow
    <2>3. QED
      BY <1>4, <2>2 DEF TakeRow, TypeOK
  <1>5. CASE ExecutorNext(Consumer)
    BY <1>5, ExecutorType DEF Workers
  <1>6. CASE LogAndDrop
    BY <1>6, DropType DEF LogAndDrop, TypeOK
  <1>7. CASE CountFailure
    <2>1. CASE ~Exhausted(pending[job[Consumer].row]) /\ Backoff(job[Consumer].row)
      <3> DEFINE r == job[Consumer].row
      <3>1. pending' \in [DOMAIN pending -> PendingRow]
        <4>1. CASE r \in DOMAIN pending
          <5>1. pending[r] \in PendingRow /\ pending[r].attempts + 1 \in 0..(MAX_ATTEMPTS - 1)
            BY <2>1, <4>1, ConstantsAssumption DEF TypeOK, Exhausted, PendingRow
          <5>2. [pending[r] EXCEPT !.attempts = @ + 1, !.due = FALSE] \in PendingRow
            BY <5>1 DEF PendingRow
          <5>3. QED
            BY <2>1, <5>2 DEF Backoff, TypeOK
        <4>2. CASE r \notin DOMAIN pending
          BY <2>1, <4>2 DEF Backoff, TypeOK
        <4>3. QED
          BY <4>1, <4>2
      <3>2. QED
        BY <1>7, <2>1, <3>1 DEF CountFailure, Backoff, TypeOK
    <2>2. CASE Exhausted(pending[job[Consumer].row])
      BY <1>7, <2>2, DropType DEF CountFailure, TypeOK
    <2>3. QED
      BY <1>7, <2>1, <2>2 DEF CountFailure
  <1>8. QED
    BY <1>1, <1>2, <1>3, <1>4, <1>5, <1>6, <1>7 DEF ConsumerNext

LEMMA HandlerType ==
    ASSUME TypeOK, NEW h \in Handlers, HandlerNext(h)
    PROVE  TypeOK'
  <1> USE DEF tables, history
  <1>1. ASSUME NEW d \in Devices, NEW ip \in Addresses, NEW e \in Alerts \cup {None},
               RunAction(h, d, ip, e)
        PROVE  TypeOK'
    <2>1. NewJob(None, Manual, d, ip, "block", e) \in Job
      BY DEF NewJob, Job
    <2>2. QED
      BY <1>1, <2>1 DEF RunAction, TypeOK
  <1>2. ASSUME NEW i \in DOMAIN records, RevokeRecord(h, i)
        PROVE  TypeOK'
    <2>1. records[i] \in Record
      BY DEF TypeOK
    <2>2. NewJob(None, records[i].task, records[i].device, records[i].ip, "unblock",
                 records[i].event) \in Job
      BY <2>1 DEF NewJob, Job, Record
    <2>3. QED
      BY <1>2, <2>2 DEF RevokeRecord, TypeOK
  <1>3. CASE ExecutorNext(h)
    BY <1>3, ExecutorType DEF Workers
  <1>4. QED
    BY <1>1, <1>2, <1>3 DEF HandlerNext

LEMMA StopType ==
    ASSUME TypeOK, NEW W \in SUBSET Workers, Stop(W)
    PROVE  TypeOK'
  <1> USE DEF TypeOK, Stop
  <1>1. lost' \subseteq Devices \X Addresses
    BY DEF UnrecordedBlock, Job
  <1>2. faults' \in 0..MaxFaults
    BY ConstantsAssumption
  <1>3. QED
    BY <1>1, <1>2 DEF tables

LEMMA StepType == TypeOK /\ [Next]_vars => TypeOK'
  <1> SUFFICES ASSUME TypeOK, [Next]_vars PROVE TypeOK'
    OBVIOUS
  <1>1. CASE AdminNext
    BY <1>1, AdminType
  <1>2. ASSUME NEW e \in Alerts, NEW hits \in SUBSET Tasks, EnqueueTaskActions(e, hits)
        PROVE  TypeOK'
    BY <1>2, EnqueueType
  <1>3. CASE ConsumerNext
    BY <1>3, ConsumerType
  <1>4. ASSUME NEW h \in Handlers, HandlerNext(h) PROVE TypeOK'
    BY <1>4, HandlerType
  <1>5. ASSUME NEW r \in RowIds, BecomeDue(r) PROVE TypeOK'
    <2>1. [pending[r] EXCEPT !.due = TRUE] \in PendingRow
      BY <1>5 DEF BecomeDue, TypeOK, PendingRow
    <2>2. QED
      BY <1>5, <2>1 DEF BecomeDue, TypeOK, tables, history
  <1>6. ASSUME NEW w \in Workers, DatabaseError(w) PROVE TypeOK'
    BY <1>6, StopType DEF DatabaseError
  <1>7. CASE Crash
    BY <1>7, StopType DEF Crash
  <1>8. CASE UNCHANGED vars
    BY <1>8 DEF vars, tables, history, TypeOK
  <1>9. QED
    BY <1>1, <1>2, <1>3, <1>4, <1>5, <1>6, <1>7, <1>8 DEF Next

\* The tables, the queue, the log and the workers stay well typed.
THEOREM TypeCorrect == Spec => []TypeOK
  BY InitType, StepType, PTL DEF Spec

-----------------------------------------------------------------------------
(* Kinds of steps, as the log sees them                                    *)

\* Nothing happens to a device, the log or the marks; the consumer may be done
\* with a row.
Quiet ==
    /\ UNCHANGED <<records, marked, blacklist, lost>>
    /\ \A w \in Workers :
          \/ job'[w] = job[w]
          \/ job'[w] = None /\ job[w] # None /\ job[w].phase \in {"drop", "count"}
    /\ exposed' = exposed \cup {a \in Addresses : ~Whitelisted(a, whitelist')}
       \/ UNCHANGED <<exposed, whitelist>>

\* A worker sets out to block an address the whitelist does not cover, or to
\* lift a block that succeeded.
Begin(w) ==
    /\ UNCHANGED <<records, marked, blacklist, lost, exposed, whitelist>>
    /\ \E row, t, d, ip, e :
          \/ /\ job' = [job EXCEPT ![w] = NewJob(row, t, d, ip, "block", e)]
             /\ job[w] = None /\ ip \in Addresses /\ ~Whitelisted(ip, whitelist)
          \/ /\ job' = [job EXCEPT ![w] = NewJob(row, t, d, ip, "unblock", e)]
             /\ job[w] = None /\ EverBlocked(d, ip)

LEMMA StepKinds ==
    ASSUME TypeOK, [Next]_vars
    PROVE  \/ Quiet
           \/ \E w \in Workers : Begin(w) \/ ExecutorNext(w)
           \/ \E W \in SUBSET Workers : Stop(W)
  <1> USE DEF tables, history, InPhase, TypeOK
  <1>1. CASE AdminNext
    <2> USE DEF rest
    <2>1. ASSUME NEW n \in Networks, CreateWhitelist(n) \/ DeleteWhitelist(n)
          PROVE  Quiet
      BY <2>1 DEF CreateWhitelist, DeleteWhitelist, SetWhitelist, Quiet
    <2>2. ASSUME NEW d \in Devices, NEW on \in BOOLEAN,
                 UpdateDevice(d, on) \/ DeleteDevice(d) \/ \E k \in Drivers : CreateDevice(d, k, on)
          PROVE  Quiet
      BY <2>2 DEF CreateDevice, UpdateDevice, DeleteDevice, Quiet
    <2>3. ASSUME NEW t \in Tasks,
                 \/ DeleteTask(t)
                 \/ \E d \in Devices, p \in Presets, on \in BOOLEAN :
                       CreateTask(t, d, p, on) \/ UpdateTask(t, d, p, on)
          PROVE  Quiet
      BY <2>3 DEF CreateTask, UpdateTask, DeleteTask, Quiet
    <2>4. ASSUME NEW k \in Drivers, InstallScript(k) \/ UninstallScript(k)
          PROVE  Quiet
      BY <2>4 DEF InstallScript, UninstallScript, Quiet
    <2>5. QED
      <3> HIDE DEF TypeOK, rest, tables, history
      <3>1. QED
        BY <1>1, <2>1, <2>2, <2>3, <2>4 DEF AdminNext
  <1>2. ASSUME NEW e \in Alerts, NEW hits \in SUBSET Tasks, EnqueueTaskActions(e, hits)
        PROVE  Quiet
    BY <1>2 DEF EnqueueTaskActions, Quiet
  <1>3. CASE ConsumerNext
    <2>1. ASSUME NEW r \in RowIds, TakeRow(r) PROVE Begin(Consumer)
      <3>1. pending[r] \in PendingRow
        BY <2>1 DEF TakeRow, IsNext
      <3>2. QED
        BY <2>1, <3>1 DEF TakeRow, IsNext, Permitted, Begin, PendingRow
    <2>2. CASE LogAndDrop
      BY <2>2 DEF LogAndDrop, Quiet, Workers
    <2>3. CASE CountFailure
      BY <2>3 DEF CountFailure, Quiet, Workers
    <2>4. ASSUME NEW r \in RowIds, RefuseRow(r) \/ MissDriver(r) PROVE Quiet
      BY <2>4 DEF RefuseRow, MissDriver, Quiet
    <2>5. CASE StartRound
      BY <2>5 DEF StartRound, Quiet
    <2>6. QED
      BY <1>3, <2>1, <2>2, <2>3, <2>4, <2>5 DEF ConsumerNext, Workers
  <1>4. ASSUME NEW h \in Handlers, HandlerNext(h)
        PROVE  \E w \in Workers : Begin(w) \/ ExecutorNext(w)
    <2>1. ASSUME NEW d \in Devices, NEW ip \in Addresses, NEW e \in Alerts \cup {None},
                 RunAction(h, d, ip, e)
          PROVE  Begin(h)
      BY <2>1 DEF RunAction, Accepted, Begin
    <2>2. ASSUME NEW i \in DOMAIN records, RevokeRecord(h, i)
          PROVE  Begin(h)
      <3>1. EverBlocked(records[i].device, records[i].ip)
        BY <2>2 DEF RevokeRecord, Revocable, EverBlocked, Succeeded
      <3>2. /\ job[h] = None
            /\ job' = [job EXCEPT ![h] = NewJob(None, records[i].task, records[i].device,
                                                records[i].ip, "unblock", records[i].event)]
            /\ UNCHANGED <<records, marked, blacklist, lost, exposed, whitelist>>
        BY <2>2 DEF RevokeRecord
      <3>3. QED
        BY <3>1, <3>2 DEF Begin
    <2>3. QED
      <3> HIDE DEF TypeOK, tables, history, InPhase
      <3>1. h \in Workers
        BY DEF Workers
      <3>2. QED
        BY <1>4, <2>1, <2>2, <3>1 DEF HandlerNext
  <1>5. ASSUME NEW r \in RowIds, BecomeDue(r) PROVE Quiet
    BY <1>5 DEF BecomeDue, Quiet
  <1>6. ASSUME NEW w \in Workers, DatabaseError(w)
        PROVE  \E W \in SUBSET Workers : Stop(W)
    BY <1>6 DEF DatabaseError
  <1>7. CASE Crash
    BY <1>7 DEF Crash
  <1>8. CASE UNCHANGED vars
    BY <1>8 DEF vars, Quiet
  <1>9. QED
    BY <1>1, <1>2, <1>3, <1>4, <1>5, <1>6, <1>7, <1>8 DEF Next

-----------------------------------------------------------------------------
(* The log and the marks                                                   *)

\* What the log held it holds.
Kept ==
    /\ DOMAIN records \subseteq DOMAIN records'
    /\ \A i \in DOMAIN records : records'[i] = records[i]

\* Recording appends one entry.
LEMMA Recorded ==
    ASSUME TypeOK, NEW w \in Workers, RecordAction(w)
    PROVE  /\ DOMAIN records = 1..Len(records) /\ Len(records) \in Nat
           /\ DOMAIN records' = 1..(Len(records) + 1)
           /\ Kept
           /\ records'[Len(records) + 1] =
                 [task |-> job[w].task, device |-> job[w].device, ip |-> job[w].ip,
                  action |-> job[w].action, status |-> job[w].status, event |-> job[w].event]
  BY DEF RecordAction, TypeOK, Kept

\* So what it showed it shows.
LEMMA StillShown ==
    ASSUME Kept
    PROVE  /\ \A e : Backed(e) => Backed(e)'
           /\ \A d, ip : EverBlocked(d, ip) => EverBlocked(d, ip)'
           /\ \A d, ip : Logged(d, ip) => Logged(d, ip)'
  <1>1. ASSUME NEW e, Backed(e) PROVE Backed(e)'
    BY <1>1 DEF Kept, Backed
  <1>2. ASSUME NEW d, NEW ip, EverBlocked(d, ip) PROVE EverBlocked(d, ip)'
    BY <1>2 DEF Kept, EverBlocked, Succeeded
  <1>3. ASSUME NEW d, NEW ip, Logged(d, ip) PROVE Logged(d, ip)'
    BY <1>3 DEF Kept, Logged
  <1>4. QED
    BY <1>1, <1>2, <1>3

\* No step touches what is written.
LEMMA LogKept == TypeOK /\ [Next]_vars => Kept
  <1> SUFFICES ASSUME TypeOK, [Next]_vars PROVE Kept
    OBVIOUS
  <1>1. CASE UNCHANGED records
    BY <1>1 DEF Kept
  <1>2. ASSUME NEW w \in Workers, RecordAction(w) PROVE Kept
    BY <1>2, Recorded
  <1>3. QED
    BY <1>1, <1>2, StepKinds
       DEF Quiet, Begin, ExecutorNext, DeviceApplies, DeviceAnswers, MarkBlocked, Stop

\* What a job under way knows of the log: a block about to be marked has
\* succeeded, and so has the block an unblock lifts.
Grounded(j) ==
    /\ j.phase = "mark" => Backed(j.event)
    /\ j.action = "unblock" => EverBlocked(j.device, j.ip)

MarkInv ==
    /\ MarkedOnlyAfterSuccess
    /\ \A w \in Workers : job[w] # None => Grounded(job[w])

\* A job that goes on is grounded as it was; only a success moves on to its mark.
LEMMA JobsStayGrounded ==
    ASSUME TypeOK, MarkInv, Kept, NEW w \in Workers, NEW j, j # None,
           job'[w] = j, job[w] # None,
           j.action = job[w].action, j.device = job[w].device, j.ip = job[w].ip,
           j.event = job[w].event, j.phase = "mark" => job[w].phase = "mark"
    PROVE  Grounded(j)'
  BY StillShown DEF MarkInv, Grounded

LEMMA MarkStep == TypeOK /\ MarkInv /\ [Next]_vars => MarkInv'
  <1> SUFFICES ASSUME TypeOK, MarkInv, [Next]_vars PROVE MarkInv'
    OBVIOUS
  <1>0. Kept
    BY LogKept
  <1>1. ASSUME NEW m \in marked', m \notin marked PROVE Backed(m[2])'
    <2>1. PICK w \in Workers : MarkBlocked(w)
      BY <1>1, StepKinds DEF Quiet, Begin, ExecutorNext, DeviceApplies, DeviceAnswers,
                             RecordAction, Stop
    <2>2. m[2] = job[w].event /\ job[w] # None /\ job[w].phase = "mark"
      BY <1>1, <2>1 DEF MarkBlocked, InPhase
    <2>3. PICK e : e = m[2]
      OBVIOUS
    <2>4. Backed(e)
      BY <2>2, <2>3 DEF MarkInv, Grounded
    <2>5. QED
      BY <2>3, <2>4, <1>0, StillShown
  <1>2. ASSUME NEW v \in Workers, NEW j, j = job'[v], j # None PROVE Grounded(j)'
    <2>1. CASE job'[v] = job[v]
      BY <1>0, <1>2, <2>1, JobsStayGrounded
    <2>2. ASSUME Quiet \/ \E W \in SUBSET Workers : Stop(W) PROVE job'[v] = job[v]
      BY <1>2, <2>2 DEF Quiet, Stop
    <2>3. ASSUME NEW w \in Workers, Begin(w), job'[v] # job[v] PROVE Grounded(j)'
      <3>1. job \in [Workers -> Job \cup {None}]
        BY DEF TypeOK
      <3>2. /\ j.phase = "call"
            /\ j.action = "unblock" => EverBlocked(j.device, j.ip)
        BY <1>2, <2>3, <3>1 DEF Begin, NewJob
      <3>3. QED
        BY <3>2, <1>0, StillShown DEF Grounded
    <2>4. ASSUME NEW w \in Workers, ExecutorNext(w), job'[v] # job[v] PROVE Grounded(j)'
      <3>1. job \in [Workers -> Job \cup {None}]
        BY DEF TypeOK
      <3>2. v = w /\ job[w] # None /\ job[w] \in Job
        BY <2>4, <3>1, BusyIsJob
           DEF ExecutorNext, DeviceApplies, DeviceAnswers, RecordAction, MarkBlocked, InPhase
      <3>3. /\ j.action = job[w].action /\ j.device = job[w].device
            /\ j.ip = job[w].ip /\ j.event = job[w].event
        BY <1>2, <2>4, <3>1, <3>2
           DEF ExecutorNext, DeviceApplies, DeviceAnswers, RecordAction, AfterRecord,
               MarkBlocked, Job
      <3>4. CASE j.phase = "mark" => job[w].phase = "mark"
        BY <1>0, <1>2, <3>2, <3>3, <3>4, JobsStayGrounded
      <3>5. CASE j.phase = "mark" /\ job[w].phase # "mark"
        <4>1. RecordAction(w) /\ ToBeMarked(job[w])
          BY <1>2, <2>4, <3>1, <3>2, <3>5
             DEF ExecutorNext, DeviceApplies, DeviceAnswers, PhaseAfterCall, RecordAction,
                 AfterRecord, MarkBlocked, InPhase, Job
        <4>2. PICK i \in Nat : i = Len(records) + 1
          BY <4>1, Recorded
        <4>3. i \in DOMAIN records'
          <5>1. Len(records) \in Nat /\ DOMAIN records' = 1..(Len(records) + 1)
            BY <4>1, Recorded
          <5>2. i \in 1..(Len(records) + 1)
            BY <4>2, <5>1
          <5>3. QED
            BY <5>1, <5>2, Zenon
        <4>4. records'[i] = [task |-> job[w].task, device |-> job[w].device, ip |-> job[w].ip,
                             action |-> job[w].action, status |-> job[w].status,
                             event |-> job[w].event]
          BY <4>1, <4>2, Recorded
        <4>5. /\ records'[i].action = "block" /\ records'[i].status = "success"
              /\ records'[i].event = j.event
          BY <4>1, <4>4, <3>3 DEF ToBeMarked
        <4>6. Backed(j.event)'
          BY <4>3, <4>5 DEF Backed
        <4>7. j.action = "block"
          BY <4>1, <3>3 DEF ToBeMarked
        <4>8. QED
          BY <4>6, <4>7 DEF Grounded
      <3>6. QED
        BY <3>4, <3>5
    <2>5. QED
      BY <2>1, <2>2, <2>3, <2>4, StepKinds
  <1>3. MarkedOnlyAfterSuccess'
    <2>1. ASSUME NEW m \in marked PROVE Backed(m[2])'
      <3>1. PICK e : e = m[2]
        OBVIOUS
      <3>2. Backed(e)
        BY <3>1 DEF MarkInv, MarkedOnlyAfterSuccess
      <3>3. QED
        BY <3>1, <3>2, <1>0, StillShown
    <2>2. QED
      BY <1>1, <2>1 DEF MarkedOnlyAfterSuccess
  <1>4. QED
    BY <1>2, <1>3 DEF MarkInv

\* A document is marked only if the log holds a successful block for its alert.
THEOREM MarksAreBacked == Spec => []MarkedOnlyAfterSuccess
  <1>1. Init => MarkInv
    BY DEF Init, MarkInv, MarkedOnlyAfterSuccess
  <1>2. QED
    BY <1>1, MarkStep, TypeCorrect, PTL DEF Spec, MarkInv

LEMMA UnblockStep ==
    TypeOK /\ MarkInv /\ UnblockFollowsBlock /\ [Next]_vars => UnblockFollowsBlock'
  <1> SUFFICES ASSUME TypeOK, MarkInv, UnblockFollowsBlock, [Next]_vars
               PROVE  UnblockFollowsBlock'
    OBVIOUS
  <1>1. CASE UNCHANGED records
    BY <1>1 DEF UnblockFollowsBlock, Succeeded
  <1>2. ASSUME NEW w \in Workers, RecordAction(w),
               NEW i \in DOMAIN records', records'[i].action = "unblock"
        PROVE  \E k \in 1..(i - 1) : /\ records'[k].action = "block"
                                     /\ records'[k].status = "success"
                                     /\ records'[k].device = records'[i].device
                                     /\ records'[k].ip = records'[i].ip
    <2>1. /\ DOMAIN records = 1..Len(records) /\ Len(records) \in Nat
          /\ DOMAIN records' = 1..(Len(records) + 1)
          /\ \A k \in DOMAIN records : records'[k] = records[k]
      BY <1>2, Recorded DEF Kept
    <2>2. \E k \in 1..(i - 1) : Succeeded(k, records'[i].device, records'[i].ip)
      <3>1. CASE i \in DOMAIN records
        BY <1>2, <2>1, <3>1 DEF UnblockFollowsBlock
      <3>2. CASE i = Len(records) + 1
        <4>1. job[w] # None /\ Grounded(job[w])
          BY <1>2 DEF RecordAction, InPhase, MarkInv
        <4>2. records'[i] = [task |-> job[w].task, device |-> job[w].device, ip |-> job[w].ip,
                             action |-> job[w].action, status |-> job[w].status,
                             event |-> job[w].event]
          BY <1>2, <3>2, Recorded
        <4>3. EverBlocked(records'[i].device, records'[i].ip)
          BY <1>2, <4>1, <4>2 DEF Grounded
        <4>4. i - 1 = Len(records)
          BY <2>1, <3>2
        <4>5. QED
          BY <2>1, <4>3, <4>4 DEF EverBlocked
      <3>3. QED
        BY <2>1, <3>1, <3>2
    <2>3. 1..(i - 1) \subseteq DOMAIN records
      BY <2>1
    <2>4. QED
      BY <2>1, <2>2, <2>3 DEF Succeeded
  <1>3. ASSUME NEW w \in Workers, RecordAction(w) PROVE UnblockFollowsBlock'
    BY <1>2, <1>3 DEF UnblockFollowsBlock, Succeeded
  <1>4. QED
    BY <1>1, <1>3, StepKinds
       DEF Quiet, Begin, ExecutorNext, DeviceApplies, DeviceAnswers, MarkBlocked, Stop

\* An unblock is recorded only after a successful block of the same address on
\* the same device: a job knows of it, and the log keeps it.
THEOREM UnblocksFollow == Spec => []UnblockFollowsBlock
  <1>1. Init => MarkInv /\ UnblockFollowsBlock
    BY DEF Init, MarkInv, MarkedOnlyAfterSuccess, UnblockFollowsBlock
  <1>2. QED
    BY <1>1, MarkStep, UnblockStep, TypeCorrect, PTL DEF Spec

-----------------------------------------------------------------------------
(* The whitelist                                                           *)

ProtectInv ==
    /\ ProtectedNeverBlocked
    /\ \A a \in Addresses : ~Whitelisted(a, whitelist) => a \in exposed
    /\ \A w \in Workers : job[w] # None => job[w].ip \in exposed

LEMMA ProtectStep == TypeOK /\ ProtectInv /\ [Next]_vars => ProtectInv'
  <1> SUFFICES ASSUME TypeOK, ProtectInv, [Next]_vars PROVE ProtectInv'
    OBVIOUS
  <1>1. job \in [Workers -> Job \cup {None}]
    BY DEF TypeOK
  <1>2. exposed \subseteq exposed'
    BY StepKinds DEF Quiet, Begin, ExecutorNext, DeviceApplies, DeviceAnswers, RecordAction,
                     MarkBlocked, Stop, history
  <1>3. \A a \in Addresses : ~Whitelisted(a, whitelist') => a \in exposed'
    <2>1. CASE UNCHANGED <<exposed, whitelist>>
      BY <2>1 DEF ProtectInv
    <2>2. CASE exposed' = exposed \cup {a \in Addresses : ~Whitelisted(a, whitelist')}
      BY <2>2
    <2>3. QED
      BY <2>1, <2>2, StepKinds
         DEF Quiet, Begin, ExecutorNext, DeviceApplies, DeviceAnswers, RecordAction,
             MarkBlocked, Stop, history, tables
  <1>4. ASSUME NEW v \in Workers, job'[v] # None PROVE job'[v].ip \in exposed'
    <2>1. CASE job'[v] = job[v]
      BY <1>2, <1>4, <2>1 DEF ProtectInv
    <2>2. ASSUME Quiet \/ \E W \in SUBSET Workers : Stop(W) PROVE job'[v] = job[v]
      BY <1>4, <2>2 DEF Quiet, Stop
    <2>3. ASSUME NEW w \in Workers, Begin(w), job'[v] # job[v] PROVE job'[v].ip \in exposed'
      <3>1. PICK row, t, d, ip, e :
              \/ /\ job' = [job EXCEPT ![w] = NewJob(row, t, d, ip, "block", e)]
                 /\ job[w] = None /\ ip \in Addresses /\ ~Whitelisted(ip, whitelist)
              \/ /\ job' = [job EXCEPT ![w] = NewJob(row, t, d, ip, "unblock", e)]
                 /\ job[w] = None /\ EverBlocked(d, ip)
        BY <2>3 DEF Begin
      <3>2. job'[v].ip = ip
        BY <1>1, <2>3, <3>1 DEF NewJob
      <3>3. ip \in exposed
        BY <3>1 DEF ProtectInv, ProtectedNeverBlocked, EverBlocked, Succeeded
      <3>4. QED
        BY <3>2, <3>3, <1>2
    <2>4. ASSUME NEW w \in Workers, ExecutorNext(w), job'[v] # job[v]
          PROVE  job'[v].ip \in exposed'
      <3>1. v = w /\ job[w] # None /\ job[w] \in Job
        BY <2>4, <1>1, BusyIsJob
           DEF ExecutorNext, DeviceApplies, DeviceAnswers, RecordAction, MarkBlocked, InPhase
      <3>2. job'[v].ip = job[w].ip
        BY <1>1, <1>4, <2>4, <3>1
           DEF ExecutorNext, DeviceApplies, DeviceAnswers, RecordAction, AfterRecord,
               MarkBlocked, Job
      <3>3. QED
        BY <3>1, <3>2, <1>2 DEF ProtectInv
    <2>5. QED
      BY <2>1, <2>2, <2>3, <2>4, StepKinds
  <1>5. \A d \in Devices : blacklist'[d] \subseteq exposed'
    <2>1. CASE UNCHANGED blacklist
      BY <1>2, <2>1 DEF ProtectInv, ProtectedNeverBlocked
    <2>2. ASSUME NEW w \in Workers, DeviceApplies(w)
          PROVE  \A d \in Devices : blacklist'[d] \subseteq exposed'
      <3>1. job[w].ip \in exposed
        BY <2>2 DEF DeviceApplies, InPhase, ProtectInv
      <3>2. \A d \in Devices : blacklist'[d] \subseteq blacklist[d] \cup {job[w].ip}
        BY <2>2 DEF DeviceApplies, TypeOK
      <3>3. QED
        BY <1>2, <3>1, <3>2 DEF ProtectInv, ProtectedNeverBlocked
    <2>3. QED
      BY <2>1, <2>2, StepKinds
         DEF Quiet, Begin, ExecutorNext, DeviceAnswers, RecordAction, MarkBlocked, Stop
  <1>6. \A i \in DOMAIN records' : records'[i].ip \in exposed'
    <2>1. CASE UNCHANGED records
      BY <1>2, <2>1 DEF ProtectInv, ProtectedNeverBlocked
    <2>2. ASSUME NEW w \in Workers, RecordAction(w), NEW i \in DOMAIN records'
          PROVE  records'[i].ip \in exposed'
      <3>1. /\ DOMAIN records = 1..Len(records) /\ Len(records) \in Nat
            /\ DOMAIN records' = 1..(Len(records) + 1)
            /\ \A k \in DOMAIN records : records'[k] = records[k]
        BY <2>2, Recorded DEF Kept
      <3>2. CASE i \in DOMAIN records
        BY <1>2, <3>1, <3>2 DEF ProtectInv, ProtectedNeverBlocked
      <3>3. CASE i = Len(records) + 1
        <4>1. records'[i] = [task |-> job[w].task, device |-> job[w].device, ip |-> job[w].ip,
                             action |-> job[w].action, status |-> job[w].status,
                             event |-> job[w].event]
          BY <2>2, <3>3, Recorded
        <4>2. QED
          BY <1>2, <2>2, <4>1 DEF RecordAction, InPhase, ProtectInv
      <3>4. QED
        BY <3>1, <3>2, <3>3
    <2>3. QED
      BY <2>1, <2>2, StepKinds
         DEF Quiet, Begin, ExecutorNext, DeviceApplies, DeviceAnswers, MarkBlocked, Stop
  <1>7. QED
    BY <1>3, <1>4, <1>5, <1>6 DEF ProtectInv, ProtectedNeverBlocked

\* What the whitelist has covered all along is on no device and in no record:
\* a job starts only on an uncovered address or on one already in the log.
THEOREM ProtectedStaysFree == Spec => []ProtectedNeverBlocked
  <1>1. Init => ProtectInv
    BY DEF Init, ProtectInv, ProtectedNeverBlocked
  <1>2. QED
    BY <1>1, ProtectStep, TypeCorrect, PTL DEF Spec, ProtectInv

-----------------------------------------------------------------------------
(* What sits on a device                                                   *)

\* A call on its way to the log speaks for address ip on device d.
InTransit(d, ip) ==
    \E w \in Workers : UnrecordedBlock(w) /\ job[w].device = d /\ job[w].ip = ip

LEMMA LoggedStep == TypeOK /\ BlockedIsLogged /\ [Next]_vars => BlockedIsLogged'
  <1> SUFFICES ASSUME TypeOK, BlockedIsLogged, [Next]_vars,
                      NEW d \in Devices, NEW ip \in blacklist'[d]
               PROVE  Logged(d, ip)' \/ <<d, ip>> \in lost' \/ InTransit(d, ip)'
    BY DEF BlockedIsLogged, InTransit
  <1>1. job \in [Workers -> Job \cup {None}]
    BY DEF TypeOK
  <1>2. Kept /\ (Logged(d, ip) => Logged(d, ip)')
    BY LogKept, StillShown
  <1>3. lost \subseteq lost'
    BY StepKinds DEF Quiet, Begin, ExecutorNext, DeviceApplies, DeviceAnswers, RecordAction,
                     MarkBlocked, Stop, history
  \* A call in transit stays so, is recorded, or is lost.
  <1>4. ASSUME InTransit(d, ip)
        PROVE  Logged(d, ip)' \/ <<d, ip>> \in lost' \/ InTransit(d, ip)'
    <2>1. PICK v \in Workers : UnrecordedBlock(v) /\ job[v].device = d /\ job[v].ip = ip
      BY <1>4 DEF InTransit
    <2>2. CASE job'[v] = job[v]
      BY <2>1, <2>2 DEF InTransit, UnrecordedBlock
    <2>3. ASSUME Quiet \/ \E w \in Workers : Begin(w), job'[v] # job[v] PROVE FALSE
      BY <1>1, <2>1, <2>3 DEF Quiet, Begin, UnrecordedBlock
    <2>4. ASSUME NEW w \in Workers, ExecutorNext(w), job'[v] # job[v]
          PROVE  Logged(d, ip)' \/ InTransit(d, ip)'
      <3>1. v = w /\ job[v] \in Job
        BY <1>1, <2>1, <2>4, BusyIsJob
           DEF ExecutorNext, DeviceApplies, DeviceAnswers, RecordAction, MarkBlocked,
               UnrecordedBlock
      <3>2. CASE RecordAction(v)
        <4>1. PICK i \in Nat : i = Len(records) + 1
          BY <3>2, Recorded
        <4>2. records'[i] = [task |-> job[v].task, device |-> job[v].device, ip |-> job[v].ip,
                             action |-> job[v].action, status |-> job[v].status,
                             event |-> job[v].event]
          BY <3>2, <4>1, Recorded
        <4>3. i \in DOMAIN records'
          <5>1. DOMAIN records' = 1..i
            BY <3>2, <4>1, Recorded
          <5>2. i \in 1..i
            BY <3>2, <4>1, Recorded
          <5>3. QED
            BY <5>1, <5>2, Zenon
        <4>4. QED
          BY <2>1, <4>2, <4>3 DEF Logged, UnrecordedBlock
      <3>3. CASE DeviceApplies(v)
        <4>1. job'[v] = [job[v] EXCEPT !.applied = TRUE]
          BY <1>1, <3>3 DEF DeviceApplies
        <4>2. /\ job'[v] \in Job /\ job'[v].phase = job[v].phase
              /\ job'[v].action = job[v].action
              /\ job'[v].device = job[v].device /\ job'[v].ip = job[v].ip
          BY <3>1, <4>1 DEF Job
        <4>3. QED
          BY <2>1, <4>2, NoneIsNoJob DEF InTransit, UnrecordedBlock
      <3>4. ASSUME NEW status \in {"success", "failed"}, DeviceAnswers(v, status)
            PROVE  InTransit(d, ip)'
        <4>1. job'[v] = [job[v] EXCEPT !.phase = "record", !.status = status]
          BY <1>1, <3>4 DEF DeviceAnswers, PhaseAfterCall
        <4>2. /\ job'[v] \in Job /\ job'[v].phase = "record"
              /\ job'[v].action = job[v].action
              /\ job'[v].device = job[v].device /\ job'[v].ip = job[v].ip
          BY <3>1, <4>1 DEF Job
        <4>3. QED
          BY <2>1, <4>2, NoneIsNoJob DEF InTransit, UnrecordedBlock
      <3>5. ~MarkBlocked(v)
        BY <2>1 DEF MarkBlocked, InPhase, UnrecordedBlock
      <3>6. QED
        BY <2>4, <3>1, <3>2, <3>3, <3>4, <3>5 DEF ExecutorNext
    <2>5. ASSUME NEW W \in SUBSET Workers, Stop(W), job'[v] # job[v] PROVE <<d, ip>> \in lost'
      <3>1. v \in W
        BY <2>5 DEF Stop
      <3>2. QED
        BY <2>1, <2>5, <3>1 DEF Stop
    <2>6. QED
      BY <2>2, <2>3, <2>4, <2>5, StepKinds
  \* An address is new on a device only by a call that is now in transit.
  <1>5. ASSUME ip \notin blacklist[d] PROVE InTransit(d, ip)'
    <2>1. PICK w \in Workers : DeviceApplies(w)
      BY <1>5, StepKinds DEF Quiet, Begin, ExecutorNext, DeviceAnswers, RecordAction,
                             MarkBlocked, Stop
    <2>2. job[w] \in Job /\ job[w].phase = "call"
      BY <2>1, BusyIsJob DEF DeviceApplies, InPhase
    <2>3. job[w].action = "block" /\ job[w].device = d /\ job[w].ip = ip
      BY <1>5, <2>1 DEF DeviceApplies, TypeOK
    <2>4. job'[w] = [job[w] EXCEPT !.applied = TRUE]
      BY <1>1, <2>1 DEF DeviceApplies
    <2>5. /\ job'[w] \in Job /\ job'[w].phase = "call" /\ job'[w].action = "block"
          /\ job'[w].device = d /\ job'[w].ip = ip
      BY <2>2, <2>3, <2>4 DEF Job
    <2>6. QED
      BY <2>5, NoneIsNoJob DEF InTransit, UnrecordedBlock
  <1>6. CASE ip \in blacklist[d]
    BY <1>2, <1>3, <1>4, <1>6 DEF BlockedIsLogged, InTransit
  <1>7. QED
    BY <1>5, <1>6

\* Whatever sits on a device is in the log, on its way there, or lost to a
\* fault between the call and its record.
THEOREM BlocksAreLogged == Spec => []BlockedIsLogged
  <1>1. Init => BlockedIsLogged
    BY DEF Init, BlockedIsLogged
  <1>2. QED
    BY <1>1, LoggedStep, TypeCorrect, PTL DEF Spec


-----------------------------------------------------------------------------
(* The rows: how often they are tried, why they leave, and that the whole  *)
(* implements BlockContract                                                *)

Worked(r) == job[Consumer] # None /\ job[Consumer].row = r
Answered(r) == Worked(r) /\ job[Consumer].phase # "call"
Won(r) == Answered(r) /\ job[Consumer].status = "success"
One(b) == IF b THEN 1 ELSE 0

\* The task or the device of the row is gone for good: no round will call for it.
Orphan(r) ==
    \/ pending[r].task \in spent \ DOMAIN tasks
    \/ pending[r].device \in spent \ DOMAIN devices

\* What the consumer works at is a row of the table, and a handler at none.
ConsumerJob ==
    job[Consumer] # None =>
        LET j == job[Consumer]
        IN  /\ j.row \in DOMAIN pending /\ j.action = "block"
            /\ j.task = pending[j.row].task /\ j.device = pending[j.row].device
            /\ j.task \in DOMAIN tasks \cup spent
            /\ j.device \in DOMAIN devices \cup spent
            /\ j.phase = "count" => j.status = "failed"
            /\ j.phase \in {"mark", "drop"} => j.status = "success"
HandlerJobs == \A h \in Handlers : job[h] # None => job[h].row = None

\* Every attempt on record was a call; a call that no fault came after is an attempt.
Counted(r) ==
    /\ tally[r].tries >= pending[r].attempts + One(Answered(r))
    /\ Won(r) => tally[r].wins > 0
    /\ Worked(r) \/ ~Orphan(r) =>
         /\ tally[r].tries <= pending[r].attempts + One(Answered(r)) + faults
         /\ tally[r].wins <= One(Won(r)) + faults

Untried == \A r \in RowIds : r > lastRow => tally[r].tries = 0 /\ tally[r].wins = 0

TriesInv ==
    /\ TypeOK
    /\ ConsumerJob /\ HandlerJobs
    /\ Untried
    /\ \A r \in DOMAIN pending : Counted(r)
    /\ RetriesBounded

\* What the provers need to know of numbers and rows.
LEMMA RowTypes ==
    ASSUME TypeOK
    PROVE  /\ faults \in Nat /\ lastRow \in Nat
           /\ \A r \in RowIds : tally[r].tries \in Nat /\ tally[r].wins \in Nat
           /\ \A r \in DOMAIN pending :
                /\ r \in RowIds /\ r <= lastRow
                /\ pending[r] \in PendingRow /\ pending[r].attempts \in Nat
                /\ pending[r].attempts + 1 <= MAX_ATTEMPTS
           /\ MAX_ATTEMPTS \in Nat
  BY ConstantsAssumption DEF TypeOK, RowIds, PendingRow

LEMMA InitTries == Init => TriesInv
  <1> SUFFICES ASSUME Init PROVE TriesInv
    OBVIOUS
  <1>1. TypeOK
    BY InitType
  <1>2. DOMAIN pending = {} /\ \A w \in Workers : job[w] = None
    BY DEF Init
  <1>3. Untried /\ RetriesBounded
    BY ConstantsAssumption DEF Init, Untried, RetriesBounded
  <1>4. QED
    BY <1>1, <1>2, <1>3 DEF TriesInv, ConsumerJob, HandlerJobs, Workers

-----------------------------------------------------------------------------
(* Steps, as the rows see them                                             *)

\* The tables change, and rows come or become due: what is counted stays.
LEMMA TablesCounted ==
    ASSUME TriesInv, TypeOK',
           UNCHANGED <<job, tally, faults>>, lastRow <= lastRow',
           DOMAIN pending \subseteq DOMAIN pending',
           \A r \in DOMAIN pending : /\ pending'[r].attempts = pending[r].attempts
                                     /\ pending'[r].task = pending[r].task
                                     /\ pending'[r].device = pending[r].device,
           \A r \in DOMAIN pending' \ DOMAIN pending : r > lastRow /\ pending'[r].attempts = 0,
           spent \subseteq spent',
           DOMAIN tasks \subseteq DOMAIN tasks' \cup spent', DOMAIN tasks' \cap spent \subseteq DOMAIN tasks,
           DOMAIN devices \subseteq DOMAIN devices' \cup spent', DOMAIN devices' \cap spent \subseteq DOMAIN devices
    PROVE  TriesInv'
  <1>1. ConsumerJob' /\ HandlerJobs'
    BY DEF TriesInv, ConsumerJob, HandlerJobs
  <1>0. lastRow \in Nat /\ lastRow' \in Nat /\ DOMAIN pending' \subseteq RowIds
    BY ConstantsAssumption DEF TriesInv, TypeOK, RowIds
  <1>2. Untried' /\ RetriesBounded'
    BY <1>0, ConstantsAssumption DEF TriesInv, Untried, RetriesBounded, RowIds
  <1>3. ASSUME NEW r \in DOMAIN pending PROVE Counted(r)'
    <2>1. /\ Counted(r) /\ (Worked(r)' <=> Worked(r)) /\ (Answered(r)' <=> Answered(r)) /\ (Won(r)' <=> Won(r))
          /\ Orphan(r) => Orphan(r)'
      BY <1>3 DEF TriesInv, Worked, Answered, Won, Orphan
    <2>2. QED
      BY <1>3, <2>1 DEF Counted, One
  <1>4. ASSUME NEW r \in DOMAIN pending' \ DOMAIN pending PROVE Counted(r)'
    <2>1. r \in RowIds /\ tally[r].tries = 0 /\ tally[r].wins = 0 /\ r > lastRow /\ faults \in Nat
      BY <1>0, <1>4, RowTypes DEF TriesInv, Untried
    <2>2. ~Worked(r)'
      BY <1>4, <2>1 DEF TriesInv, ConsumerJob, Worked
    <2>3. pending'[r].attempts = 0 /\ ~Answered(r)' /\ ~Won(r)'
      BY <1>4, <2>2 DEF Answered, Won
    <2>4. QED
      BY <2>1, <2>3 DEF Counted, One
  <1>5. QED
    BY <1>1, <1>2, <1>3, <1>4 DEF TriesInv

LEMMA AdminCounted == TriesInv /\ AdminNext => TriesInv'
  <1> SUFFICES ASSUME TriesInv, AdminNext PROVE TriesInv'
    OBVIOUS
  <1>1. TypeOK'
    BY AdminType DEF TriesInv
  <1>2. UNCHANGED <<pending, lastRow, job, faults, tally>>
    BY DEF AdminNext, CreateDevice, UpdateDevice, DeleteDevice, CreateTask, UpdateTask, DeleteTask, CreateWhitelist,
           DeleteWhitelist, SetWhitelist, InstallScript, UninstallScript, rest
  <1>3. /\ spent \subseteq spent'
        /\ DOMAIN tasks \subseteq DOMAIN tasks' \cup spent' /\ DOMAIN tasks' \cap spent \subseteq DOMAIN tasks
        /\ DOMAIN devices \subseteq DOMAIN devices' \cup spent' /\ DOMAIN devices' \cap spent \subseteq DOMAIN devices
    <2>1. ASSUME NEW d \in Devices, NEW on \in BOOLEAN, NEW k \in Drivers,
                 CreateDevice(d, k, on) \/ UpdateDevice(d, on) \/ DeleteDevice(d)
          PROVE  <1>3
      BY <2>1 DEF CreateDevice, UpdateDevice, DeleteDevice, Put, Delete
    <2>2. ASSUME NEW t \in Tasks, NEW d \in Devices, NEW p \in Presets, NEW on \in BOOLEAN,
                 CreateTask(t, d, p, on) \/ UpdateTask(t, d, p, on) \/ DeleteTask(t)
          PROVE  <1>3
      BY <2>2 DEF CreateTask, UpdateTask, DeleteTask, Put, Delete
    <2>3. QED
      BY <2>1, <2>2 DEF AdminNext, CreateDevice, UpdateDevice, DeleteDevice, CreateTask, UpdateTask, DeleteTask, Put, Delete, CreateWhitelist,
                        DeleteWhitelist, SetWhitelist, InstallScript, UninstallScript
  <1>4. lastRow \in Nat
    BY RowTypes DEF TriesInv
  <1>5. QED
    BY <1>1, <1>2, <1>3, <1>4, TablesCounted

LEMMA EnqueueCounted ==
    ASSUME TriesInv, NEW e \in Alerts, NEW hits \in SUBSET Tasks, EnqueueTaskActions(e, hits)
    PROVE  TriesInv'
  <1>1. TypeOK'
    BY EnqueueType DEF TriesInv
  <1>2. UNCHANGED <<tables, job, faults, tally>>
    BY DEF EnqueueTaskActions, history
  <1>3. /\ lastRow <= lastRow' /\ DOMAIN pending \subseteq DOMAIN pending'
        /\ \A r \in DOMAIN pending : pending'[r] = pending[r]
        /\ \A r \in DOMAIN pending' \ DOMAIN pending : r > lastRow /\ pending'[r].attempts = 0
    BY RowTypes DEF EnqueueTaskActions, TriesInv
  <1>4. QED
    BY <1>1, <1>2, <1>3, TablesCounted DEF tables

LEMMA DueCounted ==
    ASSUME TriesInv, NEW r \in RowIds, BecomeDue(r), TypeOK'
    PROVE  TriesInv'
  <1>1. UNCHANGED <<tables, lastRow, job, faults, tally>>
    BY DEF BecomeDue, history
  <1>2. /\ DOMAIN pending' = DOMAIN pending
        /\ \A q \in DOMAIN pending : /\ pending'[q].attempts = pending[q].attempts
                                     /\ pending'[q].task = pending[q].task
                                     /\ pending'[q].device = pending[q].device
    BY RowTypes DEF BecomeDue, TriesInv, PendingRow
  <1>3. lastRow \in Nat
    BY RowTypes DEF TriesInv
  <1>4. QED
    BY <1>1, <1>2, <1>3, TablesCounted DEF tables

\* A row leaves, or a round ends; nobody works at anything any more.
LEMMA LeaveCounted ==
    ASSUME TriesInv, TypeOK', UNCHANGED <<tables, lastRow, faults, tally>>,
           job'[Consumer] = None, \A h \in Handlers : job'[h] = job[h],
           DOMAIN pending' \subseteq DOMAIN pending,
           \A r \in DOMAIN pending' : pending'[r] = pending[r],
           \A r \in DOMAIN pending' : Worked(r) => ~Answered(r) \/ Orphan(r)
    PROVE  TriesInv'
  <1>1. ConsumerJob' /\ HandlerJobs' /\ Untried' /\ RetriesBounded'
    BY DEF TriesInv, ConsumerJob, HandlerJobs, Untried, RetriesBounded
  <1>2. ASSUME NEW r \in DOMAIN pending' PROVE Counted(r)'
    <2>1. /\ Counted(r) /\ ~Worked(r)' /\ ~Answered(r)' /\ ~Won(r)' /\ (Orphan(r)' <=> Orphan(r))
          /\ Answered(r) => Worked(r) /\ (Won(r) => Answered(r))
      BY <1>2 DEF TriesInv, Worked, Answered, Won, Orphan, tables
    <2>2. /\ tally[r].tries \in Nat /\ tally[r].wins \in Nat /\ faults \in Nat
          /\ pending[r].attempts \in Nat /\ pending'[r].attempts = pending[r].attempts
      BY <1>2, RowTypes DEF TriesInv
    <2>3. Won(r) => Answered(r)
      BY DEF Won
    <2>4. QED
      BY <1>2, <2>1, <2>2, <2>3 DEF Counted, One
  <1>3. QED
    BY <1>1, <1>2 DEF TriesInv

-----------------------------------------------------------------------------
(* The consumer                                                            *)

LEMMA TakeCounted ==
    ASSUME TriesInv, TypeOK', NEW r \in RowIds, TakeRow(r)
    PROVE  TriesInv'
  <1>1. /\ job[Consumer] = None /\ r \in DOMAIN pending /\ Permitted(pending[r])
        /\ UNCHANGED <<tables, pending, lastRow, faults, tally>>
    BY DEF TakeRow, IsNext, history, TriesInv, TypeOK
  <1>2. /\ job'[Consumer] = NewJob(r, pending[r].task, pending[r].device, pending[r].ip, "block", pending[r].event)
        /\ \A h \in Handlers : job'[h] = job[h]
    BY ConstantsAssumption DEF TakeRow, TriesInv, TypeOK, Workers
  <1>3. /\ job'[Consumer].row = r /\ job'[Consumer].phase = "call" /\ job'[Consumer].action = "block"
        /\ job'[Consumer].task = pending[r].task /\ job'[Consumer].device = pending[r].device
    BY <1>2 DEF NewJob
  <1>4. ~Orphan(r)
    BY <1>1 DEF Orphan, Permitted
  <1>5. ConsumerJob' /\ HandlerJobs' /\ Untried' /\ RetriesBounded'
    BY <1>1, <1>2, <1>3 DEF TriesInv, ConsumerJob, HandlerJobs, Untried, RetriesBounded, Permitted, tables
  <1>6. ASSUME NEW q \in DOMAIN pending' PROVE Counted(q)'
    <2>1. /\ Counted(q) /\ ~Worked(q) /\ ~Answered(q) /\ ~Won(q) /\ ~Answered(q)' /\ ~Won(q)'
          /\ Orphan(q)' <=> Orphan(q)
          /\ Worked(q)' => q = r
      BY <1>1, <1>3, <1>6 DEF TriesInv, Worked, Answered, Won, Orphan, tables
    <2>2. QED
      BY <1>1, <1>4, <2>1 DEF Counted, One
  <1>7. QED
    BY <1>5, <1>6 DEF TriesInv

\* The consumer's job goes on without a call being answered or a row being touched.
LEMMA JobCounted ==
    ASSUME TriesInv, TypeOK', UNCHANGED <<tables, pending, lastRow, faults, tally>>,
           job[Consumer] # None, job'[Consumer] # None, \A h \in Handlers : job'[h] = job[h],
           job'[Consumer].row = job[Consumer].row, job'[Consumer].action = job[Consumer].action,
           job'[Consumer].task = job[Consumer].task, job'[Consumer].device = job[Consumer].device,
           job'[Consumer].status = job[Consumer].status,
           job'[Consumer].phase = "call" <=> job[Consumer].phase = "call",
           job'[Consumer].phase = "count" => job'[Consumer].status = "failed",
           job'[Consumer].phase \in {"mark", "drop"} => job'[Consumer].status = "success"
    PROVE  TriesInv'
  <1>1. ConsumerJob' /\ HandlerJobs' /\ Untried' /\ RetriesBounded'
    BY DEF TriesInv, ConsumerJob, HandlerJobs, Untried, RetriesBounded, tables
  <1>2. ASSUME NEW r \in DOMAIN pending' PROVE Counted(r)'
    <2>1. /\ Counted(r) /\ (Worked(r)' <=> Worked(r)) /\ (Answered(r)' <=> Answered(r)) /\ (Won(r)' <=> Won(r))
          /\ Orphan(r)' <=> Orphan(r)
      BY <1>2 DEF TriesInv, Worked, Answered, Won, Orphan, tables
    <2>2. QED
      BY <2>1 DEF Counted, One
  <1>3. QED
    BY <1>1, <1>2 DEF TriesInv

\* The consumer's call is answered: one try more, and perhaps one success.
LEMMA AnswerCounted ==
    ASSUME TriesInv, TypeOK', NEW status \in {"success", "failed"}, DeviceAnswers(Consumer, status)
    PROVE  TriesInv'
  <1>0. PICK r : r = job[Consumer].row
    OBVIOUS
  <1>1. /\ job[Consumer] # None /\ job[Consumer].phase = "call" /\ job[Consumer] \in Job
        /\ UNCHANGED <<tables, pending, lastRow, faults>>
    BY BusyIsJob DEF DeviceAnswers, InPhase, TriesInv, Workers
  <1>2. r \in DOMAIN pending /\ r \in RowIds /\ r # None
    BY <1>0, <1>1, RowTypes, ConstantsAssumption DEF TriesInv, ConsumerJob
  <1>3. /\ job'[Consumer] = [job[Consumer] EXCEPT !.phase = "record", !.status = status]
        /\ \A h \in Handlers : job'[h] = job[h]
    BY ConstantsAssumption DEF DeviceAnswers, PhaseAfterCall, TriesInv, TypeOK, Workers
  <1>4. /\ job'[Consumer] # None /\ job'[Consumer].phase = "record" /\ job'[Consumer].status = status
        /\ job'[Consumer].row = r /\ job'[Consumer].action = job[Consumer].action
        /\ job'[Consumer].task = job[Consumer].task /\ job'[Consumer].device = job[Consumer].device
    <2>1. job'[Consumer] \in Job
      BY <1>0, <1>1, <1>3 DEF Job
    <2>2. QED
      BY <1>0, <1>1, <1>3, <2>1, NoneIsNoJob DEF Job
  <1>5. /\ tally'[r].tries = tally[r].tries + 1
        /\ tally'[r].wins = tally[r].wins + One(status = "success")
        /\ \A q \in RowIds \ {r} : tally'[q] = tally[q]
    BY <1>0, <1>2 DEF DeviceAnswers, TriesInv, TypeOK, One
  <1>6. ConsumerJob' /\ HandlerJobs'
    BY <1>0, <1>1, <1>3, <1>4 DEF TriesInv, ConsumerJob, HandlerJobs, tables
  <1>7. Untried'
    <2>1. r <= lastRow /\ lastRow \in Nat /\ r \in Nat /\ RowIds \subseteq Nat
      BY <1>2, RowTypes DEF TriesInv, RowIds
    <2>2. ASSUME NEW q \in RowIds, q > lastRow PROVE tally'[q] = tally[q]
      BY <1>5, <2>1, <2>2
    <2>3. QED
      BY <1>0, <1>1, <2>2 DEF TriesInv, Untried
  <1>8. Counted(r)' /\ tally'[r].tries <= MAX_ATTEMPTS + faults /\ tally'[r].wins <= 1 + faults
    <2>1. Counted(r) /\ Worked(r) /\ ~Answered(r) /\ ~Won(r)
      BY <1>0, <1>1, <1>2 DEF TriesInv, Worked, Answered, Won
    <2>2. Worked(r)' /\ Answered(r)' /\ (Won(r)' <=> status = "success")
      BY <1>0, <1>4 DEF Worked, Answered, Won
    <2>3. /\ tally[r].tries \in Nat /\ tally[r].wins \in Nat /\ faults \in Nat /\ MAX_ATTEMPTS \in Nat
          /\ pending[r].attempts \in Nat /\ pending[r].attempts + 1 <= MAX_ATTEMPTS
      BY <1>2, RowTypes DEF TriesInv
    <2>4. /\ tally[r].tries >= pending[r].attempts /\ tally[r].tries <= pending[r].attempts + faults
          /\ tally[r].wins <= faults
      BY <2>1, <2>3 DEF Counted, One
    <2>5. Counted(r)'
      <3>1. One(Answered(r)') = 1 /\ One(Won(r)') = One(status = "success") /\ One(status = "success") \in {0, 1}
        BY <2>2 DEF One
      <3>2. tally'[r].tries >= pending[r].attempts + 1 /\ tally'[r].tries <= pending[r].attempts + 1 + faults
        BY <1>5, <2>3, <2>4
      <3>3. tally'[r].wins <= One(status = "success") + faults /\ (status = "success" => tally'[r].wins > 0)
        <4>1. CASE status = "success"
          BY <1>5, <2>3, <2>4, <4>1 DEF One
        <4>2. CASE status # "success"
          BY <1>5, <2>3, <2>4, <4>2 DEF One
        <4>3. QED
          BY <4>1, <4>2
      <3>4. QED
        BY <1>1, <2>2, <3>1, <3>2, <3>3 DEF Counted
    <2>6. QED
      BY <1>0, <1>1, <1>5, <2>3, <2>4, <2>5 DEF One
  <1>9. ASSUME NEW q \in DOMAIN pending', q # r PROVE Counted(q)'
    <2>1. /\ Counted(q) /\ q \in RowIds /\ ~Worked(q) /\ ~Answered(q) /\ ~Won(q)
          /\ ~Worked(q)' /\ ~Answered(q)' /\ ~Won(q)' /\ (Orphan(q)' <=> Orphan(q))
      BY <1>0, <1>1, <1>4, <1>9, RowTypes DEF TriesInv, Worked, Answered, Won, Orphan, tables
    <2>2. QED
      BY <1>0, <1>1, <1>5, <1>9, <2>1 DEF Counted, One
  <1>10. RetriesBounded'
    <2>1. ASSUME NEW q \in RowIds, q # r PROVE tally'[q] = tally[q]
      BY <1>5, <2>1
    <2>2. faults' = faults
      BY <1>1
    <2>3. QED
      BY <1>8, <2>1, <2>2 DEF RetriesBounded, TriesInv
  <1>11. QED
    BY <1>6, <1>7, <1>8, <1>9, <1>10 DEF TriesInv

LEMMA FailureCounted ==
    ASSUME TriesInv, TypeOK', CountFailure
    PROVE  TriesInv'
  <1> DEFINE r == job[Consumer].row
  <1>1. /\ job[Consumer] # None /\ job[Consumer].phase = "count" /\ r \in DOMAIN pending /\ r \in RowIds
        /\ UNCHANGED <<tables, lastRow, faults, tally>>
    BY RowTypes DEF CountFailure, InPhase, TriesInv, ConsumerJob, history
  <1>2. job'[Consumer] = None /\ \A h \in Handlers : job'[h] = job[h]
    BY ConstantsAssumption DEF CountFailure, TriesInv, TypeOK, Workers
  <1>3. CASE Backoff(r)
    <2>1. /\ DOMAIN pending' = DOMAIN pending
          /\ \A q \in DOMAIN pending : /\ pending'[q].task = pending[q].task
                                       /\ pending'[q].device = pending[q].device
                                       /\ pending'[q].attempts = pending[q].attempts + One(q = r)
      BY <1>1, <1>3, RowTypes DEF Backoff, TriesInv, PendingRow, One
    <2>2. ConsumerJob' /\ HandlerJobs' /\ Untried' /\ RetriesBounded'
      BY <1>1, <1>2 DEF TriesInv, ConsumerJob, HandlerJobs, Untried, RetriesBounded
    <2>3. ASSUME NEW q \in DOMAIN pending PROVE Counted(q)'
      <3>1. /\ Counted(q) /\ ~Worked(q)' /\ ~Answered(q)' /\ ~Won(q)' /\ (Orphan(q)' <=> Orphan(q))
            /\ ~Won(q)
        BY <1>1, <1>2, <2>1, <2>3 DEF TriesInv, ConsumerJob, Worked, Answered, Won, Orphan, tables
      <3>2. (Worked(q) <=> q = r) /\ (Answered(q) <=> q = r)
        BY <1>1 DEF Worked, Answered
      <3>3. QED
        BY <1>1, <2>1, <2>3, <3>1, <3>2, RowTypes DEF Counted, One, TriesInv
    <2>4. QED
      BY <2>1, <2>2, <2>3 DEF TriesInv
  <1>4. CASE DropRow(r)
    <2>1. /\ DOMAIN pending' = DOMAIN pending \ {r} /\ \A q \in DOMAIN pending' : pending'[q] = pending[q]
      BY <1>4 DEF DropRow, Delete
    <2>2. \A q \in DOMAIN pending' : ~Worked(q)
      BY <2>1 DEF Worked
    <2>3. QED
      BY <1>1, <1>2, <2>1, <2>2, LeaveCounted
  <1>5. CASE AbortRound /\ job[Consumer].task \notin DOMAIN tasks
    <2>1. Orphan(r)
      BY <1>1, <1>5 DEF TriesInv, ConsumerJob, Orphan
    <2>2. \A q \in DOMAIN pending' : Worked(q) => Orphan(q)
      BY <2>1 DEF Worked
    <2>3. QED
      BY <1>1, <1>2, <1>5, <2>2, LeaveCounted DEF AbortRound
  <1>6. QED
    BY <1>3, <1>4, <1>5 DEF CountFailure

LEMMA DropCounted ==
    ASSUME TriesInv, TypeOK', LogAndDrop
    PROVE  TriesInv'
  <1> DEFINE r == job[Consumer].row
  <1>1. /\ job[Consumer] # None /\ job[Consumer].phase = "drop" /\ r \in DOMAIN pending
        /\ UNCHANGED <<tables, lastRow, faults, tally>>
    BY DEF LogAndDrop, InPhase, TriesInv, ConsumerJob, history
  <1>2. job'[Consumer] = None /\ \A h \in Handlers : job'[h] = job[h]
    BY ConstantsAssumption DEF LogAndDrop, TriesInv, TypeOK, Workers
  <1>3. CASE DropRow(r)
    <2>1. /\ DOMAIN pending' = DOMAIN pending \ {r} /\ \A q \in DOMAIN pending' : pending'[q] = pending[q]
      BY <1>3 DEF DropRow, Delete
    <2>2. \A q \in DOMAIN pending' : ~Worked(q)
      BY <2>1 DEF Worked
    <2>3. QED
      BY <1>1, <1>2, <2>1, <2>2, LeaveCounted
  <1>4. CASE AbortRound /\ ~(job[Consumer].task \in DOMAIN tasks /\ job[Consumer].device \in DOMAIN devices)
    <2>1. Orphan(r)
      BY <1>1, <1>4 DEF TriesInv, ConsumerJob, Orphan
    <2>2. \A q \in DOMAIN pending' : Worked(q) => Orphan(q)
      BY <2>1 DEF Worked
    <2>3. QED
      BY <1>1, <1>2, <1>4, <2>2, LeaveCounted DEF AbortRound
  <1>5. QED
    BY <1>3, <1>4 DEF LogAndDrop

LEMMA StopCounted ==
    ASSUME TriesInv, TypeOK', NEW W \in SUBSET Workers, Stop(W)
    PROVE  TriesInv'
  <1>1. UNCHANGED <<tables, pending, lastRow, tally>> /\ faults' = faults + 1 /\ faults \in Nat
    BY RowTypes DEF Stop, TriesInv
  <1>2. \A w \in Workers : job'[w] = None \/ job'[w] = job[w]
    BY DEF Stop
  <1>3. ConsumerJob' /\ HandlerJobs'
    BY <1>1, <1>2 DEF TriesInv, ConsumerJob, HandlerJobs, Workers, tables
  <1>4. Untried' /\ RetriesBounded'
    BY <1>1, RowTypes DEF TriesInv, Untried, RetriesBounded
  <1>5. ASSUME NEW r \in DOMAIN pending' PROVE Counted(r)'
    <2>1. Counted(r) /\ (Orphan(r)' <=> Orphan(r)) /\ (Won(r) => Answered(r)) /\ (Answered(r) => Worked(r))
      BY <1>1, <1>5 DEF TriesInv, Orphan, Won, Answered, tables
    <2>2. \/ ~Worked(r)' /\ ~Answered(r)' /\ ~Won(r)'
          \/ (Worked(r)' <=> Worked(r)) /\ (Answered(r)' <=> Answered(r)) /\ (Won(r)' <=> Won(r))
      BY <1>2 DEF Worked, Answered, Won, Workers
    <2>3. QED
      BY <1>1, <1>5, <2>1, <2>2, RowTypes DEF Counted, One, TriesInv
  <1>6. QED
    BY <1>3, <1>4, <1>5 DEF TriesInv

\* Nothing the rows are counted by changes.
LEMMA AsideCounted ==
    ASSUME TriesInv, TypeOK', UNCHANGED <<tables, pending, lastRow, faults, tally>>,
           job'[Consumer] = job[Consumer],
           \A h \in Handlers : job'[h] # None => job'[h].row = None
    PROVE  TriesInv'
  <1>1. ConsumerJob' /\ HandlerJobs' /\ Untried' /\ RetriesBounded'
    BY DEF TriesInv, ConsumerJob, HandlerJobs, Untried, RetriesBounded, tables
  <1>2. ASSUME NEW r \in DOMAIN pending' PROVE Counted(r)'
    <2>1. /\ Counted(r) /\ (Worked(r)' <=> Worked(r)) /\ (Answered(r)' <=> Answered(r)) /\ (Won(r)' <=> Won(r))
          /\ Orphan(r)' <=> Orphan(r)
      BY <1>2 DEF TriesInv, Worked, Answered, Won, Orphan, tables
    <2>2. QED
      BY <2>1 DEF Counted, One
  <1>3. QED
    BY <1>1, <1>2 DEF TriesInv

LEMMA ConsumerCounted == TriesInv /\ TypeOK' /\ ConsumerNext => TriesInv'
  <1> SUFFICES ASSUME TriesInv, TypeOK', ConsumerNext PROVE TriesInv'
    OBVIOUS
  <1>0. job \in [Workers -> Job \cup {None}] /\ Consumer \in Workers /\ \A h \in Handlers : h # Consumer /\ h \in Workers
    BY ConstantsAssumption DEF TriesInv, TypeOK, Workers
  <1>1. ASSUME StartRound \/ \E r \in RowIds : MissDriver(r) PROVE TriesInv'
    <2>1. UNCHANGED <<tables, pending, lastRow, faults, tally, job>>
      BY <1>1 DEF StartRound, MissDriver, history
    <2>2. QED
      BY <2>1, AsideCounted DEF TriesInv, HandlerJobs
  <1>2. ASSUME NEW r \in RowIds, RefuseRow(r) PROVE TriesInv'
    <2>1. /\ UNCHANGED <<tables, lastRow, faults, tally, job>> /\ job[Consumer] = None
          /\ DOMAIN pending' \subseteq DOMAIN pending /\ \A q \in DOMAIN pending' : pending'[q] = pending[q]
      BY <1>2 DEF RefuseRow, Refused, DropRow, Delete, IsNext, history
    <2>2. QED
      BY <2>1, LeaveCounted DEF Worked
  <1>3. ASSUME NEW r \in RowIds, TakeRow(r) PROVE TriesInv'
    BY <1>3, TakeCounted
  <1>4. ASSUME DeviceApplies(Consumer) \/ RecordAction(Consumer) \/ MarkBlocked(Consumer) PROVE TriesInv'
    <2> DEFINE j == job[Consumer]
    <2>1. /\ UNCHANGED <<tables, pending, lastRow, faults, tally>> /\ j # None /\ j \in Job
          /\ \A h \in Handlers : job'[h] = job[h]
      BY <1>0, <1>4, BusyIsJob DEF DeviceApplies, RecordAction, MarkBlocked, InPhase, history, TriesInv
    <2>2. PICK k \in Job : /\ job'[Consumer] = k
                           /\ k.row = j.row /\ k.action = j.action /\ k.task = j.task /\ k.device = j.device
                           /\ k.status = j.status /\ (k.phase = "call" <=> j.phase = "call")
                           /\ \/ k.phase = "call" /\ j.phase = "call"
                              \/ k.phase = "count" /\ j.phase = "record" /\ ~ToBeMarked(j)
                              \/ k.phase = "mark" /\ ToBeMarked(j)
                              \/ k.phase = "drop" /\ j.phase = "mark"
      <3>1. CASE DeviceApplies(Consumer)
        <4>1. job'[Consumer] = [j EXCEPT !.applied = TRUE] /\ j.phase = "call"
          BY <1>0, <3>1 DEF DeviceApplies, InPhase
        <4>2. QED
          BY <2>1, <4>1 DEF Job
      <3>2. CASE RecordAction(Consumer)
        <4>1. job'[Consumer] = AfterRecord(Consumer, j) /\ j.phase = "record"
          BY <1>0, <3>2 DEF RecordAction, InPhase
        <4>2. QED
          BY <2>1, <4>1 DEF Job, AfterRecord
      <3>3. CASE MarkBlocked(Consumer)
        <4>1. job'[Consumer] = [j EXCEPT !.phase = "drop"] /\ j.phase = "mark"
          BY <1>0, <3>3 DEF MarkBlocked, InPhase
        <4>2. QED
          BY <2>1, <4>1 DEF Job
      <3>4. QED
        BY <1>4, <3>1, <3>2, <3>3
    <2>3. k # None
      BY NoneIsNoJob
    <2>4. k.phase = "count" => k.status = "failed"
      BY <2>1, <2>2 DEF ToBeMarked, TriesInv, ConsumerJob, Job
    <2>5. k.phase \in {"mark", "drop"} => k.status = "success"
      BY <2>1, <2>2 DEF ToBeMarked, TriesInv, ConsumerJob
    <2>6. QED
      BY <2>1, <2>2, <2>3, <2>4, <2>5, JobCounted
  <1>5. ASSUME NEW status \in {"success", "failed"}, DeviceAnswers(Consumer, status) PROVE TriesInv'
    BY <1>5, AnswerCounted
  <1>6. CASE LogAndDrop
    BY <1>6, DropCounted
  <1>7. CASE CountFailure
    BY <1>7, FailureCounted
  <1>8. QED
    BY <1>1, <1>2, <1>3, <1>4, <1>5, <1>6, <1>7 DEF ConsumerNext, ExecutorNext

LEMMA HandlerCounted ==
    ASSUME TriesInv, TypeOK', NEW h \in Handlers, HandlerNext(h)
    PROVE  TriesInv'
  <1>0. job \in [Workers -> Job \cup {None}] /\ Consumer \in Workers /\ h # Consumer /\ Handlers \subseteq Workers
    BY ConstantsAssumption DEF TriesInv, TypeOK, Workers
  <1>1. ASSUME NEW k, job' = [job EXCEPT ![h] = k], k # None => k.row = None,
               UNCHANGED <<tables, pending, lastRow, faults, tally>>
        PROVE  TriesInv'
    <2>1. job'[Consumer] = job[Consumer] /\ \A g \in Handlers : job'[g] # None => job'[g].row = None
      BY <1>0, <1>1 DEF TriesInv, HandlerJobs
    <2>2. QED
      BY <1>1, <2>1, AsideCounted
  <1>2. ASSUME NEW d \in Devices, NEW ip \in Addresses, NEW e \in Alerts \cup {None}, RunAction(h, d, ip, e)
        PROVE  TriesInv'
    BY <1>1, <1>2 DEF RunAction, NewJob, history
  <1>3. ASSUME NEW i \in DOMAIN records, RevokeRecord(h, i) PROVE TriesInv'
    BY <1>1, <1>3 DEF RevokeRecord, NewJob, history
  <1>4. ASSUME ExecutorNext(h) PROVE TriesInv'
    <2>1. job[h] # None /\ job[h].row = None /\ job[h] \in Job
      BY <1>0, <1>4, BusyIsJob
         DEF ExecutorNext, DeviceApplies, DeviceAnswers, RecordAction, MarkBlocked, InPhase, TriesInv, HandlerJobs
    <2>2. UNCHANGED <<tables, pending, lastRow, faults, tally>>
      BY <1>4, <2>1 DEF ExecutorNext, DeviceApplies, DeviceAnswers, RecordAction, MarkBlocked, history
    <2>3. CASE DeviceApplies(h)
      BY <1>1, <2>1, <2>2, <2>3 DEF DeviceApplies, Job
    <2>4. ASSUME NEW status \in {"success", "failed"}, DeviceAnswers(h, status) PROVE TriesInv'
      <3>1. job' = [job EXCEPT ![h] = [job[h] EXCEPT !.phase = "record", !.status = status]]
        BY <1>0, <2>4 DEF DeviceAnswers, PhaseAfterCall
      <3>2. [job[h] EXCEPT !.phase = "record", !.status = status].row = None
        BY <2>1 DEF Job
      <3>3. QED
        BY <1>1, <2>2, <3>1, <3>2
    <2>5. CASE RecordAction(h)
      BY <1>1, <2>1, <2>2, <2>5 DEF RecordAction, AfterRecord, Job
    <2>6. CASE MarkBlocked(h)
      BY <1>0, <1>1, <2>2, <2>6 DEF MarkBlocked
    <2>7. QED
      BY <1>4, <2>3, <2>4, <2>5, <2>6 DEF ExecutorNext
  <1>5. QED
    BY <1>2, <1>3, <1>4 DEF HandlerNext

LEMMA StepTries == TriesInv /\ [Next]_vars => TriesInv'
  <1> SUFFICES ASSUME TriesInv, [Next]_vars PROVE TriesInv'
    OBVIOUS
  <1>1. TypeOK'
    BY StepType DEF TriesInv
  <1>2. ASSUME NEW e \in Alerts, NEW hits \in SUBSET Tasks, EnqueueTaskActions(e, hits) PROVE TriesInv'
    BY <1>2, EnqueueCounted
  <1>3. ASSUME NEW h \in Handlers, HandlerNext(h) PROVE TriesInv'
    BY <1>1, <1>3, HandlerCounted
  <1>4. ASSUME NEW r \in RowIds, BecomeDue(r) PROVE TriesInv'
    BY <1>1, <1>4, DueCounted
  <1>5. ASSUME Crash \/ \E w \in Workers : DatabaseError(w) PROVE TriesInv'
    BY <1>1, <1>5, StopCounted DEF Crash, DatabaseError
  <1>6. CASE UNCHANGED vars
    <2>1. UNCHANGED <<tables, pending, lastRow, faults, tally, job>>
      BY <1>6 DEF vars, history
    <2>2. QED
      BY <1>1, <2>1, AsideCounted DEF TriesInv, HandlerJobs
  <1>7. QED
    BY <1>1, <1>2, <1>3, <1>4, <1>5, <1>6, AdminCounted, ConsumerCounted DEF Next

\* No device is called more often for a row than MAX_ATTEMPTS and the faults allow
\* (auto_block.py process_pending): the invariant ties every call to an attempt on record.
THEOREM RetriesAreBounded == Spec => []RetriesBounded
  <1>1. TriesInv => RetriesBounded
    BY DEF TriesInv
  <1>2. QED
    BY <1>1, InitTries, StepTries, PTL DEF Spec

-----------------------------------------------------------------------------
(* Why rows leave                                                          *)

LEMMA StepLosesNoRow ==
    ASSUME TriesInv, [Next]_vars, NEW r \in DOMAIN pending, r \notin DOMAIN pending'
    PROVE  tally[r].wins > 0 \/ tally[r].tries >= MAX_ATTEMPTS \/ ~Permitted(pending[r])
  <1>1. ASSUME NEW q \in RowIds, RefuseRow(q) PROVE ~Permitted(pending[r])
    BY <1>1 DEF RefuseRow, Refused, DropRow, Delete
  <1>2. CASE LogAndDrop
    <2>1. job[Consumer].row = r /\ job[Consumer] # None /\ job[Consumer].phase = "drop"
      BY <1>2 DEF LogAndDrop, InPhase, DropRow, AbortRound, Delete
    <2>2. QED
      BY <2>1 DEF TriesInv, ConsumerJob, Counted, Won, Answered, Worked
  <1>3. CASE CountFailure
    <2>1. job[Consumer].row = r /\ job[Consumer] # None /\ job[Consumer].phase = "count" /\ Exhausted(pending[r])
      BY <1>3 DEF CountFailure, InPhase, DropRow, AbortRound, Backoff, Delete
    <2>2. tally[r].tries >= pending[r].attempts + 1
      BY <2>1 DEF TriesInv, Counted, Answered, Worked, One
    <2>3. QED
      BY <2>1, <2>2, RowTypes DEF Exhausted, TriesInv
  <1>4. DOMAIN pending \subseteq DOMAIN pending' \/ LogAndDrop \/ CountFailure \/ \E q \in RowIds : RefuseRow(q)
    <2>1. CASE AdminNext
      BY <2>1 DEF AdminNext, CreateDevice, UpdateDevice, DeleteDevice, CreateTask, UpdateTask, DeleteTask,
                  CreateWhitelist, DeleteWhitelist, SetWhitelist, InstallScript, UninstallScript, rest
    <2>2. CASE \E e \in Alerts, hits \in SUBSET Tasks : EnqueueTaskActions(e, hits)
      BY <2>2 DEF EnqueueTaskActions
    <2>3. CASE ConsumerNext \/ \E h \in Handlers : HandlerNext(h)
      BY <2>3 DEF ConsumerNext, HandlerNext, ExecutorNext, StartRound, MissDriver, TakeRow, DeviceApplies,
                  DeviceAnswers, RecordAction, MarkBlocked, RunAction, RevokeRecord
    <2>4. CASE \E q \in RowIds : BecomeDue(q)
      BY <2>4 DEF BecomeDue
    <2>5. CASE Crash \/ \E w \in Workers : DatabaseError(w)
      BY <2>5 DEF Crash, DatabaseError, Stop
    <2>6. CASE UNCHANGED vars
      BY <2>6 DEF vars
    <2>7. QED
      BY <2>1, <2>2, <2>3, <2>4, <2>5, <2>6 DEF Next
  <1>5. QED
    BY <1>1, <1>2, <1>3, <1>4

\* No row is lost silently (auto_block.py process_pending), whatever crashes, errors,
\* deleted tasks and removed scripts come between its steps.
THEOREM NoneIsLost == Spec => NoSilentLoss
  <1>1. TriesInv /\ [Next]_vars =>
          [\A r \in DOMAIN pending : r \notin DOMAIN pending' =>
              \/ tally[r].wins > 0
              \/ tally[r].tries >= MAX_ATTEMPTS
              \/ ~Permitted(pending[r])]_vars
    BY StepLosesNoRow
  <1>2. QED
    BY <1>1, InitTries, StepTries, PTL DEF Spec, NoSilentLoss

-----------------------------------------------------------------------------
(* The contract                                                            *)

LEMMA InitContract == Init => Contract!Init
  <1> SUFFICES ASSUME Init PROVE Contract!Init
    OBVIOUS
  <1>1. pending = << >> /\ lastRow = 0 /\ records = << >> /\ marked = {}
    BY DEF Init
  <1>2. Stage = [r \in RowIds |-> "absent"] /\ Withdrawn = {}
    BY <1>1, ConstantsAssumption DEF Stage, RowIds, Withdrawn
  <1>3. Proven = {} /\ Flagged = {}
    BY <1>1 DEF Proven, Flagged, Backed
  <1>4. QED
    BY <1>2, <1>3 DEF Contract!Init, Init

\* Steps the contract does not see, but that what is withdrawn may change.
LEMMA UnseenStep ==
    ASSUME TypeOK', UNCHANGED <<Stage, tally, Proven, Flagged>>
    PROVE  Contract!Next
  <1>1. Withdrawn' \subseteq RowIds
    BY ConstantsAssumption DEF TypeOK, Withdrawn, RowIds
  <1>2. QED
    BY <1>1 DEF Contract!Next, Contract!Wish

\* Neither rows nor calls nor the log nor the marks.
LEMMA SameContract ==
    ASSUME UNCHANGED <<lastRow, records, marked>>, DOMAIN pending' = DOMAIN pending
    PROVE  UNCHANGED <<Stage, Proven, Flagged>>
  BY DEF Stage, Proven, Flagged, Backed

LEMMA EnqueueSubmits ==
    ASSUME TypeOK, TypeOK', NEW e \in Alerts, NEW hits \in SUBSET Tasks, EnqueueTaskActions(e, hits)
    PROVE  Contract!Next
  <1> DEFINE R == DOMAIN pending' \ DOMAIN pending
  <1>1. UNCHANGED <<records, marked, tally>>
    BY DEF EnqueueTaskActions, history
  <1>2. PICK n \in (lastRow + 1)..MaxRows :
            lastRow' = n /\ DOMAIN pending' = DOMAIN pending \cup (lastRow + 1)..n
    BY DEF EnqueueTaskActions
  <1>3. lastRow \in Nat /\ n \in Nat /\ DOMAIN pending \subseteq 1..lastRow /\ MaxRows \in Nat
    BY <1>2, ConstantsAssumption DEF TypeOK
  <1>4. R = (lastRow + 1)..n /\ R \subseteq RowIds /\ R # {}
    <2>1. R = (lastRow + 1)..n
      BY <1>2, <1>3
    <2>2. (lastRow + 1)..n \subseteq RowIds /\ lastRow + 1 \in (lastRow + 1)..n
      BY <1>2, <1>3 DEF RowIds
    <2>3. QED
      BY <2>1, <2>2
  <1>5. \A r \in R : Stage[r] = "absent"
    BY <1>3, <1>4 DEF Stage, RowIds
  <1>6. Stage' = [r \in RowIds |-> IF r \in R THEN "waiting" ELSE Stage[r]]
    <2>1. ASSUME NEW r \in RowIds, r \notin R PROVE r <= n => r \in DOMAIN pending \/ r <= lastRow
      BY <1>3, <1>4, <2>1 DEF RowIds
    <2>2. ASSUME NEW r \in RowIds PROVE Stage'[r] = IF r \in R THEN "waiting" ELSE Stage[r]
      BY <1>2, <1>3, <1>4, <2>1, <2>2 DEF Stage, RowIds
    <2>3. QED
      BY <2>2 DEF Stage
  <1>7. UNCHANGED <<Proven, Flagged>>
    BY <1>1 DEF Proven, Flagged, Backed
  <1>8. Withdrawn' \subseteq RowIds
    BY ConstantsAssumption DEF TypeOK, Withdrawn, RowIds
  <1>9. Contract!Submit
    BY <1>1, <1>4, <1>5, <1>6, <1>7 DEF Contract!Submit, Contract!Move
  <1>10. QED
    BY <1>8, <1>9 DEF Contract!Next

\* A row leaves for a reason: it settles.
LEMMA LeavingSettles ==
    ASSUME TypeOK, TypeOK', NEW r \in DOMAIN pending, DOMAIN pending' = DOMAIN pending \ {r},
           UNCHANGED <<lastRow, records, marked, tally>>,
           tally[r].wins > 0 \/ tally[r].tries >= MAX_ATTEMPTS \/ ~Permitted(pending[r])
    PROVE  Contract!Next
  <1>1. r \in RowIds /\ r <= lastRow
    BY RowTypes
  <1>2. Stage[r] = "waiting" /\ Stage' = [q \in RowIds |-> IF q \in {r} THEN "settled" ELSE Stage[q]]
    BY <1>1 DEF Stage
  <1>3. UNCHANGED <<Proven, Flagged>>
    BY DEF Proven, Flagged, Backed
  <1>4. r \in Withdrawn \/ tally[r].wins > 0 \/ tally[r].tries >= MAX_ATTEMPTS
    BY DEF Withdrawn
  <1>5. Withdrawn' \subseteq RowIds
    BY ConstantsAssumption DEF TypeOK, Withdrawn, RowIds
  <1>6. Contract!Settle(r)
    BY <1>2, <1>3, <1>4 DEF Contract!Settle, Contract!Move
  <1>7. QED
    BY <1>1, <1>5, <1>6 DEF Contract!Next

LEMMA ExecutorKeepsContract ==
    ASSUME TriesInv, MarkInv, TypeOK', NEW w \in Workers, ExecutorNext(w)
    PROVE  Contract!Next
  <1>0. Withdrawn' \subseteq RowIds /\ TypeOK
    BY ConstantsAssumption DEF TypeOK, Withdrawn, RowIds, TriesInv
  <1>1. CASE DeviceApplies(w)
    BY <1>1, SameContract, UnseenStep DEF DeviceApplies, history
  <1>2. ASSUME NEW status \in {"success", "failed"}, DeviceAnswers(w, status) PROVE Contract!Next
    <2>1. UNCHANGED <<Stage, Proven, Flagged>>
      BY <1>2, SameContract DEF DeviceAnswers
    <2>2. CASE job[w].row = None
      BY <1>2, <2>1, <2>2, UnseenStep DEF DeviceAnswers
    <2>3. CASE job[w].row # None
      <3>1. PICK r : r = job[w].row
        OBVIOUS
      <3>2. w = Consumer
        BY <1>2, <2>3 DEF DeviceAnswers, InPhase, TriesInv, HandlerJobs, Workers
      <3>3. r \in DOMAIN pending /\ r \in RowIds
        BY <1>0, <1>2, <3>1, <3>2, RowTypes DEF DeviceAnswers, InPhase, TriesInv, ConsumerJob
      <3>4. Stage[r] = "waiting"
        BY <3>3 DEF Stage
      <3>5. tally' = [tally EXCEPT ![r].tries = @ + 1, ![r].wins = IF status = "success" THEN @ + 1 ELSE @]
        BY <1>2, <2>3, <3>1 DEF DeviceAnswers
      <3>6. \E gain \in {0, 1} : tally' = [tally EXCEPT ![r].tries = @ + 1, ![r].wins = @ + gain]
        <4>1. CASE status = "success"
          <5>1. tally' = [tally EXCEPT ![r].tries = @ + 1, ![r].wins = @ + 1]
            BY <3>5, <4>1
          <5>2. QED
            BY <5>1
        <4>2. CASE status # "success"
          <5>1. tally' = [tally EXCEPT ![r].tries = @ + 1, ![r].wins = @]
            BY <3>5, <4>2
          <5>2. tally[r] \in [tries: Nat, wins: Nat] /\ tally[r].wins + 0 = tally[r].wins
            BY <1>0, <3>3 DEF TypeOK
          <5>3. [tally EXCEPT ![r].tries = @ + 1, ![r].wins = @] = [tally EXCEPT ![r].tries = @ + 1, ![r].wins = @ + 0]
            BY <5>2
          <5>4. QED
            BY <5>1, <5>3
        <4>3. QED
          BY <4>1, <4>2
      <3>7. \E gain \in {0, 1} : Contract!Try(r, gain)
        BY <2>1, <3>4, <3>6 DEF Contract!Try
      <3>8. QED
        BY <1>0, <3>3, <3>7 DEF Contract!Next
    <2>4. QED
      BY <2>2, <2>3
  <1>3. CASE RecordAction(w)
    <2>1. UNCHANGED <<Stage, tally, Flagged>>
      BY <1>3 DEF RecordAction, Stage, Flagged, history
    <2>2. /\ DOMAIN records = 1..Len(records) /\ Len(records) \in Nat
          /\ DOMAIN records' = 1..(Len(records) + 1)
          /\ Kept
          /\ records'[Len(records) + 1] =
                [task |-> job[w].task, device |-> job[w].device, ip |-> job[w].ip,
                 action |-> job[w].action, status |-> job[w].status, event |-> job[w].event]
      BY <1>0, <1>3, Recorded
    <2>0. \A i \in DOMAIN records' \ DOMAIN records : records'[i].event = job[w].event
      <3>1. \A i \in DOMAIN records' \ DOMAIN records : i = Len(records) + 1
        BY <2>2
      <3>2. QED
        BY <2>2, <3>1
    <2>3. \A e \in Alerts : Backed(e)' => Backed(e) \/ e = job[w].event
      BY <2>2, <2>0 DEF Backed, Kept
    <2>4. Proven \subseteq Proven' /\ Proven' \subseteq Proven \cup {job[w].event}
      BY <2>2, <2>3, StillShown DEF Proven
    <2>5. CASE Proven' = Proven
      BY <2>1, <2>5, UnseenStep
    <2>6. CASE Proven' # Proven
      <3>1. job[w].event \in Alerts /\ Proven' = Proven \cup {job[w].event}
        BY <2>4, <2>6 DEF Proven
      <3>2. Contract!Prove(job[w].event)
        BY <2>1, <3>1 DEF Contract!Prove
      <3>3. QED
        BY <1>0, <3>1, <3>2 DEF Contract!Next
    <2>7. QED
      BY <2>5, <2>6
  <1>4. CASE MarkBlocked(w)
    <2>1. UNCHANGED <<Stage, tally, Proven>>
      BY <1>4 DEF MarkBlocked, Stage, Proven, Backed, history
    <2>2. PICK docs \in SUBSET Documents :
            marked' = IF job[w].event = None THEN marked ELSE marked \cup (docs \X {job[w].event})
      BY <1>4 DEF MarkBlocked
    <2>3. Flagged' = Flagged \/ (Flagged' = Flagged \cup {job[w].event} /\ job[w].event # None)
      <3>1. CASE marked' = marked
        BY <3>1 DEF Flagged
      <3>2. CASE marked' # marked
        <4>1. job[w].event # None /\ docs # {} /\ marked' = marked \cup (docs \X {job[w].event})
          <5>1. job[w].event # None /\ marked' = marked \cup (docs \X {job[w].event})
            BY <2>2, <3>2
          <5>2. docs = {} => docs \X {job[w].event} = {}
            OBVIOUS
          <5>3. QED
            BY <3>2, <5>1, <5>2
        <4>2. PICK doc \in docs : TRUE
          BY <4>1
        <4>3. <<doc, job[w].event>> \in marked' /\ <<doc, job[w].event>>[2] = job[w].event
          BY <4>1, <4>2
        <4>4. \A m \in marked' : m \in marked \/ m[2] = job[w].event
          BY <4>1
        <4>5. Flagged' \subseteq Flagged \cup {job[w].event}
          BY <4>4 DEF Flagged
        <4>6. Flagged \subseteq Flagged' /\ job[w].event \in Flagged'
          BY <4>1, <4>3 DEF Flagged
        <4>7. QED
          BY <4>1, <4>5, <4>6
      <3>3. QED
        BY <3>1, <3>2
    <2>4. CASE Flagged' = Flagged
      BY <2>1, <2>4, UnseenStep
    <2>5. CASE Flagged' = Flagged \cup {job[w].event} /\ job[w].event # None
      <3>1. job[w] # None /\ job[w] \in Job /\ Backed(job[w].event)
        BY <1>0, <1>4, BusyIsJob DEF MarkBlocked, InPhase, MarkInv, Grounded
      <3>2. job[w].event \in Proven /\ job[w].event \in Alerts
        BY <2>5, <3>1 DEF Proven, Job
      <3>3. Contract!Flag(job[w].event)
        BY <2>1, <2>5, <3>2 DEF Contract!Flag
      <3>4. QED
        BY <1>0, <3>2, <3>3 DEF Contract!Next
    <2>6. QED
      BY <2>3, <2>4, <2>5
  <1>5. QED
    BY <1>1, <1>2, <1>3, <1>4 DEF ExecutorNext

\* The consumer's own steps settle a row or end a round.
LEMMA RoundKeepsContract ==
    ASSUME TriesInv, TypeOK', [Next]_vars,
           LogAndDrop \/ CountFailure \/ \E r \in RowIds : RefuseRow(r)
    PROVE  Contract!Next
  <1>0. TypeOK
    BY DEF TriesInv
  <1>1. UNCHANGED <<lastRow, records, marked, tally>>
    BY DEF LogAndDrop, CountFailure, RefuseRow, history
  <1>2. DOMAIN pending' = DOMAIN pending \/ \E r \in DOMAIN pending : DOMAIN pending' = DOMAIN pending \ {r}
    <2>1. ASSUME NEW r, DropRow(r) PROVE <1>2
      BY <2>1 DEF DropRow, Delete
    <2>2. CASE AbortRound \/ \E r : Backoff(r)
      BY <2>2 DEF AbortRound, Backoff
    <2>3. QED
      BY <2>1, <2>2 DEF LogAndDrop, CountFailure, RefuseRow, Refused
  <1>3. CASE DOMAIN pending' = DOMAIN pending
    BY <1>1, <1>3, SameContract, UnseenStep
  <1>4. ASSUME NEW r \in DOMAIN pending, DOMAIN pending' = DOMAIN pending \ {r} PROVE Contract!Next
    <2>1. tally[r].wins > 0 \/ tally[r].tries >= MAX_ATTEMPTS \/ ~Permitted(pending[r])
      BY <1>4, StepLosesNoRow
    <2>2. QED
      BY <1>0, <1>1, <1>4, <2>1, LeavingSettles
  <1>5. QED
    BY <1>2, <1>3, <1>4

LEMMA StepContract == TriesInv /\ MarkInv /\ [Next]_vars => [Contract!Next]_(Contract!vars)
  <1> SUFFICES ASSUME TriesInv, MarkInv, [Next]_vars PROVE [Contract!Next]_(Contract!vars)
    OBVIOUS
  <1>0. TypeOK /\ TypeOK'
    BY StepType DEF TriesInv
  <1>1. CASE AdminNext
    <2>1. UNCHANGED <<pending, lastRow, records, marked, tally>>
      BY <1>1 DEF AdminNext, CreateDevice, UpdateDevice, DeleteDevice, CreateTask, UpdateTask, DeleteTask,
                  CreateWhitelist, DeleteWhitelist, SetWhitelist, InstallScript, UninstallScript, rest
    <2>2. QED
      BY <1>0, <2>1, SameContract, UnseenStep
  <1>2. ASSUME NEW e \in Alerts, NEW hits \in SUBSET Tasks, EnqueueTaskActions(e, hits) PROVE Contract!Next
    BY <1>0, <1>2, EnqueueSubmits
  <1>3. ASSUME NEW w \in Workers, ExecutorNext(w) PROVE Contract!Next
    BY <1>0, <1>3, ExecutorKeepsContract
  <1>4. CASE LogAndDrop \/ CountFailure \/ \E r \in RowIds : RefuseRow(r)
    BY <1>0, <1>4, RoundKeepsContract
  <1>5. CASE StartRound \/ \E r \in RowIds : MissDriver(r) \/ TakeRow(r)
    <2>1. UNCHANGED <<pending, lastRow, records, marked, tally>>
      BY <1>5 DEF StartRound, MissDriver, TakeRow, history
    <2>2. QED
      BY <1>0, <2>1, SameContract, UnseenStep
  <1>6. ASSUME NEW h \in Handlers,
               \/ \E d \in Devices, ip \in Addresses, e \in Alerts \cup {None} : RunAction(h, d, ip, e)
               \/ \E i \in DOMAIN records : RevokeRecord(h, i)
        PROVE  Contract!Next
    <2>1. UNCHANGED <<pending, lastRow, records, marked, tally>>
      BY <1>6 DEF RunAction, RevokeRecord, history
    <2>2. QED
      BY <1>0, <2>1, SameContract, UnseenStep
  <1>7. ASSUME NEW r \in RowIds, BecomeDue(r) PROVE Contract!Next
    <2>1. UNCHANGED <<lastRow, records, marked, tally>> /\ DOMAIN pending' = DOMAIN pending
      BY <1>7 DEF BecomeDue, history
    <2>2. QED
      BY <1>0, <2>1, SameContract, UnseenStep
  <1>8. ASSUME Crash \/ \E w \in Workers : DatabaseError(w) PROVE Contract!Next
    <2>1. UNCHANGED <<pending, lastRow, records, marked, tally>>
      BY <1>8 DEF Crash, DatabaseError, Stop
    <2>2. QED
      BY <1>0, <2>1, SameContract, UnseenStep
  <1>9. CASE UNCHANGED vars
    <2>1. UNCHANGED <<pending, lastRow, records, marked, tally>>
      BY <1>9 DEF vars, history
    <2>2. QED
      BY <1>0, <2>1, SameContract, UnseenStep
  <1>10. QED
    BY <1>1, <1>2, <1>3, <1>4, <1>5, <1>6, <1>7, <1>8, <1>9 DEF Next, ConsumerNext, HandlerNext, Workers

\* Automatic blocking keeps its contract (auto_block.py, executor.py, es_marker.py): every
\* step of the tables, rounds and workers is a step of BlockContract or leaves it as it is.
THEOREM KeepsContract == Spec => Refines
  <1>1. Init => MarkInv
    BY DEF Init, MarkInv, MarkedOnlyAfterSuccess
  <1>2. TriesInv => TypeOK
    BY DEF TriesInv
  <1>3. QED
    BY <1>1, <1>2, InitTries, InitContract, StepTries, MarkStep, StepContract, PTL
       DEF Spec, Refines, Contract!Spec

=============================================================================
