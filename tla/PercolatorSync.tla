---------------------------- MODULE PercolatorSync ----------------------------
(***************************************************************************)
(* The percolator index holds one query per response task and per realtime *)
(* mail watch; PostgreSQL says which queries there should be.  Nothing ties*)
(* the two together but requests: editing a preset commits and then        *)
(* rewrites the queries bound to it, editing a mail watch writes its query *)
(* and then commits, editing a task or a device asks for a full rebuild of *)
(* the task queries.  The rebuild also runs every 60 seconds; that of the  *)
(* watch queries runs when the responder starts.  All of them read first   *)
(* and write later, one document at a time, and overlap freely.            *)
(*                                                                         *)
(* A thread's job is one such request in the analyzer, with the commit of  *)
(* the request it belongs to.                                              *)
(***************************************************************************)
EXTENDS Integers, FiniteSets

CONSTANTS
    Tasks, Devices, Presets, Watches,   \* ids
    Filters,        \* contents of a preset
    Refused,        \* those Elasticsearch does not accept as a query
    Threads,        \* bound: requests served at a time
    None,           \* no value
    Unused, Gone,   \* instead of a row: id not handed out; no row (any more)
    MaxFaults       \* bound: failed requests over a behaviour

Parts == {"task", "watch"}
Docs == ({"task"} \X Tasks) \cup ({"watch"} \X Watches)

TaskRow == [preset: Presets, device: Devices, on: BOOLEAN]
PresetRow == [filters: Filters, on: BOOLEAN]
WatchRow == [preset: Presets, realtime: BOOLEAN]

ASSUME PercolatorAssumption ==
    /\ Refused \subseteq Filters
    /\ None \notin Filters
    /\ Unused # Gone /\ {Unused, Gone} \cap (TaskRow \cup PresetRow \cup WatchRow) = {}
    /\ MaxFaults \in Nat

VARIABLES
    tasks, devices, presets, watches,  \* the tables; of a device only `enabled'
    index,                             \* the query of each document, None if missing
    jobs,                              \* the job of each thread, None when idle
    faults

tables == <<tasks, devices, presets, watches>>
syncVars == <<tables, index, jobs, faults>>

Live(row) == row \notin {Unused, Gone}

RowOf(d) == IF d[1] = "task" THEN tasks[d[2]] ELSE watches[d[2]]

Usable(p) == Live(presets[p]) /\ presets[p].on

\* A row that asks for a query, its preset aside.
Active(d) ==
    /\ Live(RowOf(d))
    /\ IF d[1] = "task" THEN RowOf(d).on /\ devices[RowOf(d).device] ELSE RowOf(d).realtime

\* What the tables ask of the index.
Wanted(d) == IF Active(d) /\ Usable(RowOf(d).preset) THEN presets[RowOf(d).preset].filters ELSE None

\* The rows a preset's sync looks at: all its tasks, its realtime watches.
BoundTo(p, part) ==
    {d \in Docs : /\ d[1] = part
                  /\ Live(RowOf(d))
                  /\ RowOf(d).preset = p
                  /\ part = "watch" => RowOf(d).realtime}

SyncInit ==
    /\ tasks = [t \in Tasks |-> Unused]
    /\ devices \in [Devices -> BOOLEAN]
    /\ presets = [p \in Presets |-> Unused]
    /\ watches = [w \in Watches |-> Unused]
    /\ index = [d \in Docs |-> None]
    /\ jobs = [s \in Threads |-> None]
    /\ faults = 0

-----------------------------------------------------------------------------
(* Jobs                                                                    *)

\* `plan' maps the documents still to write to their query, None to delete.
\* `docs' is the kept set of a rebuild, the documents of the watches deleted
\* with a preset, the document of a watch request.  `clean': since the job
\* began no other has committed or written to the same part of the index.
NewJob(kind, part, step) ==
    [kind |-> kind, part |-> part, step |-> step, preset |-> None, snap |-> None,
     row |-> None, plan |-> << >>, docs |-> {}, clean |-> TRUE]

Rebuild(part) == NewJob("all", part, "read")
PresetSync(p) == [NewJob("preset", "watch", "read") EXCEPT !.preset = p]

Idle(s) == jobs[s] = None
At(s, step) == jobs[s] # None /\ jobs[s].step = step
IsRequest(j) == j.kind \in {"create", "update", "delete"}

SetJob(s, j) == jobs' = [jobs EXCEPT ![s] = j]

\* Another thread's commit.
Soiled == [x \in Threads |-> IF Idle(x) THEN None ELSE [jobs[x] EXCEPT !.clean = FALSE]]

\* Another thread's write, by a job on that part of the index.
SoiledIn(part) ==
    [x \in Threads |-> IF Idle(x) THEN None
                       ELSE IF jobs[x].kind = "preset" \/ jobs[x].part = part
                              THEN [jobs[x] EXCEPT !.clean = FALSE]
                              ELSE jobs[x]]

\* Mutation: a job with nothing left to write stays where it is.
AdvanceNever(j) == j
\* Where a job goes when it may have written its last document.
Advance(j) ==
    IF DOMAIN j.plan # {} THEN j
    ELSE IF j.kind = "all" /\ j.step = "write" THEN [j EXCEPT !.step = "search"]
    ELSE IF IsRequest(j) THEN [j EXCEPT !.step = "commit"]
    ELSE IF j.kind = "preset" /\ j.part = "watch" THEN [j EXCEPT !.part = "task", !.step = "read"]
    ELSE [j EXCEPT !.step = "done"]

\* sync_all_task_queries and sync_all_watch_queries: one SELECT with joins.
ReadAll(s) ==
    LET j      == jobs[s]
        active == {d \in Docs : d[1] = j.part /\ Wanted(d) # None}
    IN  /\ At(s, "read") /\ j.kind = "all"
        /\ SetJob(s, Advance([j EXCEPT !.step = "write", !.docs = active,
                                       !.plan = [d \in active |-> Wanted(d)]]))
        /\ UNCHANGED <<tables, index, faults>>

\* sync_preset_*_queries: the preset first ...
ReadPreset(s) ==
    /\ At(s, "read") /\ jobs[s].kind = "preset"
    /\ SetJob(s, [jobs[s] EXCEPT !.step = "ids", !.snap = presets[jobs[s].preset]])
    /\ UNCHANGED <<tables, index, faults>>

\* ... then the rows bound to it, in a statement that may see more ...
ReadIds(s) ==
    LET j     == jobs[s]
        on    == Live(j.snap) /\ j.snap.on
        bound == BoundTo(j.preset, j.part)
        query == IF on /\ j.part = "watch" THEN j.snap.filters ELSE None
    IN  /\ At(s, "ids")
        /\ SetJob(s, Advance([j EXCEPT !.step = IF on /\ j.part = "task" THEN "active" ELSE "write",
                                       !.plan = [d \in bound |-> query]]))
        /\ UNCHANGED <<tables, index, faults>>

\* Mutation: the query is written for switched-off tasks and devices too.
QueryForAll(j, d) == j.snap.filters
QueryFor(j, d) == IF Active(d) /\ RowOf(d).preset = j.preset THEN j.snap.filters ELSE None

\* ... and, of tasks, those that are on and on an enabled device.
ReadActive(s) ==
    LET j == jobs[s]
    IN  /\ At(s, "active")
        /\ SetJob(s, [j EXCEPT !.step = "write", !.plan = [d \in DOMAIN j.plan |-> QueryFor(j, d)]])
        /\ UNCHANGED <<tables, index, faults>>

\* One put or delete, visible when it returns (refresh=wait_for).  A put that
\* is refused raises, and the rest of the job with it.
Write(s, d) ==
    LET j == jobs[s]
    IN  /\ At(s, "write") \/ At(s, "purge")
        /\ d \in DOMAIN j.plan
        /\ IF j.plan[d] \in Refused
             THEN SetJob(s, None) /\ UNCHANGED index
             ELSE /\ index' = [index EXCEPT ![d] = j.plan[d]]
                  /\ jobs' = [SoiledIn(j.part) EXCEPT ![s] =
                       Advance([j EXCEPT !.plan = [x \in DOMAIN j.plan \ {d} |-> j.plan[x]]])]
        /\ UNCHANGED <<tables, faults>>

\* Mutation: a rebuild leaves what it did not write.
StaleNever(part, kept) == {}
\* The documents of this part (by their id) that the rebuild has not written.
Stale(part, kept) == {d \in Docs : d[1] = part /\ index[d] # None} \ kept

Search(s) ==
    LET j     == jobs[s]
        stale == Stale(j.part, j.docs)
    IN  /\ At(s, "search")
        /\ SetJob(s, Advance([j EXCEPT !.step = "purge", !.plan = [d \in stale |-> None]]))
        /\ UNCHANGED <<tables, index, faults>>

Answer(s) ==
    /\ At(s, "done")
    /\ SetJob(s, None)
    /\ UNCHANGED <<tables, index, faults>>

-----------------------------------------------------------------------------
(* Tasks and devices: commit, then ask for a rebuild.                       *)

SaveTask(s, t, row) ==
    /\ Idle(s)
    /\ tasks' = [tasks EXCEPT ![t] = row]
    /\ jobs' = [Soiled EXCEPT ![s] = Rebuild("task")]
    /\ UNCHANGED <<devices, presets, watches, index, faults>>

\* uq_response_tasks_device_preset
Unbound(t, row) ==
    \A u \in Tasks \ {t} :
        Live(tasks[u]) => ~(tasks[u].device = row.device /\ tasks[u].preset = row.preset)

CreateTask(s, t, row) == tasks[t] = Unused /\ Unbound(t, row) /\ SaveTask(s, t, row)
UpdateTask(s, t, row) == Live(tasks[t]) /\ Unbound(t, row) /\ SaveTask(s, t, row)
DeleteTask(s, t) == Live(tasks[t]) /\ SaveTask(s, t, Gone)

UpdateDevice(s, d, on) ==
    /\ Idle(s)
    /\ devices' = [devices EXCEPT ![d] = on]
    /\ jobs' = [Soiled EXCEPT ![s] = Rebuild("task")]
    /\ UNCHANGED <<tasks, presets, watches, index, faults>>

-----------------------------------------------------------------------------
(* Presets: commit, then rewrite what is bound to the preset.  The checks   *)
(* for equal names, filters and watches read before they write and do not   *)
(* exclude equal rows; they are left out.                                   *)

CreatePreset(p, f) ==
    /\ presets[p] = Unused
    /\ presets' = [presets EXCEPT ![p] = [filters |-> f, on |-> TRUE]]
    /\ jobs' = Soiled
    /\ UNCHANGED <<tasks, devices, watches, index, faults>>

UpdatePreset(s, p, row) ==
    /\ Idle(s) /\ Live(presets[p])
    /\ presets' = [presets EXCEPT ![p] = row]
    /\ jobs' = [Soiled EXCEPT ![s] = PresetSync(p)]
    /\ UNCHANGED <<tasks, devices, watches, index, faults>>

\* delete_preset notes the watches it is about to delete ...
DeletePreset(s, p) ==
    /\ Idle(s) /\ Live(presets[p])
    /\ SetJob(s, [PresetSync(p) EXCEPT !.step = "commit",
                    !.docs = {d \in Docs : /\ d[1] = "watch" /\ Live(RowOf(d))
                                           /\ RowOf(d).preset = p}])
    /\ UNCHANGED <<tables, index, faults>>

\* ... and commits; a watch created in between goes too, its query does not.  If it noted
\* none, it deletes none.
CommitPreset(s) ==
    LET j == jobs[s]
    IN  /\ At(s, "commit") /\ j.kind = "preset"
        /\ presets' = [presets EXCEPT ![j.preset] = Gone]
        /\ watches' = [w \in Watches |-> IF j.docs # {} /\ Live(watches[w]) /\ watches[w].preset = j.preset
                                         THEN Gone ELSE watches[w]]
        /\ jobs' = [Soiled EXCEPT ![s] = Advance([j EXCEPT !.step = "write",
                                                           !.plan = [d \in j.docs |-> None]])]
        /\ UNCHANGED <<tasks, devices, index, faults>>

-----------------------------------------------------------------------------
(* Mail watches: write the query, then commit.                             *)

Request(kind, w, row, plan) ==
    Advance([NewJob(kind, "watch", "write") EXCEPT !.row = row, !.plan = plan,
                                                   !.docs = {<<"watch", w>>}])

\* The id is taken by the flush, the row not visible before the commit.
CreateWatch(s, w, row) ==
    /\ Idle(s) /\ watches[w] = Unused /\ Usable(row.preset)
    /\ watches' = [watches EXCEPT ![w] = Gone]
    /\ SetJob(s, Request("create", w, row,
                         [d \in IF row.realtime THEN {<<"watch", w>>} ELSE {} |->
                            presets[row.preset].filters]))
    /\ UNCHANGED <<tasks, devices, presets, index, faults>>

UpdateWatch(s, w, row) ==
    /\ Idle(s) /\ Live(watches[w]) /\ Usable(row.preset)
    /\ SetJob(s, Request("update", w, row,
                         [d \in {<<"watch", w>>} |->
                            IF row.realtime THEN presets[row.preset].filters ELSE None]))
    /\ UNCHANGED <<tables, index, faults>>

DeleteWatch(s, w) ==
    /\ Idle(s) /\ Live(watches[w])
    /\ SetJob(s, Request("delete", w, Gone, [d \in {<<"watch", w>>} |-> None]))
    /\ UNCHANGED <<tables, index, faults>>

\* An update of a row that is gone fails; a delete does not mind.
CommitWatch(s, w) ==
    LET j == jobs[s]
    IN  /\ At(s, "commit") /\ IsRequest(j) /\ <<"watch", w>> \in j.docs
        /\ IF j.kind = "update" /\ ~Live(watches[w])
             THEN SetJob(s, None) /\ UNCHANGED watches
             ELSE /\ watches' = [watches EXCEPT ![w] = j.row]
                  /\ jobs' = [Soiled EXCEPT ![s] = [j EXCEPT !.step = "done"]]
        /\ UNCHANGED <<tasks, devices, presets, index, faults>>

-----------------------------------------------------------------------------
(* The 60-second rebuild, the responder's start, and what can fail.         *)

Periodic(s) ==
    /\ Idle(s)
    /\ SetJob(s, Rebuild("task"))
    /\ UNCHANGED <<tables, index, faults>>

\* The responder has given up on its call; the analyzer still serves it.
Orphan(j) == [j EXCEPT !.kind = "orphan", !.clean = FALSE]

\* Its own requests die with it; a call it has made is still served.
Restart(s) ==
    /\ Idle(s)
    /\ jobs' = [x \in Threads |->
                  IF x = s THEN Rebuild("watch")
                  ELSE IF Idle(x) \/ ~IsRequest(jobs[x]) THEN jobs[x]
                  ELSE IF jobs[x].step = "write" THEN Orphan(jobs[x]) ELSE None]
    /\ UNCHANGED <<tables, index, faults>>

TimeOut(s, w) ==
    /\ At(s, "write") /\ IsRequest(jobs[s]) /\ <<"watch", w>> \in jobs[s].docs
    /\ faults < MaxFaults
    /\ faults' = faults + 1
    /\ SetJob(s, Orphan(jobs[s]))
    /\ UNCHANGED <<tables, index>>

\* Elasticsearch, the database or the call fails; the rest is not done.
Fail(s) ==
    /\ ~Idle(s) /\ ~At(s, "done")
    /\ faults < MaxFaults
    /\ faults' = faults + 1
    /\ SetJob(s, None)
    /\ UNCHANGED <<tables, index>>

-----------------------------------------------------------------------------
JobStep(s) ==
    \/ ReadAll(s) \/ ReadPreset(s) \/ ReadIds(s) \/ ReadActive(s) \/ Search(s)
    \/ \E d \in Docs : Write(s, d)
    \/ CommitPreset(s) \/ \E w \in Watches : CommitWatch(s, w)
    \/ Answer(s)

EditNext(s) ==
    \/ \E t \in Tasks :
          \/ \E row \in TaskRow : CreateTask(s, t, row) \/ UpdateTask(s, t, row)
          \/ DeleteTask(s, t)
    \/ \E d \in Devices, on \in BOOLEAN : UpdateDevice(s, d, on)
    \/ \E p \in Presets :
          \/ \E row \in PresetRow : UpdatePreset(s, p, row)
          \/ DeletePreset(s, p)
    \/ \E w \in Watches :
          \/ \E row \in WatchRow : CreateWatch(s, w, row) \/ UpdateWatch(s, w, row)
          \/ DeleteWatch(s, w)

SyncNext ==
    \/ \E p \in Presets, f \in Filters : CreatePreset(p, f)
    \/ \E s \in Threads : \/ EditNext(s) \/ JobStep(s)
                          \/ Periodic(s) \/ Restart(s)
                          \/ \E w \in Watches : TimeOut(s, w)
                          \/ Fail(s)

SyncSpec == SyncInit /\ [][SyncNext]_syncVars

\* The scheduler keeps asking, and finds a thread: the server has forty.
Fairness ==
    /\ \A s \in Threads : WF_syncVars(JobStep(s))
    /\ SF_syncVars(\E s \in Threads : Periodic(s))

FairSyncSpec == SyncSpec /\ Fairness

-----------------------------------------------------------------------------
(* Properties                                                              *)

Job == [kind: {"all", "preset", "create", "update", "delete", "orphan"},
        part: Parts,
        step: {"commit", "read", "ids", "active", "write", "search", "purge", "done"},
        preset: Presets \cup {None},
        snap: PresetRow \cup {None, Unused, Gone},
        row: WatchRow \cup {None, Gone},
        plan: UNION {[D -> Filters \cup {None}] : D \in SUBSET Docs},
        docs: SUBSET Docs,
        clean: BOOLEAN]

\* Types; and a job that is to write has something to write, on its part.
SyncTypeOK ==
    /\ tasks \in [Tasks -> TaskRow \cup {Unused, Gone}]
    /\ devices \in [Devices -> BOOLEAN]
    /\ presets \in [Presets -> PresetRow \cup {Unused, Gone}]
    /\ watches \in [Watches -> WatchRow \cup {Unused, Gone}]
    /\ index \in [Docs -> Filters \cup {None}]
    /\ jobs \in [Threads -> Job \cup {None}]
    /\ \A s \in Threads : ~Idle(s) =>
          /\ jobs[s].step \in {"active", "write", "purge"} <=> DOMAIN jobs[s].plan # {}
          /\ \A d \in DOMAIN jobs[s].plan : d[1] = jobs[s].part
    /\ faults \in 0..MaxFaults

\* The documents a job answers for.
Scope(j) ==
    IF j.kind = "all" THEN {d \in Docs : d[1] = j.part}
    ELSE IF j.kind = "preset"
      THEN j.docs \cup BoundTo(j.preset, "task") \cup BoundTo(j.preset, "watch")
    ELSE j.docs

\* A job that came to its end, with no other thread committing or writing to
\* its part meanwhile, leaves each of its documents as the tables want it:
\* queries of switched-off, moved and deleted rows are gone, the others carry
\* their preset's filters, and rebuilding one part leaves the other alone.
CleanJobIsRight ==
    \A s \in Threads :
        At(s, "done") /\ jobs[s].clean => \A d \in Scope(jobs[s]) : index[d] = Wanted(d)

\* However requests overlap and fail, once the tables are quiet the periodic
\* rebuild brings every task's query to what they want and it stays so; of a
\* query Elasticsearch refuses nothing is promised, of the others everything.
TaskQueriesConverge ==
    <>[][FALSE]_tables =>
        \A t \in Tasks : <>[](\/ index[<<"task", t>>] = Wanted(<<"task", t>>)
                              \/ Wanted(<<"task", t>>) \in Refused)
=============================================================================
