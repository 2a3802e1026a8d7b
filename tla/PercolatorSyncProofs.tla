------------------------ MODULE PercolatorSyncProofs ------------------------
(* Theorems about PercolatorSync, for every value of its constants.        *)
EXTENDS PercolatorSync, TLAPS

-----------------------------------------------------------------------------
(* The invariant                                                           *)

\* What the index will have of a document when the job's plan is carried out.
Planned(j, d) == IF d \in DOMAIN j.plan THEN j.plan[d] ELSE index[d]

\* The query a watch's row asks for.
Asked(row) == IF Live(row) /\ row.realtime /\ Usable(row.preset) THEN presets[row.preset].filters ELSE None

WatchScope(j) == j.docs \cup BoundTo(j.preset, "watch")

\* Of any job, and of its plan, whatever others have done meanwhile.
JobForm(j) ==
    /\ j = [kind |-> j.kind, part |-> j.part, step |-> j.step, preset |-> j.preset, snap |-> j.snap,
            row |-> j.row, plan |-> j.plan, docs |-> j.docs, clean |-> j.clean]
    /\ j.kind \in {"all", "preset", "create", "update", "delete", "orphan"} /\ j.part \in Parts
    /\ \A d \in DOMAIN j.plan : d \in Docs /\ d[1] = j.part
    /\ \A w \in Watches : <<"watch", w>> \in DOMAIN j.plan /\ j.plan[<<"watch", w>>] # None => watches[w] # Unused
    /\ j.step \notin {"active", "write", "purge"} => DOMAIN j.plan = {}
    /\ j.kind = "orphan" => ~j.clean
    /\ IsRequest(j) => j.part = "watch" /\ j.row # Unused /\ \E w \in Watches : j.docs = {<<"watch", w>>}
    /\ j.kind = "preset" => j.docs \subseteq {"watch"} \X Watches /\ (j.step = "commit" => j.part = "watch")

\* Of a clean rebuild.
AllRight(j) ==
    /\ j.step \in {"read", "write", "search", "purge", "done"}
    /\ j.step \in {"write", "search"} =>
          /\ j.docs = {d \in Docs : d[1] = j.part /\ Wanted(d) # None}
          /\ \A d \in j.docs : Planned(j, d) = Wanted(d)
    /\ j.step \in {"purge", "done"} => \A d \in Docs : d[1] = j.part => Planned(j, d) = Wanted(d)

\* All of a preset's watches; and, of a clean sync of a preset, first the watches, then the tasks.
WatchesOf(p) == {d \in Docs : d[1] = "watch" /\ Live(RowOf(d)) /\ RowOf(d).preset = p}
PresetRight(j) ==
    /\ j.step \in {"commit", "read", "ids", "active", "write", "done"}
    /\ j.step = "commit" => j.docs = WatchesOf(j.preset)
    /\ j.part = "watch" /\ j.step \in {"read", "ids"} => j.docs = {}
    /\ j.step \in {"active", "done"} => j.part = "task"
    /\ j.step \in {"ids", "active"} => j.snap = presets[j.preset]
    /\ j.step = "active" => Usable(j.preset) /\ DOMAIN j.plan = BoundTo(j.preset, "task")
    /\ j.part = "watch" /\ j.step = "write" => \A d \in WatchScope(j) : Planned(j, d) = Wanted(d)
    /\ j.part = "task" => \A d \in WatchScope(j) : index[d] = Wanted(d)
    /\ j.part = "task" /\ j.step \in {"write", "done"} =>
          \A d \in BoundTo(j.preset, "task") : Planned(j, d) = Wanted(d)

\* Of a clean request for a watch: the query comes before the row.
RequestRight(j) ==
    /\ j.step \in {"write", "commit", "done"}
    /\ j.step \in {"write", "commit"} => \A d \in j.docs : Planned(j, d) = Asked(j.row)
    /\ j.step = "done" => \A d \in j.docs : index[d] = Wanted(d)

JobRight(j) ==
    /\ j.kind = "all" => AllRight(j)
    /\ j.kind = "preset" => PresetRight(j)
    /\ IsRequest(j) => RequestRight(j)

Fine(j) == JobForm(j) /\ (j.clean => JobRight(j))

SyncInv ==
    /\ DOMAIN watches = Watches /\ DOMAIN index = Docs /\ DOMAIN jobs = Threads
    /\ \A w \in Watches : watches[w] = Unused => index[<<"watch", w>>] = None
    /\ \A s \in Threads : \A j : j = jobs[s] /\ j # None => Fine(j)

\* A job that is done has carried out its plan.
LEMMA InvImpliesRight == SyncInv => CleanJobIsRight
  <1> SUFFICES ASSUME SyncInv, NEW s \in Threads, At(s, "done"), jobs[s].clean, NEW d \in Scope(jobs[s])
               PROVE  index[d] = Wanted(d)
    BY DEF CleanJobIsRight
  <1>1. PICK j : j = jobs[s]
    OBVIOUS
  <1>2. j # None /\ j.step = "done" /\ j.clean /\ JobForm(j) /\ JobRight(j) /\ d \in Scope(j)
    BY <1>1 DEF SyncInv, At, Fine
  <1>3. DOMAIN j.plan = {} /\ Planned(j, d) = index[d]
    BY <1>2 DEF JobForm, Planned
  <1>4. CASE j.kind = "all"
    BY <1>2, <1>3, <1>4 DEF JobRight, AllRight, Scope
  <1>5. CASE j.kind = "preset"
    <2>1. PresetRight(j) /\ j.part = "task"
      BY <1>2, <1>5 DEF JobRight, PresetRight
    <2>2. d \in WatchScope(j) \/ d \in BoundTo(j.preset, "task")
      BY <1>2, <1>5 DEF Scope, WatchScope
    <2>3. QED
      BY <1>2, <1>3, <2>1, <2>2 DEF PresetRight
  <1>6. CASE IsRequest(j)
    BY <1>2, <1>6 DEF JobRight, RequestRight, Scope, IsRequest
  <1>7. QED
    BY <1>2, <1>4, <1>5, <1>6 DEF JobForm, IsRequest

LEMMA InitInv == SyncInit => SyncInv
  BY DEF SyncInit, SyncInv, Docs

-----------------------------------------------------------------------------
(* Steps of other threads                                                  *)

\* A job sees the tables and its documents as before.
SteadyRows ==
    /\ presets' = presets
    /\ \A d \in Docs : /\ Wanted(d)' = Wanted(d)
                       /\ Live(RowOf(d)) \/ Live(RowOf(d))' => Live(RowOf(d)) /\ Live(RowOf(d))' /\ RowOf(d)' = RowOf(d)
    /\ \A p : \A part \in Parts : BoundTo(p, part)' = BoundTo(p, part)
    /\ \A w \in Watches : watches[w] # Unused => watches'[w] # Unused

LEMMA SteadyTables == UNCHANGED tables => SteadyRows
  BY DEF tables, SteadyRows, Wanted, RowOf, BoundTo, Usable, Active

LEMMA FormStays ==
    ASSUME NEW j, JobForm(j), \A w \in Watches : watches[w] # Unused => watches'[w] # Unused
    PROVE  JobForm(j)'
  BY DEF JobForm, IsRequest

\* Another's write is seen by a sync of a preset and by jobs of its part only.
LEMMA RightStays ==
    ASSUME NEW j, JobForm(j), JobRight(j), SteadyRows,
           \A d \in Docs : index'[d] = index[d] \/ (j.kind # "preset" /\ d[1] # j.part)
    PROVE  JobRight(j)'
  <1>1. \A d \in Docs : index'[d] = index[d] => Planned(j, d)' = Planned(j, d)
    BY DEF Planned
  <1>2. CASE j.kind = "all"
    <2>1. \A d \in Docs : d[1] = j.part => Planned(j, d)' = Planned(j, d) /\ Wanted(d)' = Wanted(d)
      BY <1>1, <1>2 DEF SteadyRows
    <2>2. AllRight(j)
      BY <1>2 DEF JobRight
    <2>3. {d \in Docs : d[1] = j.part /\ Wanted(d)' # None} = {d \in Docs : d[1] = j.part /\ Wanted(d) # None}
      BY <2>1
    <2>4. AllRight(j)'
      BY <2>1, <2>2, <2>3 DEF AllRight
    <2>5. QED
      BY <1>2, <2>4 DEF JobRight, IsRequest
  <1>3. CASE j.kind = "preset"
    <2>1. \A d \in Docs : Planned(j, d)' = Planned(j, d) /\ Wanted(d)' = Wanted(d) /\ index'[d] = index[d]
      BY <1>1, <1>3 DEF SteadyRows
    <2>2. \A part \in Parts : BoundTo(j.preset, part)' = BoundTo(j.preset, part) /\ BoundTo(j.preset, part) \subseteq Docs
      BY DEF SteadyRows, BoundTo
    <2>3. BoundTo(j.preset, "watch")' = BoundTo(j.preset, "watch") /\ BoundTo(j.preset, "task")' = BoundTo(j.preset, "task")
          /\ BoundTo(j.preset, "watch") \subseteq Docs /\ BoundTo(j.preset, "task") \subseteq Docs
      BY <2>2 DEF Parts
    <2>4. PresetRight(j)
      BY <1>3 DEF JobRight
    <2>5. WatchScope(j)' = WatchScope(j) /\ WatchScope(j) \subseteq Docs /\ j.docs \subseteq Docs
      BY <1>3, <2>3 DEF WatchScope, JobForm, Docs
    <2>6. WatchesOf(j.preset)' = WatchesOf(j.preset)
      BY DEF WatchesOf, SteadyRows
    <2>7. presets' = presets /\ Usable(j.preset)' = Usable(j.preset)
      BY DEF SteadyRows, Usable
    <2>8. PresetRight(j)'
      BY <2>1, <2>3, <2>4, <2>5, <2>6, <2>7 DEF PresetRight
    <2>9. QED
      BY <1>3, <2>8 DEF JobRight, IsRequest
  <1>4. CASE IsRequest(j)
    <2>1. j.docs \subseteq Docs /\ (\A d \in j.docs : d[1] = j.part) /\ j.kind # "preset"
      BY <1>4 DEF JobForm, IsRequest, Docs
    <2>2. \A d \in j.docs : Planned(j, d)' = Planned(j, d) /\ Wanted(d)' = Wanted(d) /\ index'[d] = index[d]
      BY <1>1, <2>1 DEF SteadyRows
    <2>3. Asked(j.row)' = Asked(j.row)
      BY DEF Asked, Usable, SteadyRows
    <2>4. RequestRight(j)
      BY <1>4 DEF JobRight
    <2>5. RequestRight(j)'
      BY <2>2, <2>3, <2>4 DEF RequestRight
    <2>6. QED
      BY <1>4, <2>5 DEF JobRight, IsRequest
  <1>5. QED
    BY <1>2, <1>3, <1>4 DEF JobRight, IsRequest

\* A job that is no longer clean.
LEMMA SoiledIsFine ==
    ASSUME NEW j, JobForm(j)
    PROVE  Fine([j EXCEPT !.clean = FALSE]) /\ JobForm([j EXCEPT !.clean = FALSE])
  <1>1. PICK k : k = [j EXCEPT !.clean = FALSE]
    OBVIOUS
  <1>2. /\ k.kind = j.kind /\ k.part = j.part /\ k.step = j.step /\ k.preset = j.preset /\ k.snap = j.snap
        /\ k.row = j.row /\ k.plan = j.plan /\ k.docs = j.docs /\ k.clean = FALSE
        /\ k = [kind |-> k.kind, part |-> k.part, step |-> k.step, preset |-> k.preset, snap |-> k.snap,
                row |-> k.row, plan |-> k.plan, docs |-> k.docs, clean |-> k.clean]
    BY <1>1 DEF JobForm
  <1>3. JobForm(k)
    BY <1>2 DEF JobForm, IsRequest
  <1>4. QED
    BY <1>1, <1>2, <1>3 DEF Fine

LEMMA FineStays ==
    ASSUME NEW j, Fine(j), SteadyRows,
           \A d \in Docs : index'[d] = index[d] \/ (j.kind # "preset" /\ d[1] # j.part)
    PROVE  Fine(j)'
  BY FormStays, RightStays DEF Fine, SteadyRows

\* Each job is fine, is soiled or sees nothing of the step.
LEMMA JobsStep ==
    ASSUME SyncInv,
           DOMAIN watches' = Watches, DOMAIN index' = Docs, DOMAIN jobs' = Threads,
           \A w \in Watches : watches[w] # Unused => watches'[w] # Unused,
           \A w \in Watches : watches'[w] = Unused => index'[<<"watch", w>>] = None,
           \A x \in Threads :
              \/ \A n : n = jobs'[x] /\ n # None => Fine(n)'
              \/ jobs[x] # None /\ jobs'[x] = [jobs[x] EXCEPT !.clean = FALSE]
              \/ /\ jobs[x] # None /\ jobs'[x] = jobs[x] /\ SteadyRows
                 /\ \A d \in Docs : index'[d] = index[d] \/ (jobs[x].kind # "preset" /\ d[1] # jobs[x].part)
    PROVE  SyncInv'
  <1>1. ASSUME NEW x \in Threads, NEW k, k = jobs'[x], k # None PROVE Fine(k)'
    <2>1. ASSUME jobs[x] # None, k = [jobs[x] EXCEPT !.clean = FALSE] PROVE Fine(k)'
      <3>1. PICK j : j = jobs[x]
        OBVIOUS
      <3>2. JobForm(j)
        BY <2>1, <3>1 DEF SyncInv, Fine
      <3>3. Fine(k) /\ JobForm(k) /\ k.clean = FALSE
        BY <2>1, <3>1, <3>2, SoiledIsFine DEF JobForm
      <3>4. JobForm(k)'
        BY <3>3, FormStays
      <3>5. QED
        BY <3>3, <3>4 DEF Fine
    <2>2. ASSUME jobs[x] # None, k = jobs[x], SteadyRows,
                 \A d \in Docs : index'[d] = index[d] \/ (jobs[x].kind # "preset" /\ d[1] # jobs[x].part)
          PROVE  Fine(k)'
      <3>1. Fine(k)
        BY <2>2 DEF SyncInv
      <3>2. QED
        BY <2>2, <3>1, FineStays
    <2>3. QED
      BY <1>1, <2>1, <2>2
  <1>2. QED
    BY <1>1 DEF SyncInv

\* One thread moves; the jobs of the others end, are soiled or see nothing of it.
LEMMA ThreadStep ==
    ASSUME SyncInv, NEW s \in Threads, NEW n, jobs'[s] = n, n # None => Fine(n)',
           DOMAIN watches' = Watches, DOMAIN index' = Docs, DOMAIN jobs' = Threads,
           \A w \in Watches : watches[w] # Unused => watches'[w] # Unused,
           \A w \in Watches : watches'[w] = Unused => index'[<<"watch", w>>] = None,
           \A x \in Threads \ {s} :
              \/ jobs'[x] = None
              \/ jobs[x] # None /\ jobs'[x] = [jobs[x] EXCEPT !.clean = FALSE]
              \/ /\ jobs[x] # None /\ jobs'[x] = jobs[x] /\ SteadyRows
                 /\ \A d \in Docs : index'[d] = index[d] \/ (jobs[x].kind # "preset" /\ d[1] # jobs[x].part)
    PROVE  SyncInv'
  BY JobsStep

\* A job goes on or begins without touching tables or index.
LEMMA QuietStep ==
    ASSUME SyncInv, NEW s \in Threads, NEW n, SetJob(s, n), UNCHANGED <<tables, index>>, n # None => Fine(n)
    PROVE  SyncInv'
  <1>1. SteadyRows /\ UNCHANGED <<watches, index>>
    BY SteadyTables DEF tables
  <1>2. jobs' = [jobs EXCEPT ![s] = n] /\ DOMAIN jobs = Threads
    BY DEF SetJob, SyncInv
  <1>3. n # None => Fine(n)'
    BY <1>1, FineStays
  <1>4. jobs'[s] = n /\ DOMAIN jobs' = Threads /\ \A x \in Threads \ {s} : jobs'[x] = jobs[x]
    BY <1>2
  <1>5. QED
    BY <1>1, <1>3, <1>4, ThreadStep DEF SyncInv

\* A commit soils every other job.
LEMMA CommitStep ==
    ASSUME SyncInv, NEW s \in Threads, NEW n, jobs' = [Soiled EXCEPT ![s] = n], n # None => Fine(n)',
           index' = index, DOMAIN watches' = Watches,
           \A w \in Watches : watches[w] # Unused => watches'[w] # Unused
    PROVE  SyncInv'
  <1>1. jobs'[s] = n /\ DOMAIN jobs' = Threads
    BY DEF Soiled
  <1>2. \A x \in Threads \ {s} : jobs'[x] = None \/ (jobs[x] # None /\ jobs'[x] = [jobs[x] EXCEPT !.clean = FALSE])
    BY DEF Soiled, Idle
  <1>3. QED
    BY <1>1, <1>2, ThreadStep DEF SyncInv

-----------------------------------------------------------------------------
(* A job's own steps                                                       *)

NewFields(n, kind, part, step, preset, snap, row, plan, docs, clean) ==
    n = [kind |-> kind, part |-> part, step |-> step, preset |-> preset, snap |-> snap,
         row |-> row, plan |-> plan, docs |-> docs, clean |-> clean]

LEMMA EmptyPlan == DOMAIN << >> = {}
  OBVIOUS

\* In whatever state it begins.
LEMMA RebuildIsFine ==
    ASSUME NEW part \in Parts
    PROVE  Fine(Rebuild(part)) /\ Fine(Rebuild(part))'
  <1>1. PICK n : n = Rebuild(part)
    OBVIOUS
  <1>2. NewFields(n, "all", part, "read", None, None, None, << >>, {}, TRUE)
    BY <1>1 DEF Rebuild, NewJob, NewFields
  <1>3. JobForm(n) /\ JobForm(n)'
    BY <1>2, EmptyPlan DEF NewFields, JobForm, IsRequest
  <1>4. JobRight(n) /\ JobRight(n)'
    BY <1>2 DEF NewFields, JobRight, AllRight, IsRequest
  <1>5. QED
    BY <1>1, <1>3, <1>4 DEF Fine

LEMMA PresetSyncIsFine ==
    ASSUME NEW p
    PROVE  Fine(PresetSync(p)) /\ Fine(PresetSync(p))'
  <1>1. PICK n : n = PresetSync(p)
    OBVIOUS
  <1>2. NewFields(n, "preset", "watch", "read", p, None, None, << >>, {}, TRUE)
    BY <1>1 DEF PresetSync, NewJob, NewFields
  <1>3. JobForm(n) /\ JobForm(n)'
    BY <1>2, EmptyPlan DEF NewFields, JobForm, IsRequest, Parts
  <1>4. JobRight(n) /\ JobRight(n)'
    BY <1>2 DEF NewFields, JobRight, PresetRight, IsRequest
  <1>5. QED
    BY <1>1, <1>3, <1>4 DEF Fine

LEMMA ReadAllInv ==
    ASSUME SyncInv, NEW s \in Threads, ReadAll(s)
    PROVE  SyncInv'
  <1>1. PICK j : j = jobs[s]
    OBVIOUS
  <1>2. j # None /\ Fine(j) /\ JobForm(j) /\ j.kind = "all" /\ j.part \in Parts
    BY <1>1 DEF ReadAll, At, SyncInv, Fine, JobForm
  <1>3. PICK active : active = {d \in Docs : d[1] = j.part /\ Wanted(d) # None}
    OBVIOUS
  <1>4. PICK m : m = [j EXCEPT !.step = "write", !.docs = active, !.plan = [d \in active |-> Wanted(d)]]
    OBVIOUS
  <1>5. NewFields(m, "all", j.part, "write", j.preset, j.snap, j.row, [d \in active |-> Wanted(d)], active, j.clean)
    BY <1>2, <1>4 DEF JobForm, NewFields
  <1>6. SetJob(s, Advance(m)) /\ UNCHANGED <<tables, index>>
    BY <1>1, <1>3, <1>4 DEF ReadAll
  <1>7. PICK n : n = Advance(m)
    OBVIOUS
  <1>8. PICK step \in {"write", "search"} :
            /\ NewFields(n, "all", j.part, step, j.preset, j.snap, j.row, [d \in active |-> Wanted(d)], active, j.clean)
            /\ step = "search" => active = {}
    BY <1>5, <1>7 DEF Advance, NewFields
  <1>9. JobForm(n)
    <2>1. \A w \in Watches : <<"watch", w>> \in active => watches[w] # Unused
      BY <1>3 DEF Wanted, Active, Live, RowOf
    <2>2. QED
      BY <1>2, <1>3, <1>8, <2>1 DEF NewFields, JobForm, IsRequest
  <1>10. JobRight(n)
    BY <1>3, <1>8 DEF NewFields, JobRight, AllRight, Planned, IsRequest
  <1>11. QED
    BY <1>6, <1>7, <1>9, <1>10, QuietStep DEF Fine

LEMMA SearchInv ==
    ASSUME SyncInv, NEW s \in Threads, Search(s)
    PROVE  SyncInv'
  <1>1. PICK j : j = jobs[s]
    OBVIOUS
  <1>2. j # None /\ Fine(j) /\ JobForm(j) /\ j.step = "search"
    BY <1>1 DEF Search, At, SyncInv, Fine
  <1>3. PICK stale : stale = Stale(j.part, j.docs)
    OBVIOUS
  <1>4. PICK m : m = [j EXCEPT !.step = "purge", !.plan = [d \in stale |-> None]]
    OBVIOUS
  <1>5. NewFields(m, j.kind, j.part, "purge", j.preset, j.snap, j.row, [d \in stale |-> None], j.docs, j.clean)
    BY <1>2, <1>4 DEF JobForm, NewFields
  <1>6. SetJob(s, Advance(m)) /\ UNCHANGED <<tables, index>>
    BY <1>1, <1>3, <1>4 DEF Search
  <1>7. PICK n : n = Advance(m)
    OBVIOUS
  <1>8. stale \subseteq Docs /\ \A d \in stale : d[1] = j.part
    BY <1>3 DEF Stale
  <1>9. CASE j.clean
    <2>1. j.kind = "all" /\ AllRight(j)
      BY <1>2, <1>9 DEF Fine, JobRight, JobForm, PresetRight, RequestRight, IsRequest
    <2>2. PICK step \in {"purge", "done"} :
            /\ NewFields(n, "all", j.part, step, j.preset, j.snap, j.row, [d \in stale |-> None], j.docs, j.clean)
            /\ step = "done" => stale = {}
      BY <1>5, <1>7, <2>1 DEF Advance, NewFields, IsRequest
    <2>3. JobForm(n)
      BY <1>2, <1>8, <2>2 DEF NewFields, JobForm, IsRequest
    <2>4. \A d \in Docs : d[1] = j.part => (IF d \in stale THEN None ELSE index[d]) = Wanted(d)
      <3>1. DOMAIN j.plan = {}
        BY <1>2 DEF JobForm
      <3>2. j.docs = {d \in Docs : d[1] = j.part /\ Wanted(d) # None} /\ \A d \in j.docs : index[d] = Wanted(d)
        BY <1>2, <2>1, <3>1 DEF AllRight, Planned
      <3>3. QED
        BY <1>3, <3>2 DEF Stale
    <2>5. JobRight(n)
      BY <2>2, <2>4 DEF NewFields, JobRight, AllRight, Planned, IsRequest
    <2>6. QED
      BY <1>6, <1>7, <2>3, <2>5, QuietStep DEF Fine
  <1>10. CASE ~j.clean
    <2>1. PICK step \in {"purge", "commit", "read", "done"}, part \in Parts :
            /\ NewFields(n, j.kind, part, step, j.preset, j.snap, j.row, [d \in stale |-> None], j.docs, j.clean)
            /\ step # "purge" => stale = {}
            /\ part = j.part \/ (stale = {} /\ ~IsRequest(j))
            /\ step = "commit" => IsRequest(j)
      BY <1>2, <1>5, <1>7 DEF Advance, NewFields, IsRequest, JobForm, Parts
    <2>2. JobForm(n)
      BY <1>2, <1>8, <2>1 DEF NewFields, JobForm, IsRequest
    <2>3. QED
      BY <1>6, <1>7, <1>10, <2>1, <2>2, QuietStep DEF Fine, NewFields
  <1>11. QED
    BY <1>2, <1>9, <1>10 DEF JobForm

\* A job that may have written its last document.
LEMMA AdvanceForm ==
    ASSUME NEW m, JobForm(m)
    PROVE  JobForm(Advance(m)) /\ Advance(m).clean = m.clean
  <1>1. PICK n : n = Advance(m)
    OBVIOUS
  <1>2. CASE DOMAIN m.plan # {}
    BY <1>2 DEF Advance
  <1>3. CASE DOMAIN m.plan = {}
    <2>1. PICK step \in {"search", "commit", "read", "done"}, part \in Parts :
            /\ NewFields(n, m.kind, part, step, m.preset, m.snap, m.row, m.plan, m.docs, m.clean)
            /\ part = m.part \/ ~IsRequest(m)
            /\ step = "commit" => IsRequest(m)
      BY <1>1, <1>3 DEF Advance, NewFields, JobForm, IsRequest, Parts
    <2>2. JobForm(n)
      BY <1>3, <2>1 DEF NewFields, JobForm, IsRequest
    <2>3. QED
      BY <1>1, <2>1, <2>2 DEF NewFields
  <1>4. QED
    BY <1>2, <1>3

\* The rows a preset's sync is about want its filters, if anything.
LEMMA BoundWants ==
    ASSUME NEW p, NEW part \in Parts, NEW d \in BoundTo(p, part)
    PROVE  /\ d \in Docs /\ d[1] = part
           /\ ~Usable(p) => Wanted(d) = None
           /\ part = "watch" /\ Usable(p) => Wanted(d) = presets[p].filters
           /\ Usable(p) => Wanted(d) = (IF Active(d) THEN presets[p].filters ELSE None)
  BY DEF BoundTo, Wanted, Active

LEMMA ReadPresetInv ==
    ASSUME SyncInv, NEW s \in Threads, ReadPreset(s)
    PROVE  SyncInv'
  <1>1. PICK j : j = jobs[s]
    OBVIOUS
  <1>2. j # None /\ Fine(j) /\ JobForm(j) /\ j.kind = "preset" /\ j.step = "read"
    BY <1>1 DEF ReadPreset, At, SyncInv, Fine
  <1>3. PICK n : n = [j EXCEPT !.step = "ids", !.snap = presets[j.preset]]
    OBVIOUS
  <1>4. NewFields(n, "preset", j.part, "ids", j.preset, presets[j.preset], j.row, j.plan, j.docs, j.clean)
    BY <1>2, <1>3 DEF JobForm, NewFields
  <1>5. JobForm(n)
    BY <1>2, <1>4 DEF NewFields, JobForm, IsRequest
  <1>6. ASSUME j.clean PROVE JobRight(n)
    <2>1. PresetRight(j)
      BY <1>2, <1>6 DEF Fine, JobRight
    <2>2. PresetRight(n)
      BY <1>2, <1>4, <2>1 DEF NewFields, PresetRight, WatchScope
    <2>3. QED
      BY <1>4, <2>2 DEF JobRight, NewFields, IsRequest
  <1>7. SetJob(s, n) /\ UNCHANGED <<tables, index>>
    BY <1>1, <1>3 DEF ReadPreset
  <1>8. QED
    BY <1>4, <1>5, <1>6, <1>7, QuietStep DEF Fine, NewFields

LEMMA ReadIdsInv ==
    ASSUME SyncInv, NEW s \in Threads, ReadIds(s)
    PROVE  SyncInv'
  <1>1. PICK j : j = jobs[s]
    OBVIOUS
  <1>2. j # None /\ Fine(j) /\ JobForm(j) /\ j.step = "ids" /\ j.part \in Parts
    BY <1>1 DEF ReadIds, At, SyncInv, Fine, JobForm
  <1>3. PICK on \in BOOLEAN : on = (Live(j.snap) /\ j.snap.on)
    OBVIOUS
  <1>4. PICK bound, query : bound = BoundTo(j.preset, j.part) /\ query = IF on /\ j.part = "watch" THEN j.snap.filters ELSE None
    OBVIOUS
  <1>5. PICK first : first = IF on /\ j.part = "task" THEN "active" ELSE "write"
    OBVIOUS
  <1>6. PICK m : m = [j EXCEPT !.step = first, !.plan = [d \in bound |-> query]]
    OBVIOUS
  <1>7. NewFields(m, j.kind, j.part, first, j.preset, j.snap, j.row, [d \in bound |-> query], j.docs, j.clean)
    BY <1>2, <1>6 DEF JobForm, NewFields
  <1>8. SetJob(s, Advance(m)) /\ UNCHANGED <<tables, index>>
    BY <1>1, <1>3, <1>4, <1>5, <1>6 DEF ReadIds
  <1>9. bound \subseteq Docs /\ \A d \in bound : d[1] = j.part /\ Live(RowOf(d))
    BY <1>4 DEF BoundTo
  <1>10. JobForm(m)
    <2>1. \A w \in Watches : <<"watch", w>> \in bound => watches[w] # Unused
      BY <1>9 DEF Live, RowOf
    <2>2. QED
      BY <1>2, <1>5, <1>7, <1>9, <2>1 DEF NewFields, JobForm, IsRequest
  <1>11. ASSUME j.clean PROVE JobRight(Advance(m))
    <2>1. j.kind = "preset" /\ PresetRight(j)
      BY <1>2, <1>11 DEF Fine, JobRight, JobForm, AllRight, RequestRight, IsRequest
    <2>2. j.snap = presets[j.preset] /\ on = Usable(j.preset) /\ (j.part = "watch" => j.docs = {})
      BY <1>2, <1>3, <2>1 DEF PresetRight, Usable
    <2>3. PICK n : n = Advance(m)
      OBVIOUS
    <2>4. CASE j.part = "watch"
      <3>1. bound = BoundTo(j.preset, "watch") /\ \A d \in bound : Wanted(d) = query
        BY <1>3, <1>4, <2>2, <2>4, BoundWants DEF Parts
      <3>2. \/ bound # {} /\ NewFields(n, "preset", "watch", "write", j.preset, j.snap, j.row, [d \in bound |-> query], {}, j.clean)
            \/ bound = {} /\ NewFields(n, "preset", "task", "read", j.preset, j.snap, j.row, [d \in bound |-> query], {}, j.clean)
        BY <1>5, <1>7, <2>1, <2>2, <2>3, <2>4 DEF NewFields, Advance, IsRequest
      <3>3. PresetRight(n)
        BY <3>1, <3>2 DEF NewFields, PresetRight, WatchScope, Planned
      <3>4. QED
        BY <2>3, <3>2, <3>3 DEF JobRight, NewFields, IsRequest
    <2>5. CASE j.part = "task"
      <3>1. bound = BoundTo(j.preset, "task") /\ (~on => \A d \in bound : Wanted(d) = query) /\ (on => Usable(j.preset))
        BY <1>3, <1>4, <2>2, <2>5, BoundWants DEF Parts
      <3>2. \A d \in WatchScope(j) : index[d] = Wanted(d)
        BY <2>1, <2>5 DEF PresetRight
      <3>3. PICK step \in {"active", "write", "done"} :
              /\ NewFields(n, "preset", "task", step, j.preset, j.snap, j.row, [d \in bound |-> query], j.docs, j.clean)
              /\ (step = "active" => on) /\ (step = "write" => ~on) /\ (step = "done" => bound = {})
        BY <1>5, <1>7, <2>1, <2>3, <2>5 DEF NewFields, Advance, IsRequest
      <3>4. PresetRight(n)
        BY <2>1, <2>2, <3>1, <3>2, <3>3 DEF NewFields, PresetRight, WatchScope, Planned
      <3>5. QED
        BY <2>3, <3>3, <3>4 DEF JobRight, NewFields, IsRequest
    <2>6. QED
      BY <1>2, <2>4, <2>5 DEF Parts
  <1>12. QED
    BY <1>7, <1>8, <1>10, <1>11, AdvanceForm, QuietStep DEF Fine, NewFields

LEMMA ReadActiveInv ==
    ASSUME SyncInv, NEW s \in Threads, ReadActive(s)
    PROVE  SyncInv'
  <1>1. PICK j : j = jobs[s]
    OBVIOUS
  <1>2. j # None /\ Fine(j) /\ JobForm(j) /\ j.step = "active"
    BY <1>1 DEF ReadActive, At, SyncInv, Fine
  <1>3. PICK plan : plan = [d \in DOMAIN j.plan |-> QueryFor(j, d)]
    OBVIOUS
  <1>4. PICK n : n = [j EXCEPT !.step = "write", !.plan = plan]
    OBVIOUS
  <1>5. NewFields(n, j.kind, j.part, "write", j.preset, j.snap, j.row, plan, j.docs, j.clean)
    BY <1>2, <1>4 DEF JobForm, NewFields
  <1>6. SetJob(s, n) /\ UNCHANGED <<tables, index>>
    BY <1>1, <1>3, <1>4 DEF ReadActive
  <1>7. JobForm(n)
    <2>1. DOMAIN plan = DOMAIN j.plan
      BY <1>3
    <2>2. \A w \in Watches : <<"watch", w>> \in DOMAIN plan /\ plan[<<"watch", w>>] # None => watches[w] # Unused
      BY <1>3 DEF QueryFor, Active, Live, RowOf
    <2>3. QED
      BY <1>2, <1>5, <2>1, <2>2 DEF NewFields, JobForm, IsRequest
  <1>8. ASSUME j.clean PROVE JobRight(n)
    <2>1. j.kind = "preset" /\ PresetRight(j)
      BY <1>2, <1>8 DEF Fine, JobRight, JobForm, AllRight, RequestRight, IsRequest
    <2>2. /\ j.part = "task" /\ j.snap = presets[j.preset] /\ Usable(j.preset) /\ DOMAIN j.plan = BoundTo(j.preset, "task")
          /\ \A d \in WatchScope(j) : index[d] = Wanted(d)
      BY <1>2, <2>1 DEF PresetRight
    <2>3. \A d \in BoundTo(j.preset, "task") : plan[d] = Wanted(d)
      BY <1>3, <2>2, BoundWants DEF QueryFor, BoundTo, Parts
    <2>4. PresetRight(n)
      BY <1>3, <1>5, <2>1, <2>2, <2>3 DEF NewFields, PresetRight, WatchScope, Planned
    <2>5. QED
      BY <1>5, <2>1, <2>4 DEF JobRight, NewFields, IsRequest
  <1>9. QED
    BY <1>5, <1>6, <1>7, <1>8, QuietStep DEF Fine, NewFields

LEMMA WriteInv ==
    ASSUME SyncInv, NEW s \in Threads, NEW d \in Docs, Write(s, d)
    PROVE  SyncInv'
  <1>1. PICK j : j = jobs[s]
    OBVIOUS
  <1>2. j # None /\ Fine(j) /\ JobForm(j) /\ j.step \in {"write", "purge"} /\ d \in DOMAIN j.plan /\ d[1] = j.part
    BY <1>1 DEF Write, At, SyncInv, Fine, JobForm
  <1>3. PICK rest : rest = [x \in DOMAIN j.plan \ {d} |-> j.plan[x]]
    OBVIOUS
  <1>4. PICK m : m = [j EXCEPT !.plan = rest]
    OBVIOUS
  <1>5. PICK n : n = Advance(m)
    OBVIOUS
  <1>6. NewFields(m, j.kind, j.part, j.step, j.preset, j.snap, j.row, rest, j.docs, j.clean)
    BY <1>2, <1>4 DEF JobForm, NewFields
  <1>7. UNCHANGED <<tables, faults>> /\ SteadyRows /\ watches' = watches
    BY SteadyTables DEF Write, tables
  <1>8. JobForm(m)
    <2>1. j.step \in {"active", "write", "purge"}
      BY <1>2
    <2>2. QED
      BY <1>2, <1>3, <1>6, <2>1 DEF NewFields, JobForm, IsRequest
  <1>9. JobForm(n)' /\ n.clean = j.clean
    BY <1>5, <1>6, <1>7, <1>8, AdvanceForm, FormStays DEF SteadyRows, NewFields
  <1>10. CASE j.plan[d] \in Refused
    <2>1. SetJob(s, None) /\ UNCHANGED <<tables, index>>
      BY <1>1, <1>7, <1>10 DEF Write
    <2>2. QED
      BY <2>1, QuietStep
  <1>11. CASE j.plan[d] \notin Refused
    <2>1. index' = [index EXCEPT ![d] = j.plan[d]] /\ jobs' = [SoiledIn(j.part) EXCEPT ![s] = n]
      BY <1>1, <1>3, <1>4, <1>5, <1>11 DEF Write
    <2>2. DOMAIN index = Docs
      BY DEF SyncInv
    <2>3. index'[d] = j.plan[d] /\ \A x \in Docs \ {d} : index'[x] = index[x]
      BY <2>1, <2>2
    <2>4. \A x \in Docs : (IF x \in DOMAIN rest THEN rest[x] ELSE index'[x]) = Planned(j, x)
      BY <1>2, <1>3, <2>3 DEF Planned
    <2>5. \A x \in Docs : Wanted(x)' = Wanted(x)
      BY <1>7 DEF SteadyRows
    <2>6. ASSUME j.clean, j.kind = "all" PROVE JobRight(n)'
      <3>1. AllRight(j)
        BY <1>2, <2>6 DEF Fine, JobRight
      <3>2. PICK step \in {"write", "search", "purge", "done"} :
              /\ NewFields(n, "all", j.part, step, j.preset, j.snap, j.row, rest, j.docs, j.clean)
              /\ step \in {"write", "search"} <=> j.step = "write"
        BY <1>2, <1>5, <1>6, <2>6 DEF NewFields, Advance, IsRequest
      <3>3. j.step = "write" => /\ j.docs = {x \in Docs : x[1] = j.part /\ Wanted(x)' # None}
                                /\ \A x \in j.docs : (IF x \in DOMAIN rest THEN rest[x] ELSE index'[x]) = Wanted(x)'
        BY <2>4, <2>5, <3>1 DEF AllRight
      <3>4. j.step = "purge" => \A x \in Docs : x[1] = j.part =>
                                (IF x \in DOMAIN rest THEN rest[x] ELSE index'[x]) = Wanted(x)'
        BY <2>4, <2>5, <3>1 DEF AllRight
      <3>5. AllRight(n)'
        BY <1>2, <3>2, <3>3, <3>4 DEF NewFields, AllRight, Planned
      <3>6. QED
        BY <3>2, <3>5 DEF NewFields, JobRight, IsRequest
    <2>7. ASSUME j.clean, j.kind = "preset" PROVE JobRight(n)'
      <3>1. PresetRight(j) /\ j.step = "write"
        BY <1>2, <2>7 DEF Fine, JobRight, PresetRight
      <3>2. /\ BoundTo(j.preset, "watch")' = BoundTo(j.preset, "watch") /\ BoundTo(j.preset, "task")' = BoundTo(j.preset, "task")
            /\ BoundTo(j.preset, "watch") \subseteq Docs /\ BoundTo(j.preset, "task") \subseteq Docs
            /\ \A x \in BoundTo(j.preset, "watch") : x[1] = "watch"
        BY <1>7 DEF SteadyRows, BoundTo, Parts
      <3>3. j.docs \subseteq Docs /\ \A x \in j.docs : x[1] = "watch"
        BY <1>2, <2>7 DEF JobForm, Docs
      <3>4. CASE j.part = "watch"
        <4>1. \A x \in j.docs \cup BoundTo(j.preset, "watch") :
                 (IF x \in DOMAIN rest THEN rest[x] ELSE index'[x]) = Wanted(x)'
          BY <2>4, <2>5, <3>1, <3>2, <3>3, <3>4 DEF PresetRight, WatchScope
        <4>2. \/ NewFields(n, "preset", "watch", "write", j.preset, j.snap, j.row, rest, j.docs, j.clean)
              \/ /\ NewFields(n, "preset", "task", "read", j.preset, j.snap, j.row, rest, j.docs, j.clean)
                 /\ DOMAIN rest = {}
          BY <1>5, <1>6, <2>7, <3>1, <3>4 DEF NewFields, Advance, IsRequest
        <4>3. PresetRight(n)'
          BY <3>1, <3>2, <4>1, <4>2 DEF NewFields, PresetRight, WatchScope, Planned
        <4>4. QED
          BY <4>2, <4>3 DEF NewFields, JobRight, IsRequest
      <3>5. CASE j.part = "task"
        <4>1. \A x \in j.docs \cup BoundTo(j.preset, "watch") : index'[x] = Wanted(x)'
          BY <1>2, <2>3, <2>5, <3>1, <3>2, <3>3, <3>5 DEF PresetRight, WatchScope
        <4>2. \A x \in BoundTo(j.preset, "task") : (IF x \in DOMAIN rest THEN rest[x] ELSE index'[x]) = Wanted(x)'
          BY <2>4, <2>5, <3>1, <3>2, <3>5 DEF PresetRight
        <4>3. PICK step \in {"write", "done"} :
                NewFields(n, "preset", "task", step, j.preset, j.snap, j.row, rest, j.docs, j.clean)
          BY <1>5, <1>6, <2>7, <3>1, <3>5 DEF NewFields, Advance, IsRequest
        <4>4. PresetRight(n)'
          BY <3>1, <3>2, <4>1, <4>2, <4>3 DEF NewFields, PresetRight, WatchScope, Planned
        <4>5. QED
          BY <4>3, <4>4 DEF NewFields, JobRight, IsRequest
      <3>6. QED
        BY <1>2, <3>4, <3>5 DEF JobForm, Parts
    <2>8. ASSUME j.clean, IsRequest(j) PROVE JobRight(n)'
      <3>1. RequestRight(j) /\ j.step = "write" /\ j.docs \subseteq Docs
        BY <1>2, <2>8 DEF Fine, JobRight, RequestRight, JobForm, Docs
      <3>2. Asked(j.row)' = Asked(j.row)
        BY <1>7 DEF Asked, Usable, SteadyRows
      <3>3. \A x \in j.docs : (IF x \in DOMAIN rest THEN rest[x] ELSE index'[x]) = Asked(j.row)'
        BY <2>4, <3>1, <3>2 DEF RequestRight
      <3>4. PICK step \in {"write", "commit"} :
              NewFields(n, j.kind, j.part, step, j.preset, j.snap, j.row, rest, j.docs, j.clean)
        BY <1>5, <1>6, <2>8, <3>1 DEF NewFields, Advance, IsRequest
      <3>5. RequestRight(n)'
        BY <3>3, <3>4 DEF NewFields, RequestRight, Planned
      <3>6. QED
        BY <2>8, <3>4, <3>5 DEF NewFields, JobRight, IsRequest
    <2>9. Fine(n)'
      <3>1. j.clean => j.kind = "all" \/ j.kind = "preset" \/ IsRequest(j)
        BY <1>2 DEF JobForm, IsRequest
      <3>2. QED
        BY <1>9, <2>6, <2>7, <2>8, <3>1 DEF Fine
    <2>10. ASSUME NEW x \in Threads \ {s}
           PROVE  \/ jobs'[x] = None
                  \/ jobs[x] # None /\ jobs'[x] = [jobs[x] EXCEPT !.clean = FALSE]
                  \/ /\ jobs[x] # None /\ jobs'[x] = jobs[x] /\ SteadyRows
                     /\ \A e \in Docs : index'[e] = index[e] \/ (jobs[x].kind # "preset" /\ e[1] # jobs[x].part)
      <3>1. jobs'[x] = IF jobs[x] = None THEN None
                       ELSE IF jobs[x].kind = "preset" \/ jobs[x].part = j.part
                              THEN [jobs[x] EXCEPT !.clean = FALSE] ELSE jobs[x]
        BY <2>1 DEF SoiledIn, Idle
      <3>2. QED
        BY <1>2, <1>7, <2>3, <3>1
    <2>11. \A w \in Watches : watches'[w] = Unused => index'[<<"watch", w>>] = None
      <3>1. \A w \in Watches : <<"watch", w>> \in Docs
        BY DEF Docs
      <3>2. QED
        BY <1>2, <1>7, <2>3, <3>1 DEF SyncInv, JobForm
    <2>12. jobs'[s] = n /\ DOMAIN jobs' = Threads /\ DOMAIN index' = Docs /\ DOMAIN watches' = Watches
      BY <1>7, <2>1, <2>2 DEF SoiledIn, SyncInv
    <2>13. QED
      BY <1>7, <2>9, <2>10, <2>11, <2>12, ThreadStep DEF SteadyRows
  <1>12. QED
    BY <1>10, <1>11

LEMMA AnswerInv ==
    ASSUME SyncInv, NEW s \in Threads, Answer(s)
    PROVE  SyncInv'
  BY QuietStep DEF Answer

-----------------------------------------------------------------------------
(* Commits                                                                 *)

LEMMA CommitPresetInv ==
    ASSUME SyncInv, NEW s \in Threads, CommitPreset(s)
    PROVE  SyncInv'
  <1>1. PICK j : j = jobs[s]
    OBVIOUS
  <1>2. /\ j # None /\ Fine(j) /\ JobForm(j) /\ j.kind = "preset" /\ j.step = "commit"
        /\ j.part = "watch" /\ j.docs \subseteq {"watch"} \X Watches
    BY <1>1 DEF CommitPreset, At, SyncInv, Fine, JobForm
  <1>3. PICK m : m = [j EXCEPT !.step = "write", !.plan = [d \in j.docs |-> None]]
    OBVIOUS
  <1>4. PICK n : n = Advance(m)
    OBVIOUS
  <1>5. NewFields(m, "preset", "watch", "write", j.preset, j.snap, j.row, [d \in j.docs |-> None], j.docs, j.clean)
    BY <1>2, <1>3 DEF JobForm, NewFields
  <1>6. /\ watches' = [w \in Watches |-> IF j.docs # {} /\ Live(watches[w]) /\ watches[w].preset = j.preset THEN Gone ELSE watches[w]]
        /\ index' = index /\ jobs' = [Soiled EXCEPT ![s] = n]
    BY <1>1, <1>3, <1>4 DEF CommitPreset
  <1>7. DOMAIN watches' = Watches /\ \A w \in Watches : watches[w] # Unused => watches'[w] # Unused
    BY <1>6, PercolatorAssumption
  <1>8. JobForm(m)
    BY <1>2, <1>5 DEF NewFields, JobForm, Docs, IsRequest
  <1>9. JobForm(n)' /\ n.clean = j.clean
    BY <1>4, <1>5, <1>7, <1>8, AdvanceForm, FormStays DEF NewFields
  <1>10. ASSUME j.clean PROVE JobRight(n)'
    <2>0. j.docs = WatchesOf(j.preset)
      BY <1>2, <1>10 DEF Fine, JobRight, PresetRight
    <2>1. \A d \in j.docs : Live(RowOf(d)) /\ RowOf(d).preset = j.preset
      BY <2>0 DEF WatchesOf
    <2>2. \A w \in Watches : <<"watch", w>> \in j.docs => watches'[w] = Gone
      BY <1>6, <2>1 DEF RowOf
    <2>3. \A d \in j.docs : Wanted(d)' = None
      BY <1>2, <2>2 DEF Wanted, Active, Live, RowOf
    <2>4. \A w \in Watches : ~(Live(watches'[w]) /\ watches'[w].preset = j.preset)
      <3>1. ASSUME NEW w \in Watches, Live(watches[w]), watches[w].preset = j.preset PROVE watches'[w] = Gone
        <4>1. <<"watch", w>> \in j.docs
          BY <2>0, <3>1 DEF WatchesOf, Docs, RowOf
        <4> QED  BY <1>6, <3>1, <4>1
      <3>2. ASSUME NEW w \in Watches, watches'[w] # watches[w] PROVE watches'[w] = Gone
        BY <1>6, <3>2
      <3> QED  BY <3>1, <3>2 DEF Live
    <2>5. BoundTo(j.preset, "watch")' = {}
      BY <2>4 DEF BoundTo, Docs, RowOf, Live
    <2>6. \/ NewFields(n, "preset", "watch", "write", j.preset, j.snap, j.row, [d \in j.docs |-> None], j.docs, j.clean)
          \/ /\ NewFields(n, "preset", "task", "read", j.preset, j.snap, j.row, [d \in j.docs |-> None], j.docs, j.clean)
             /\ j.docs = {}
      BY <1>4, <1>5 DEF NewFields, Advance, IsRequest
    <2>7. PresetRight(n)'
      BY <2>3, <2>5, <2>6 DEF NewFields, PresetRight, WatchScope, Planned
    <2>8. QED
      BY <2>6, <2>7 DEF NewFields, JobRight, IsRequest
  <1>11. QED
    BY <1>6, <1>7, <1>9, <1>10, CommitStep DEF Fine

LEMMA CommitWatchInv ==
    ASSUME SyncInv, NEW s \in Threads, NEW w \in Watches, CommitWatch(s, w)
    PROVE  SyncInv'
  <1>1. PICK j : j = jobs[s]
    OBVIOUS
  <1>2. j # None /\ Fine(j) /\ JobForm(j) /\ IsRequest(j) /\ j.step = "commit" /\ <<"watch", w>> \in j.docs
    BY <1>1 DEF CommitWatch, At, SyncInv, Fine
  <1>3. PICK n : n = [j EXCEPT !.step = "done"]
    OBVIOUS
  <1>4. NewFields(n, j.kind, j.part, "done", j.preset, j.snap, j.row, j.plan, j.docs, j.clean)
    BY <1>2, <1>3 DEF JobForm, NewFields
  <1>5. CASE SetJob(s, None) /\ UNCHANGED watches
    BY <1>5, QuietStep DEF CommitWatch, tables
  <1>6. CASE watches' = [watches EXCEPT ![w] = j.row] /\ jobs' = [Soiled EXCEPT ![s] = n]
    <2>1. index' = index /\ presets' = presets /\ DOMAIN watches = Watches
      BY DEF CommitWatch, SyncInv
    <2>2. DOMAIN watches' = Watches /\ watches'[w] = j.row /\ \A x \in Watches \ {w} : watches'[x] = watches[x]
      BY <1>6, <2>1
    <2>3. j.row # Unused /\ DOMAIN j.plan = {} /\ j.docs = {<<"watch", w>>}
      BY <1>2 DEF JobForm
    <2>4. \A x \in Watches : watches[x] # Unused => watches'[x] # Unused
      BY <2>2, <2>3
    <2>5. JobForm(n)
      BY <1>2, <1>4, <2>3 DEF NewFields, JobForm, IsRequest
    <2>6. JobForm(n)'
      BY <2>4, <2>5, FormStays
    <2>7. ASSUME j.clean PROVE JobRight(n)'
      <3>1. index[<<"watch", w>>] = Asked(j.row)
        BY <1>2, <2>3, <2>7 DEF Fine, JobRight, RequestRight, Planned
      <3>2. Wanted(<<"watch", w>>)' = Asked(j.row)'
        BY <2>2 DEF Wanted, Asked, Active, RowOf
      <3>3. Asked(j.row)' = Asked(j.row)
        BY <2>1 DEF Asked, Usable
      <3>4. RequestRight(n)'
        BY <1>4, <2>1, <2>3, <3>1, <3>2, <3>3 DEF NewFields, RequestRight
      <3>5. QED
        BY <1>2, <1>4, <3>4 DEF NewFields, JobRight, IsRequest
    <2>8. n.clean = j.clean
      BY <1>4 DEF NewFields
    <2>9. QED
      BY <1>6, <2>1, <2>2, <2>4, <2>6, <2>7, <2>8, CommitStep DEF Fine
  <1>7. QED
    BY <1>1, <1>3, <1>5, <1>6 DEF CommitWatch

\* Edits of tasks, devices and presets commit first and are fresh jobs then.
LEMMA CommitFirst ==
    ASSUME SyncInv, NEW s \in Threads, NEW n, n = Rebuild("task") \/ \E p \in Presets : n = PresetSync(p),
           jobs' = [Soiled EXCEPT ![s] = n], UNCHANGED <<watches, index>>
    PROVE  SyncInv'
  BY RebuildIsFine, PresetSyncIsFine, CommitStep DEF SyncInv, Parts

LEMMA TableEdits ==
    ASSUME SyncInv, NEW s \in Threads,
           \/ \E t \in Tasks : DeleteTask(s, t) \/ \E row \in TaskRow : CreateTask(s, t, row) \/ UpdateTask(s, t, row)
           \/ \E d \in Devices, on \in BOOLEAN : UpdateDevice(s, d, on)
           \/ \E p \in Presets, row \in PresetRow : UpdatePreset(s, p, row)
    PROVE  SyncInv'
  BY CommitFirst DEF DeleteTask, CreateTask, UpdateTask, SaveTask, UpdateDevice, UpdatePreset

LEMMA CreatePresetInv ==
    ASSUME SyncInv, NEW p \in Presets, NEW f \in Filters, CreatePreset(p, f)
    PROVE  SyncInv'
  <1>1. jobs' = [x \in Threads |-> IF jobs[x] = None THEN None ELSE [jobs[x] EXCEPT !.clean = FALSE]]
        /\ UNCHANGED <<watches, index>>
    BY DEF CreatePreset, Soiled, Idle
  <1>2. QED
    BY <1>1, JobsStep DEF SyncInv

LEMMA DeletePresetInv ==
    ASSUME SyncInv, NEW s \in Threads, NEW p \in Presets, DeletePreset(s, p)
    PROVE  SyncInv'
  <1>1. PICK docs : docs = {d \in Docs : d[1] = "watch" /\ Live(RowOf(d)) /\ RowOf(d).preset = p}
    OBVIOUS
  <1>2. PICK n : n = [PresetSync(p) EXCEPT !.step = "commit", !.docs = docs]
    OBVIOUS
  <1>3. NewFields(n, "preset", "watch", "commit", p, None, None, << >>, docs, TRUE)
    BY <1>2 DEF PresetSync, NewJob, NewFields
  <1>4. docs \subseteq {"watch"} \X Watches
    BY <1>1 DEF Docs
  <1>5. JobForm(n)
    BY <1>3, <1>4, EmptyPlan DEF NewFields, JobForm, IsRequest, Parts
  <1>6. JobRight(n)
    BY <1>1, <1>3 DEF NewFields, JobRight, PresetRight, WatchesOf, IsRequest
  <1>7. QED
    BY <1>1, <1>2, <1>5, <1>6, QuietStep DEF DeletePreset, Fine

-----------------------------------------------------------------------------
(* Requests for watches                                                    *)

LEMMA CreateWatchInv ==
    ASSUME SyncInv, NEW s \in Threads, NEW w \in Watches, NEW row \in WatchRow, CreateWatch(s, w, row)
    PROVE  SyncInv'
  <1>1. PICK plan : plan = [d \in IF row.realtime THEN {<<"watch", w>>} ELSE {} |-> presets[row.preset].filters]
    OBVIOUS
  <1>2. PICK n : n = Request("create", w, row, plan)
    OBVIOUS
  <1>3. PICK step \in {"write", "commit"} :
          /\ NewFields(n, "create", "watch", step, None, None, row, plan, {<<"watch", w>>}, TRUE)
          /\ step = "commit" <=> DOMAIN plan = {}
    BY <1>2 DEF Request, NewJob, NewFields, Advance, IsRequest
  <1>4. /\ watches[w] = Unused /\ watches' = [watches EXCEPT ![w] = Gone] /\ Usable(row.preset)
        /\ jobs' = [jobs EXCEPT ![s] = n] /\ UNCHANGED <<tasks, devices, presets, index, faults>>
    BY <1>1, <1>2 DEF CreateWatch, SetJob
  <1>5. DOMAIN watches = Watches /\ DOMAIN jobs = Threads /\ Unused # Gone /\ row # Unused /\ row # Gone
    BY PercolatorAssumption DEF SyncInv
  <1>6. DOMAIN watches' = Watches /\ watches'[w] = Gone /\ \A x \in Watches \ {w} : watches'[x] = watches[x]
    BY <1>4, <1>5
  <1>7. SteadyRows
    <2>1. ASSUME NEW d \in Docs
          PROVE  (Live(RowOf(d))' <=> Live(RowOf(d))) /\ (Live(RowOf(d)) => RowOf(d)' = RowOf(d))
      BY <1>4, <1>6 DEF Docs, RowOf, Live
    <2>2. \A d \in Docs : Wanted(d)' = Wanted(d)
      BY <1>4, <2>1 DEF Wanted, Active, Usable
    <2>3. \A p : \A part \in Parts : BoundTo(p, part)' = BoundTo(p, part)
      BY <2>1 DEF BoundTo
    <2>4. QED
      BY <1>4, <1>5, <1>6, <2>1, <2>2, <2>3 DEF SteadyRows
  <1>8. JobForm(n)'
    BY <1>1, <1>3, <1>5, <1>6 DEF NewFields, JobForm, IsRequest, Parts, Docs
  <1>9. JobRight(n)'
    <2>1. index'[<<"watch", w>>] = None
      BY <1>4 DEF SyncInv
    <2>2. Asked(row)' = IF row.realtime THEN presets[row.preset].filters ELSE None
      BY <1>4, <1>5 DEF Asked, Live, Usable
    <2>3. Planned(n, <<"watch", w>>)' = Asked(row)'
      BY <1>1, <1>3, <2>1, <2>2 DEF NewFields, Planned
    <2>4. QED
      BY <1>3, <2>3 DEF NewFields, JobRight, RequestRight, IsRequest
  <1>10. jobs'[s] = n /\ DOMAIN jobs' = Threads /\ \A x \in Threads \ {s} : jobs'[x] = jobs[x]
    BY <1>4, <1>5
  <1>11. \A x \in Watches : watches'[x] = Unused => index'[<<"watch", x>>] = None
    BY <1>4, <1>5, <1>6 DEF SyncInv
  <1>12. \A x \in Watches : watches[x] # Unused => watches'[x] # Unused
    BY <1>5, <1>6
  <1>13. index' = index /\ DOMAIN index' = Docs
    BY <1>4 DEF SyncInv
  <1>14. QED
    BY <1>6, <1>7, <1>8, <1>9, <1>10, <1>11, <1>12, <1>13, ThreadStep DEF Fine

LEMMA UpdateWatchInv ==
    ASSUME SyncInv, NEW s \in Threads, NEW w \in Watches, NEW row \in WatchRow, UpdateWatch(s, w, row)
    PROVE  SyncInv'
  <1>1. PICK plan : plan = [d \in {<<"watch", w>>} |-> IF row.realtime THEN presets[row.preset].filters ELSE None]
    OBVIOUS
  <1>2. PICK n : n = Request("update", w, row, plan)
    OBVIOUS
  <1>3. NewFields(n, "update", "watch", "write", None, None, row, plan, {<<"watch", w>>}, TRUE)
    BY <1>1, <1>2 DEF Request, NewJob, NewFields, Advance, IsRequest
  <1>4. SetJob(s, n) /\ UNCHANGED <<tables, index>> /\ watches[w] # Unused /\ Usable(row.preset)
    BY <1>1, <1>2 DEF UpdateWatch, Live
  <1>5. row # Unused /\ row # Gone
    BY PercolatorAssumption
  <1>6. JobForm(n)
    BY <1>1, <1>3, <1>4, <1>5 DEF NewFields, JobForm, IsRequest, Parts, Docs
  <1>7. JobRight(n)
    BY <1>1, <1>3, <1>4, <1>5 DEF NewFields, JobRight, RequestRight, IsRequest, Planned, Asked, Live
  <1>8. QED
    BY <1>4, <1>6, <1>7, QuietStep DEF Fine

LEMMA DeleteWatchInv ==
    ASSUME SyncInv, NEW s \in Threads, NEW w \in Watches, DeleteWatch(s, w)
    PROVE  SyncInv'
  <1>1. PICK plan : plan = [d \in {<<"watch", w>>} |-> None]
    OBVIOUS
  <1>2. PICK n : n = Request("delete", w, Gone, plan)
    OBVIOUS
  <1>3. NewFields(n, "delete", "watch", "write", None, None, Gone, plan, {<<"watch", w>>}, TRUE)
    BY <1>1, <1>2 DEF Request, NewJob, NewFields, Advance, IsRequest
  <1>4. SetJob(s, n) /\ UNCHANGED <<tables, index>> /\ Gone # Unused
    BY <1>1, <1>2, PercolatorAssumption DEF DeleteWatch
  <1>5. JobForm(n)
    BY <1>1, <1>3, <1>4 DEF NewFields, JobForm, IsRequest, Parts, Docs
  <1>6. JobRight(n)
    BY <1>1, <1>3 DEF NewFields, JobRight, RequestRight, IsRequest, Planned, Asked, Live
  <1>7. QED
    BY <1>4, <1>5, <1>6, QuietStep DEF Fine

-----------------------------------------------------------------------------
(* The surroundings                                                        *)

LEMMA OrphanIsFine ==
    ASSUME NEW j, JobForm(j), IsRequest(j)
    PROVE  Fine(Orphan(j))
  <1>1. PICK n : n = Orphan(j)
    OBVIOUS
  <1>2. NewFields(n, "orphan", j.part, j.step, j.preset, j.snap, j.row, j.plan, j.docs, FALSE)
    BY <1>1 DEF Orphan, NewFields, JobForm
  <1>3. JobForm(n)
    BY <1>2 DEF NewFields, JobForm, IsRequest
  <1>4. QED
    BY <1>1, <1>2, <1>3 DEF NewFields, Fine

LEMMA SurroundingsInv ==
    ASSUME SyncInv, NEW s \in Threads, Periodic(s) \/ (\E w \in Watches : TimeOut(s, w)) \/ Fail(s)
    PROVE  SyncInv'
  <1>1. CASE Periodic(s)
    BY <1>1, RebuildIsFine, QuietStep DEF Periodic, Parts
  <1>2. ASSUME NEW w \in Watches, TimeOut(s, w) PROVE SyncInv'
    <2>1. PICK j : j = jobs[s]
      OBVIOUS
    <2>2. j # None /\ JobForm(j) /\ IsRequest(j)
      BY <1>2, <2>1 DEF TimeOut, At, SyncInv, Fine
    <2>3. SetJob(s, Orphan(j)) /\ UNCHANGED <<tables, index>>
      BY <1>2, <2>1 DEF TimeOut
    <2>4. QED
      BY <2>2, <2>3, OrphanIsFine, QuietStep
  <1>3. CASE Fail(s)
    BY <1>3, QuietStep DEF Fail
  <1>4. QED
    BY <1>1, <1>2, <1>3

LEMMA RestartInv ==
    ASSUME SyncInv, NEW s \in Threads, Restart(s)
    PROVE  SyncInv'
  <1>1. SteadyRows /\ UNCHANGED <<watches, index>>
    BY SteadyTables DEF Restart, tables
  <1>2. jobs' = [x \in Threads |-> IF x = s THEN Rebuild("watch")
                                   ELSE IF Idle(x) \/ ~IsRequest(jobs[x]) THEN jobs[x]
                                   ELSE IF jobs[x].step = "write" THEN Orphan(jobs[x]) ELSE None]
    BY DEF Restart
  <1>3. ASSUME NEW x \in Threads, NEW n, n = jobs'[x], n # None PROVE Fine(n)'
    <2>1. PICK j : j = jobs[x]
      OBVIOUS
    <2>2. j # None => Fine(j)
      BY <2>1 DEF SyncInv
    <2>3. n = Rebuild("watch") \/ (n = j /\ j # None) \/ (n = Orphan(j) /\ j # None /\ IsRequest(j))
      BY <1>2, <1>3, <2>1 DEF Idle
    <2>4. Fine(n)
      BY <2>2, <2>3, RebuildIsFine, OrphanIsFine DEF Fine, Parts
    <2>5. QED
      BY <1>1, <2>4, FineStays
  <1>4. DOMAIN jobs' = Threads
    BY <1>2
  <1>5. QED
    BY <1>1, <1>3, <1>4, JobsStep DEF SyncInv

LEMMA StepInv == SyncInv /\ [SyncNext]_syncVars => SyncInv'
  <1> SUFFICES ASSUME SyncInv, [SyncNext]_syncVars PROVE SyncInv'
    OBVIOUS
  <1>1. CASE UNCHANGED syncVars
    <2>1. SteadyRows /\ UNCHANGED <<watches, index, jobs>>
      BY <1>1, SteadyTables DEF syncVars, tables
    <2>2. ASSUME NEW x \in Threads, NEW n, n = jobs'[x], n # None PROVE Fine(n)'
      <3>1. Fine(n)
        BY <2>1, <2>2 DEF SyncInv
      <3>2. QED
        BY <2>1, <3>1, FineStays
    <2>3. QED
      BY <2>1, <2>2, JobsStep DEF SyncInv
  <1>2. ASSUME NEW s \in Threads, EditNext(s) PROVE SyncInv'
    BY <1>2, TableEdits, DeletePresetInv, CreateWatchInv, UpdateWatchInv, DeleteWatchInv DEF EditNext
  <1>3. ASSUME NEW s \in Threads, JobStep(s) PROVE SyncInv'
    BY <1>3, ReadAllInv, ReadPresetInv, ReadIdsInv, ReadActiveInv, SearchInv, WriteInv, CommitPresetInv,
       CommitWatchInv, AnswerInv DEF JobStep
  <1>4. QED
    BY <1>1, <1>2, <1>3, CreatePresetInv, SurroundingsInv, RestartInv DEF SyncNext

\* A job that nobody interfered with leaves its documents as the tables want them:
\* `mail_percolator.py`, `block_tasks.py`, `mail_watches.py`.
THEOREM CleanJobs == SyncSpec => []CleanJobIsRight
  BY InitInv, StepInv, InvImpliesRight, PTL DEF SyncSpec
-----------------------------------------------------------------------------
(* Types                                                                   *)

Query == Filters \cup {None}
Plan == UNION {[D -> Query] : D \in SUBSET Docs}

\* A job whose plan is made and not yet carried out: of its type, and with what its next
\* steps take for granted.
Planning(j) ==
    /\ j \in Job
    /\ \A d \in DOMAIN j.plan : d[1] = j.part
    /\ j.kind = "preset" => j.preset \in Presets
    /\ j.kind = "preset" /\ j.step = "commit" => j.part = "watch" /\ \A d \in j.docs : d[1] = "watch"
    /\ j.step \in {"ids", "active"} => j.kind = "preset" /\ j.snap \in PresetRow \cup {Unused, Gone}
    /\ j.step = "active" => Live(j.snap)
    /\ IsRequest(j) => j.row \in WatchRow \cup {Gone}

\* It is at a step that writes as long as something is left to write, and not longer.
SoundJob(j) ==
    /\ Planning(j)
    /\ j.step \in {"active", "write", "purge"} <=> DOMAIN j.plan # {}

SyncTyped ==
    /\ tasks \in [Tasks -> TaskRow \cup {Unused, Gone}]
    /\ devices \in [Devices -> BOOLEAN]
    /\ presets \in [Presets -> PresetRow \cup {Unused, Gone}]
    /\ watches \in [Watches -> WatchRow \cup {Unused, Gone}]
    /\ index \in [Docs -> Query]
    /\ jobs \in [Threads -> Job \cup {None}]
    /\ \A s \in Threads : jobs[s] # None => SoundJob(jobs[s])
    /\ faults \in 0..MaxFaults

LEMMA PlanHas ==
    ASSUME NEW p \in Plan
    PROVE  DOMAIN p \subseteq Docs /\ \A d \in DOMAIN p : p[d] \in Query
  <1>1. PICK D \in SUBSET Docs : p \in [D -> Query]  BY DEF Plan
  <1> QED  BY <1>1

LEMMA PlanIs ==
    ASSUME NEW D \in SUBSET Docs, NEW p \in [D -> Query]
    PROVE  p \in Plan /\ DOMAIN p = D
  BY DEF Plan

LEMMA NothingPlanned == << >> \in Plan
  <1>1. << >> \in [{} -> Query]  OBVIOUS
  <1> QED  BY <1>1, PlanIs

LEMMA JobIs ==
    ASSUME NEW n, NewFields(n, n.kind, n.part, n.step, n.preset, n.snap, n.row, n.plan, n.docs, n.clean),
           n.kind \in {"all", "preset", "create", "update", "delete", "orphan"}, n.part \in Parts,
           n.step \in {"commit", "read", "ids", "active", "write", "search", "purge", "done"},
           n.preset \in Presets \cup {None}, n.snap \in PresetRow \cup {None, Unused, Gone},
           n.row \in WatchRow \cup {None, Gone}, n.plan \in Plan, n.docs \in SUBSET Docs, n.clean \in BOOLEAN
    PROVE  n \in Job
  BY DEF Job, Plan, Query, NewFields

LEMMA JobHas ==
    ASSUME NEW j \in Job
    PROVE  /\ j.kind \in {"all", "preset", "create", "update", "delete", "orphan"} /\ j.part \in Parts
           /\ j.step \in {"commit", "read", "ids", "active", "write", "search", "purge", "done"}
           /\ j.preset \in Presets \cup {None} /\ j.snap \in PresetRow \cup {None, Unused, Gone}
           /\ j.row \in WatchRow \cup {None, Gone} /\ j.plan \in Plan /\ j.docs \in SUBSET Docs /\ j.clean \in BOOLEAN
           /\ NewFields(j, j.kind, j.part, j.step, j.preset, j.snap, j.row, j.plan, j.docs, j.clean)
  BY DEF Job, Plan, Query, NewFields

\* A row asks for a query or for none.
LEMMA WantedIs ==
    ASSUME SyncTyped, NEW d \in Docs
    PROVE  Wanted(d) \in Query
  <1>1. ASSUME Active(d), Usable(RowOf(d).preset)  PROVE presets[RowOf(d).preset].filters \in Filters
    <2>1. RowOf(d) \in TaskRow \cup WatchRow  BY <1>1 DEF Active, Live, RowOf, Docs, SyncTyped
    <2>2. RowOf(d).preset \in Presets  BY <2>1 DEF TaskRow, WatchRow
    <2>3. presets[RowOf(d).preset] \in PresetRow  BY <1>1, <2>2 DEF Usable, Live, SyncTyped
    <2> QED  BY <2>3 DEF PresetRow
  <1> QED  BY <1>1 DEF Wanted, Query

\* A job with a plan goes on to write it, or past it if there is nothing to write.
LEMMA AdvanceIsSound ==
    ASSUME NEW j, Planning(j), j.step \in {"active", "write", "purge"}
    PROVE  SoundJob(Advance(j))
  <1>1. j \in Job  BY DEF Planning
  <1>5. NewFields(j, j.kind, j.part, j.step, j.preset, j.snap, j.row, j.plan, j.docs, j.clean)  BY <1>1, JobHas
  <1>2. CASE DOMAIN j.plan # {}  BY <1>2 DEF Advance, SoundJob
  <1>3. CASE DOMAIN j.plan = {}
    <2>1. PICK n : n = Advance(j)  OBVIOUS
    <2>2. PICK part \in {j.part, "task"}, step \in {"search", "commit", "read", "done"} :
             /\ NewFields(n, j.kind, part, step, j.preset, j.snap, j.row, j.plan, j.docs, j.clean)
             /\ step = "commit" => IsRequest(j)
      BY <1>3, <1>5, <2>1 DEF Advance, NewFields
    <2>3. n \in Job  BY <1>1, <2>2, JobHas, JobIs DEF Parts, NewFields
    <2>4. SoundJob(n)  BY <1>3, <2>2, <2>3 DEF SoundJob, Planning, NewFields, IsRequest
    <2> QED  BY <2>1, <2>4
  <1> QED  BY <1>2, <1>3

LEMMA SoiledIsSound ==
    ASSUME NEW j, SoundJob(j)
    PROVE  SoundJob([j EXCEPT !.clean = FALSE])
  <1>1. PICK n : n = [j EXCEPT !.clean = FALSE]  OBVIOUS
  <1>2. j \in Job  BY DEF SoundJob, Planning
  <1>5. NewFields(j, j.kind, j.part, j.step, j.preset, j.snap, j.row, j.plan, j.docs, j.clean)  BY <1>2, JobHas
  <1>3. NewFields(n, j.kind, j.part, j.step, j.preset, j.snap, j.row, j.plan, j.docs, FALSE)
    BY <1>1, <1>5 DEF NewFields
  <1>4. n \in Job  BY <1>2, <1>3, JobHas, JobIs DEF NewFields
  <1> QED  BY <1>1, <1>3, <1>4 DEF SoundJob, Planning, NewFields, IsRequest

LEMMA OrphanIsSound ==
    ASSUME NEW j, SoundJob(j), IsRequest(j), j.step = "write"
    PROVE  SoundJob(Orphan(j))
  <1>1. PICK n : n = Orphan(j)  OBVIOUS
  <1>2. j \in Job  BY DEF SoundJob, Planning
  <1>5. NewFields(j, j.kind, j.part, j.step, j.preset, j.snap, j.row, j.plan, j.docs, j.clean)  BY <1>2, JobHas
  <1>3. NewFields(n, "orphan", j.part, j.step, j.preset, j.snap, j.row, j.plan, j.docs, FALSE)
    BY <1>1, <1>5 DEF NewFields, Orphan
  <1>4. n \in Job  BY <1>2, <1>3, JobHas, JobIs DEF NewFields
  <1> QED  BY <1>1, <1>3, <1>4 DEF SoundJob, Planning, NewFields, IsRequest

LEMMA RebuildIsSound ==
    ASSUME NEW part \in Parts
    PROVE  SoundJob(Rebuild(part))
  <1>1. PICK n : n = Rebuild(part)  OBVIOUS
  <1>2. NewFields(n, "all", part, "read", None, None, None, << >>, {}, TRUE)
    BY <1>1 DEF Rebuild, NewJob, NewFields
  <1>3. n \in Job  BY <1>2, NothingPlanned, JobIs DEF NewFields
  <1> QED  BY <1>1, <1>2, <1>3, EmptyPlan DEF SoundJob, Planning, NewFields, IsRequest

LEMMA PresetSyncIsSound ==
    ASSUME NEW p \in Presets, NEW docs \in SUBSET Docs, \A d \in docs : d[1] = "watch"
    PROVE  SoundJob(PresetSync(p)) /\ SoundJob([PresetSync(p) EXCEPT !.step = "commit", !.docs = docs])
  <1>1. PICK n, m : n = PresetSync(p) /\ m = [PresetSync(p) EXCEPT !.step = "commit", !.docs = docs]  OBVIOUS
  <1>2. NewFields(n, "preset", "watch", "read", p, None, None, << >>, {}, TRUE)
    BY <1>1 DEF PresetSync, NewJob, NewFields
  <1>3. NewFields(m, "preset", "watch", "commit", p, None, None, << >>, docs, TRUE)
    BY <1>1 DEF PresetSync, NewJob, NewFields
  <1>4. n \in Job /\ m \in Job  BY <1>2, <1>3, NothingPlanned, JobIs DEF Parts, NewFields
  <1> QED  BY <1>1, <1>2, <1>3, <1>4, EmptyPlan DEF SoundJob, Planning, NewFields, IsRequest

\* The jobs of all threads have their types and fields that agree.
JobsTyped(list) ==
    list \in [Threads -> Job \cup {None}] /\ \A s \in Threads : list[s] # None => SoundJob(list[s])

\* One thread's job moves; those of the others stay or are soiled.
LEMMA MoveIsTyped ==
    ASSUME SyncTyped, NEW s \in Threads, NEW n, n = None \/ SoundJob(n),
           \/ SetJob(s, n)
           \/ jobs' = [Soiled EXCEPT ![s] = n]
           \/ \E part : jobs' = [SoiledIn(part) EXCEPT ![s] = n]
    PROVE  JobsTyped(jobs')
  <1>1. jobs' = [x \in Threads |-> jobs'[x]] /\ jobs'[s] = n
    BY DEF SyncTyped, SetJob, Soiled, SoiledIn
  <1>2. ASSUME NEW x \in Threads, x # s
        PROVE  jobs'[x] = None \/ jobs'[x] = jobs[x] \/ (jobs[x] # None /\ jobs'[x] = [jobs[x] EXCEPT !.clean = FALSE])
    BY <1>2 DEF SyncTyped, SetJob, Soiled, SoiledIn, Idle
  <1>3. ASSUME NEW x \in Threads  PROVE jobs'[x] = None \/ SoundJob(jobs'[x])
    BY <1>1, <1>2, SoiledIsSound DEF SyncTyped
  <1>4. \A x \in Threads : jobs'[x] \in Job \cup {None}  BY <1>3 DEF SoundJob, Planning
  <1> HIDE DEF JobsTyped
  <1>5. jobs' \in [Threads -> Job \cup {None}]  BY <1>1, <1>4
  <1> QED  BY <1>3, <1>5 DEF JobsTyped

LEMMA SoiledIsTyped == SyncTyped => JobsTyped(Soiled)
  <1> SUFFICES ASSUME SyncTyped  PROVE JobsTyped(Soiled)  OBVIOUS
  <1>1. ASSUME NEW x \in Threads  PROVE Soiled[x] = None \/ SoundJob(Soiled[x])
    BY SoiledIsSound DEF SyncTyped, Soiled, Idle
  <1>2. \A x \in Threads : Soiled[x] \in Job \cup {None}  BY <1>1 DEF SoundJob, Planning
  <1>3. Soiled \in [Threads -> Job \cup {None}]  BY <1>2 DEF Soiled
  <1> QED  BY <1>1, <1>3 DEF JobsTyped

\* A job's steps in the index and between its readings.
LEMMA JobStepTyped ==
    ASSUME SyncTyped, NEW s \in Threads, jobs[s] # None,
           \/ ReadAll(s) \/ ReadPreset(s) \/ ReadIds(s) \/ ReadActive(s) \/ Search(s) \/ Answer(s)
    PROVE  SyncTyped'
  <1>1. PICK j : j = jobs[s]  OBVIOUS
  <1>2. j \in Job /\ SoundJob(j) /\ NewFields(j, j.kind, j.part, j.step, j.preset, j.snap, j.row, j.plan, j.docs, j.clean)
        /\ j.plan \in Plan
    BY <1>1, JobHas DEF SyncTyped, SoundJob, Planning
  <1>3. UNCHANGED <<tables, index, faults>>
    BY DEF ReadAll, ReadPreset, ReadIds, ReadActive, Search, Answer
  <1>4. ASSUME NEW n, n = None \/ SoundJob(n), SetJob(s, n)  PROVE SyncTyped'
    <2>1. JobsTyped(jobs')  BY <1>4, MoveIsTyped
    <2> QED  BY <1>3, <2>1 DEF SyncTyped, JobsTyped, tables
  <1>5. CASE ReadAll(s)
    <2>1. PICK active : active = {d \in Docs : d[1] = j.part /\ Wanted(d) # None}  OBVIOUS
    <2>2. PICK plan : plan = [d \in active |-> Wanted(d)]  OBVIOUS
    <2>3. active \in SUBSET Docs /\ \A d \in active : d[1] = j.part  BY <2>1
    <2>4. plan \in [active -> Query]  BY <2>2, <2>3, WantedIs
    <2>5. plan \in Plan /\ DOMAIN plan = active  BY <2>3, <2>4, PlanIs
    <2>6. PICK m : m = [j EXCEPT !.step = "write", !.docs = active, !.plan = plan]  OBVIOUS
    <2>7. NewFields(m, j.kind, j.part, "write", j.preset, j.snap, j.row, plan, active, j.clean)
      BY <1>2, <2>6 DEF NewFields
    <2>8. m \in Job  BY <1>2, <2>3, <2>5, <2>7, JobHas, JobIs DEF NewFields
    <2>9. Planning(m)  BY <1>2, <2>3, <2>5, <2>7, <2>8 DEF SoundJob, Planning, NewFields, IsRequest
    <2>10. SetJob(s, Advance(m))  BY <1>1, <1>5, <2>1, <2>2, <2>6 DEF ReadAll
    <2>11. SoundJob(Advance(m))  BY <2>7, <2>9, AdvanceIsSound DEF NewFields
    <2> QED  BY <1>4, <2>10, <2>11
  <1>6. CASE ReadPreset(s)
    <2>1. PICK snap : snap = presets[j.preset]  OBVIOUS
    <2>2. j.kind = "preset" /\ j.step = "read"  BY <1>1, <1>6 DEF ReadPreset, At
    <2>3. snap \in PresetRow \cup {Unused, Gone}
      BY <1>2, <2>1, <2>2 DEF SoundJob, Planning, SyncTyped
    <2>4. PICK n : n = [j EXCEPT !.step = "ids", !.snap = snap]  OBVIOUS
    <2>5. NewFields(n, j.kind, j.part, "ids", j.preset, snap, j.row, j.plan, j.docs, j.clean)
      BY <1>2, <2>4 DEF NewFields
    <2>6. n \in Job  BY <1>2, <2>3, <2>5, JobHas, JobIs DEF NewFields
    <2>7. SoundJob(n)  BY <1>2, <2>2, <2>3, <2>5, <2>6 DEF SoundJob, Planning, NewFields, IsRequest
    <2>8. SetJob(s, n)  BY <1>1, <1>6, <2>1, <2>4 DEF ReadPreset
    <2> QED  BY <1>4, <2>7, <2>8
  <1>7. CASE ReadIds(s)
    <2>1. PICK on : on = (Live(j.snap) /\ j.snap.on)  OBVIOUS
    <2>2. PICK bound : bound = BoundTo(j.preset, j.part)  OBVIOUS
    <2>3. PICK query : query = IF on /\ j.part = "watch" THEN j.snap.filters ELSE None  OBVIOUS
    <2>4. PICK plan : plan = [d \in bound |-> query]  OBVIOUS
    <2>5. PICK step : step = IF on /\ j.part = "task" THEN "active" ELSE "write"  OBVIOUS
    <2>6. j.step = "ids" /\ j.kind = "preset" /\ j.snap \in PresetRow \cup {Unused, Gone}
      BY <1>1, <1>2, <1>7, JobHas DEF ReadIds, At, SoundJob, Planning
    <2>7. on => Live(j.snap) /\ j.snap.filters \in Filters  BY <2>1, <2>6 DEF Live, PresetRow
    <2>8. query \in Query  BY <2>3, <2>7 DEF Query
    <2>9. bound \in SUBSET Docs /\ \A d \in bound : d[1] = j.part  BY <2>2 DEF BoundTo
    <2>10. plan \in [bound -> Query]  BY <2>4, <2>8
    <2>11. plan \in Plan /\ DOMAIN plan = bound  BY <2>9, <2>10, PlanIs
    <2>12. PICK m : m = [j EXCEPT !.step = step, !.plan = plan]  OBVIOUS
    <2>13. NewFields(m, j.kind, j.part, step, j.preset, j.snap, j.row, plan, j.docs, j.clean)
      BY <1>2, <2>12 DEF NewFields
    <2>14. step \in {"active", "write"}  BY <2>5
    <2>15. m \in Job  BY <1>2, <2>11, <2>13, <2>14, JobHas, JobIs DEF NewFields
    <2>16. step = "active" => Live(j.snap)  BY <2>5, <2>7
    <2>17. Planning(m)
      BY <1>2, <2>6, <2>9, <2>11, <2>13, <2>14, <2>15, <2>16 DEF SoundJob, Planning, NewFields, IsRequest
    <2>18. SetJob(s, Advance(m))  BY <1>1, <1>7, <2>1, <2>2, <2>3, <2>4, <2>5, <2>12 DEF ReadIds
    <2>19. SoundJob(Advance(m))  BY <2>13, <2>14, <2>17, AdvanceIsSound DEF NewFields
    <2> QED  BY <1>4, <2>18, <2>19
  <1>8. CASE ReadActive(s)
    <2>1. PICK plan : plan = [d \in DOMAIN j.plan |-> QueryFor(j, d)]  OBVIOUS
    <2>2. j.step = "active" /\ j.snap \in PresetRow
      BY <1>1, <1>2, <1>8, JobHas DEF ReadActive, At, SoundJob, Planning, Live
    <2>3. \A d : QueryFor(j, d) \in Query  BY <2>2 DEF QueryFor, Query, PresetRow
    <2>4. DOMAIN j.plan \in SUBSET Docs  BY <1>2, PlanHas
    <2>5. plan \in [DOMAIN j.plan -> Query]  BY <2>1, <2>3
    <2>6. plan \in Plan /\ DOMAIN plan = DOMAIN j.plan  BY <2>4, <2>5, PlanIs
    <2>7. PICK n : n = [j EXCEPT !.step = "write", !.plan = plan]  OBVIOUS
    <2>8. NewFields(n, j.kind, j.part, "write", j.preset, j.snap, j.row, plan, j.docs, j.clean)
      BY <1>2, <2>7 DEF NewFields
    <2>9. n \in Job  BY <1>2, <2>6, <2>8, JobHas, JobIs DEF NewFields
    <2>10. SoundJob(n)  BY <1>2, <2>2, <2>6, <2>8, <2>9 DEF SoundJob, Planning, NewFields, IsRequest
    <2>11. SetJob(s, n)  BY <1>1, <1>8, <2>1, <2>7 DEF ReadActive
    <2> QED  BY <1>4, <2>10, <2>11
  <1>9. CASE Search(s)
    <2>1. PICK stale : stale = Stale(j.part, j.docs)  OBVIOUS
    <2>2. PICK plan : plan = [d \in stale |-> None]  OBVIOUS
    <2>3. stale \in SUBSET Docs /\ \A d \in stale : d[1] = j.part  BY <2>1 DEF Stale
    <2>4. plan \in [stale -> Query]  BY <2>2 DEF Query
    <2>5. plan \in Plan /\ DOMAIN plan = stale  BY <2>3, <2>4, PlanIs
    <2>6. PICK m : m = [j EXCEPT !.step = "purge", !.plan = plan]  OBVIOUS
    <2>7. NewFields(m, j.kind, j.part, "purge", j.preset, j.snap, j.row, plan, j.docs, j.clean)
      BY <1>2, <2>6 DEF NewFields
    <2>8. m \in Job  BY <1>2, <2>5, <2>7, JobHas, JobIs DEF NewFields
    <2>9. Planning(m)  BY <1>2, <2>3, <2>5, <2>7, <2>8 DEF SoundJob, Planning, NewFields, IsRequest
    <2>10. SetJob(s, Advance(m))  BY <1>1, <1>9, <2>1, <2>2, <2>6 DEF Search
    <2>11. SoundJob(Advance(m))  BY <2>7, <2>9, AdvanceIsSound DEF NewFields
    <2> QED  BY <1>4, <2>10, <2>11
  <1>10. CASE Answer(s)  BY <1>4, <1>10 DEF Answer
  <1> QED  BY <1>5, <1>6, <1>7, <1>8, <1>9, <1>10
LEMMA WriteTyped ==
    ASSUME SyncTyped, NEW s \in Threads, jobs[s] # None, NEW d \in Docs, Write(s, d)
    PROVE  SyncTyped'
  <1>1. PICK j : j = jobs[s]  OBVIOUS
  <1>2. j \in Job /\ SoundJob(j) /\ NewFields(j, j.kind, j.part, j.step, j.preset, j.snap, j.row, j.plan, j.docs, j.clean)
        /\ j.plan \in Plan
    BY <1>1, JobHas DEF SyncTyped, SoundJob, Planning
  <1>3. j.step \in {"write", "purge"} /\ d \in DOMAIN j.plan  BY <1>1 DEF Write, At
  <1>4. UNCHANGED <<tables, faults>>  BY DEF Write
  <1>5. CASE SetJob(s, None) /\ UNCHANGED index
    <2>1. JobsTyped(jobs')  BY <1>5, MoveIsTyped
    <2> QED  BY <1>4, <1>5, <2>1 DEF SyncTyped, JobsTyped, tables
  <1>6. CASE /\ index' = [index EXCEPT ![d] = j.plan[d]]
             /\ jobs' = [SoiledIn(j.part) EXCEPT ![s] =
                  Advance([j EXCEPT !.plan = [x \in DOMAIN j.plan \ {d} |-> j.plan[x]]])]
    <2>1. PICK rest : rest = DOMAIN j.plan \ {d}  OBVIOUS
    <2>2. PICK plan : plan = [x \in rest |-> j.plan[x]]  OBVIOUS
    <2>3. rest \in SUBSET Docs /\ (\A x \in rest : j.plan[x] \in Query) /\ j.plan[d] \in Query
      BY <1>2, <1>3, <2>1, PlanHas
    <2>4. plan \in [rest -> Query]  BY <2>2, <2>3
    <2>5. plan \in Plan /\ DOMAIN plan = rest  BY <2>3, <2>4, PlanIs
    <2>6. PICK m : m = [j EXCEPT !.plan = plan]  OBVIOUS
    <2>7. NewFields(m, j.kind, j.part, j.step, j.preset, j.snap, j.row, plan, j.docs, j.clean)
      BY <1>2, <2>6 DEF NewFields
    <2>8. m \in Job  BY <1>2, <2>5, <2>7, JobHas, JobIs DEF NewFields
    <2>9. Planning(m)  BY <1>2, <1>3, <2>1, <2>5, <2>7, <2>8 DEF SoundJob, Planning, NewFields, IsRequest
    <2>10. jobs' = [SoiledIn(j.part) EXCEPT ![s] = Advance(m)]  BY <1>6, <2>1, <2>2, <2>6
    <2>11. SoundJob(Advance(m))  BY <1>3, <2>7, <2>9, AdvanceIsSound DEF NewFields
    <2>12. JobsTyped(jobs')  BY <2>10, <2>11, MoveIsTyped
    <2>13. index' \in [Docs -> Query]  BY <1>6, <2>3 DEF SyncTyped
    <2> QED  BY <1>4, <2>12, <2>13 DEF SyncTyped, JobsTyped, tables
  <1> QED  BY <1>1, <1>5, <1>6 DEF Write

\* The commits of jobs: a preset and its watches go, a watch's row is written.
LEMMA CommitTyped ==
    ASSUME SyncTyped, NEW s \in Threads, jobs[s] # None, CommitPreset(s) \/ \E w \in Watches : CommitWatch(s, w)
    PROVE  SyncTyped'
  <1>1. PICK j : j = jobs[s]  OBVIOUS
  <1>2. j \in Job /\ SoundJob(j) /\ NewFields(j, j.kind, j.part, j.step, j.preset, j.snap, j.row, j.plan, j.docs, j.clean)
        /\ j.plan \in Plan
    BY <1>1, JobHas DEF SyncTyped, SoundJob, Planning
  <1>3. CASE CommitPreset(s)
    <2>1. PICK plan : plan = [d \in j.docs |-> None]  OBVIOUS
    <2>2. j.kind = "preset" /\ j.step = "commit" /\ j.docs \in SUBSET Docs  BY <1>1, <1>2, <1>3, JobHas DEF CommitPreset, At
    <2>3. plan \in [j.docs -> Query]  BY <2>1 DEF Query
    <2>4. plan \in Plan /\ DOMAIN plan = j.docs  BY <2>2, <2>3, PlanIs
    <2>5. PICK m : m = [j EXCEPT !.step = "write", !.plan = plan]  OBVIOUS
    <2>6. NewFields(m, j.kind, j.part, "write", j.preset, j.snap, j.row, plan, j.docs, j.clean)
      BY <1>2, <2>5 DEF NewFields
    <2>7. m \in Job  BY <1>2, <2>4, <2>6, JobHas, JobIs DEF NewFields
    <2>8. Planning(m)  BY <1>2, <2>2, <2>4, <2>6, <2>7 DEF SoundJob, Planning, NewFields, IsRequest
    <2>9. jobs' = [Soiled EXCEPT ![s] = Advance(m)]  BY <1>1, <1>3, <2>1, <2>5 DEF CommitPreset
    <2>10. SoundJob(Advance(m))  BY <2>6, <2>8, AdvanceIsSound DEF NewFields
    <2>11. JobsTyped(jobs')  BY <2>9, <2>10, MoveIsTyped
    <2>12. presets' \in [Presets -> PresetRow \cup {Unused, Gone}] /\ watches' \in [Watches -> WatchRow \cup {Unused, Gone}]
      BY <1>3 DEF CommitPreset, SyncTyped
    <2> QED  BY <1>3, <2>11, <2>12 DEF CommitPreset, SyncTyped, JobsTyped
  <1>4. ASSUME NEW w \in Watches, CommitWatch(s, w)  PROVE SyncTyped'
    <2>1. CASE SetJob(s, None) /\ UNCHANGED watches
      <3>1. JobsTyped(jobs')  BY <2>1, MoveIsTyped
      <3> QED  BY <1>4, <2>1, <3>1 DEF CommitWatch, SyncTyped, JobsTyped
    <2>2. CASE watches' = [watches EXCEPT ![w] = j.row] /\ jobs' = [Soiled EXCEPT ![s] = [j EXCEPT !.step = "done"]]
      <3>1. IsRequest(j) /\ j.step = "commit" /\ j.row \in WatchRow \cup {Gone}
        BY <1>1, <1>2, <1>4 DEF CommitWatch, At, SoundJob, Planning
      <3>2. PICK n : n = [j EXCEPT !.step = "done"]  OBVIOUS
      <3>3. NewFields(n, j.kind, j.part, "done", j.preset, j.snap, j.row, j.plan, j.docs, j.clean)
        BY <1>2, <3>2 DEF NewFields
      <3>4. n \in Job  BY <1>2, <3>3, JobHas, JobIs DEF NewFields
      <3>5. SoundJob(n)  BY <1>2, <3>1, <3>3, <3>4 DEF SoundJob, Planning, NewFields, IsRequest
      <3>6. JobsTyped(jobs')  BY <2>2, <3>2, <3>5, MoveIsTyped
      <3>7. watches' \in [Watches -> WatchRow \cup {Unused, Gone}]  BY <2>2, <3>1 DEF SyncTyped
      <3> QED  BY <1>4, <3>6, <3>7 DEF CommitWatch, SyncTyped, JobsTyped
    <2> QED  BY <1>1, <1>4, <2>1, <2>2 DEF CommitWatch
  <1> QED  BY <1>3, <1>4

\* A request of a watch begins with its query.
LEMMA RequestIsSound ==
    ASSUME NEW kind \in {"create", "update", "delete"}, NEW w \in Watches, NEW row \in WatchRow \cup {Gone},
           NEW D \in SUBSET {<<"watch", w>>}, NEW plan \in [D -> Query]
    PROVE  SoundJob(Request(kind, w, row, plan))
  <1>1. PICK m : m = [NewJob(kind, "watch", "write") EXCEPT !.row = row, !.plan = plan, !.docs = {<<"watch", w>>}]
    OBVIOUS
  <1>2. NewFields(m, kind, "watch", "write", None, None, row, plan, {<<"watch", w>>}, TRUE)
    BY <1>1 DEF NewJob, NewFields
  <1>3. {<<"watch", w>>} \in SUBSET Docs /\ D \in SUBSET Docs  BY DEF Docs
  <1>4. plan \in Plan /\ DOMAIN plan = D  BY <1>3, PlanIs
  <1>5. m \in Job  BY <1>2, <1>3, <1>4, JobIs DEF NewFields, Parts
  <1>6. Planning(m)  BY <1>2, <1>4, <1>5 DEF Planning, NewFields, IsRequest
  <1>7. SoundJob(Advance(m))  BY <1>2, <1>6, AdvanceIsSound DEF NewFields
  <1> QED  BY <1>1, <1>7 DEF Request

LEMMA EditTyped ==
    ASSUME SyncTyped, NEW s \in Threads, EditNext(s)
    PROVE  SyncTyped'
  <1>1. ASSUME NEW t \in Tasks, NEW row \in TaskRow \cup {Gone}, SaveTask(s, t, row)  PROVE SyncTyped'
    <2>1. SoundJob(Rebuild("task"))  BY RebuildIsSound DEF Parts
    <2>2. JobsTyped(jobs')  BY <1>1, <2>1, MoveIsTyped DEF SaveTask
    <2> QED  BY <1>1, <2>2 DEF SaveTask, SyncTyped, JobsTyped
  <1>2. ASSUME NEW d \in Devices, NEW on \in BOOLEAN, UpdateDevice(s, d, on)  PROVE SyncTyped'
    <2>1. SoundJob(Rebuild("task"))  BY RebuildIsSound DEF Parts
    <2>2. JobsTyped(jobs')  BY <1>2, <2>1, MoveIsTyped DEF UpdateDevice
    <2> QED  BY <1>2, <2>2 DEF UpdateDevice, SyncTyped, JobsTyped
  <1>3. ASSUME NEW p \in Presets, NEW row \in PresetRow, UpdatePreset(s, p, row)  PROVE SyncTyped'
    <2>1. PICK docs \in SUBSET Docs : docs = {}  OBVIOUS
    <2>2. \A d \in docs : d[1] = "watch"  BY <2>1
    <2>3. SoundJob(PresetSync(p))  BY <2>2, PresetSyncIsSound
    <2>4. JobsTyped(jobs')  BY <1>3, <2>3, MoveIsTyped DEF UpdatePreset
    <2> QED  BY <1>3, <2>4 DEF UpdatePreset, SyncTyped, JobsTyped
  <1>4. ASSUME NEW p \in Presets, DeletePreset(s, p)  PROVE SyncTyped'
    <2>1. PICK docs : docs = {d \in Docs : /\ d[1] = "watch" /\ Live(RowOf(d)) /\ RowOf(d).preset = p}  OBVIOUS
    <2>2. docs \in SUBSET Docs /\ \A d \in docs : d[1] = "watch"  BY <2>1
    <2>3. PICK n : n = [PresetSync(p) EXCEPT !.step = "commit", !.docs = docs]  OBVIOUS
    <2>4. SoundJob(n)  BY <2>2, <2>3, PresetSyncIsSound
    <2>5. SetJob(s, n)  BY <1>4, <2>1, <2>3 DEF DeletePreset
    <2>6. JobsTyped(jobs')  BY <2>4, <2>5, MoveIsTyped
    <2> QED  BY <1>4, <2>6 DEF DeletePreset, SyncTyped, JobsTyped, tables
  <1>5. ASSUME NEW w \in Watches, NEW row \in WatchRow, CreateWatch(s, w, row)  PROVE SyncTyped'
    <2>1. PICK D : D = IF row.realtime THEN {<<"watch", w>>} ELSE {}  OBVIOUS
    <2>2. PICK q : q = presets[row.preset].filters  OBVIOUS
    <2>3. PICK plan : plan = [d \in D |-> q]  OBVIOUS
    <2>4. q \in Query  BY <1>5, <2>2 DEF CreateWatch, Usable, Live, SyncTyped, WatchRow, PresetRow, Query
    <2>5. D \in SUBSET {<<"watch", w>>} /\ plan \in [D -> Query]  BY <2>1, <2>3, <2>4
    <2>6. SoundJob(Request("create", w, row, plan))  BY <2>5, RequestIsSound
    <2>7. SetJob(s, Request("create", w, row, plan))  BY <1>5, <2>1, <2>2, <2>3 DEF CreateWatch
    <2>8. JobsTyped(jobs')  BY <2>6, <2>7, MoveIsTyped
    <2> QED  BY <1>5, <2>8 DEF CreateWatch, SyncTyped, JobsTyped
  <1>6. ASSUME NEW w \in Watches, NEW row \in WatchRow, UpdateWatch(s, w, row)  PROVE SyncTyped'
    <2>1. PICK q : q = IF row.realtime THEN presets[row.preset].filters ELSE None  OBVIOUS
    <2>2. PICK plan : plan = [d \in {<<"watch", w>>} |-> q]  OBVIOUS
    <2>3. q \in Query  BY <1>6, <2>1 DEF UpdateWatch, Usable, Live, SyncTyped, WatchRow, PresetRow, Query
    <2>4. plan \in [{<<"watch", w>>} -> Query]  BY <2>2, <2>3
    <2>5. SoundJob(Request("update", w, row, plan))  BY <2>4, RequestIsSound
    <2>6. SetJob(s, Request("update", w, row, plan))  BY <1>6, <2>1, <2>2 DEF UpdateWatch
    <2>7. JobsTyped(jobs')  BY <2>5, <2>6, MoveIsTyped
    <2> QED  BY <1>6, <2>7 DEF UpdateWatch, SyncTyped, JobsTyped, tables
  <1>7. ASSUME NEW w \in Watches, DeleteWatch(s, w)  PROVE SyncTyped'
    <2>1. PICK plan : plan = [d \in {<<"watch", w>>} |-> None]  OBVIOUS
    <2>2. plan \in [{<<"watch", w>>} -> Query]  BY <2>1 DEF Query
    <2>3. SoundJob(Request("delete", w, Gone, plan))  BY <2>2, RequestIsSound
    <2>4. SetJob(s, Request("delete", w, Gone, plan))  BY <1>7, <2>1 DEF DeleteWatch
    <2>5. JobsTyped(jobs')  BY <2>3, <2>4, MoveIsTyped
    <2> QED  BY <1>7, <2>5 DEF DeleteWatch, SyncTyped, JobsTyped, tables
  <1> QED  BY <1>1, <1>2, <1>3, <1>4, <1>5, <1>6, <1>7 DEF EditNext, CreateTask, UpdateTask, DeleteTask

LEMMA SyncStepTyped == SyncTyped /\ [SyncNext]_syncVars => SyncTyped'
  <1> SUFFICES ASSUME SyncTyped, [SyncNext]_syncVars  PROVE SyncTyped'  OBVIOUS
  <1>1. ASSUME NEW p \in Presets, NEW f \in Filters, CreatePreset(p, f)  PROVE SyncTyped'
    <2>1. JobsTyped(jobs')  BY <1>1, SoiledIsTyped DEF CreatePreset
    <2>2. presets' \in [Presets -> PresetRow \cup {Unused, Gone}]
      BY <1>1 DEF CreatePreset, SyncTyped, PresetRow
    <2> QED  BY <1>1, <2>1, <2>2 DEF CreatePreset, SyncTyped, JobsTyped
  <1>2. ASSUME NEW s \in Threads, JobStep(s)  PROVE SyncTyped'
    <2>1. jobs[s] # None
      BY <1>2 DEF JobStep, ReadAll, ReadPreset, ReadIds, ReadActive, Search, Write, CommitPreset, CommitWatch, Answer, At
    <2> QED  BY <1>2, <2>1, JobStepTyped, WriteTyped, CommitTyped DEF JobStep
  <1>3. ASSUME NEW s \in Threads, Periodic(s)  PROVE SyncTyped'
    <2>1. SoundJob(Rebuild("task"))  BY RebuildIsSound DEF Parts
    <2>2. JobsTyped(jobs')  BY <1>3, <2>1, MoveIsTyped DEF Periodic
    <2> QED  BY <1>3, <2>2 DEF Periodic, SyncTyped, JobsTyped, tables
  <1>4. ASSUME NEW s \in Threads, Restart(s)  PROVE SyncTyped'
    <2>1. ASSUME NEW x \in Threads  PROVE jobs'[x] = None \/ SoundJob(jobs'[x])
      <3>1. SoundJob(Rebuild("watch"))  BY RebuildIsSound DEF Parts
      <3>2. jobs[x] # None => SoundJob(jobs[x])  BY DEF SyncTyped
      <3>3. jobs[x] # None /\ IsRequest(jobs[x]) /\ jobs[x].step = "write" => SoundJob(Orphan(jobs[x]))
        BY <3>2, OrphanIsSound
      <3> QED  BY <1>4, <3>1, <3>2, <3>3 DEF Restart, Idle
    <2>2. \A x \in Threads : jobs'[x] \in Job \cup {None}  BY <2>1 DEF SoundJob, Planning
    <2>3. jobs' \in [Threads -> Job \cup {None}]  BY <1>4, <2>2 DEF Restart
    <2> QED  BY <1>4, <2>1, <2>3 DEF Restart, SyncTyped, tables
  <1>5. ASSUME NEW s \in Threads, NEW w \in Watches, TimeOut(s, w)  PROVE SyncTyped'
    <2>1. SoundJob(Orphan(jobs[s]))  BY <1>5, OrphanIsSound DEF TimeOut, At, SyncTyped
    <2>2. JobsTyped(jobs')  BY <1>5, <2>1, MoveIsTyped DEF TimeOut
    <2>3. faults' \in 0..MaxFaults  BY <1>5, PercolatorAssumption DEF TimeOut, SyncTyped
    <2> QED  BY <1>5, <2>2, <2>3 DEF TimeOut, SyncTyped, JobsTyped, tables
  <1>6. ASSUME NEW s \in Threads, Fail(s)  PROVE SyncTyped'
    <2>1. JobsTyped(jobs')  BY <1>6, MoveIsTyped DEF Fail
    <2>2. faults' \in 0..MaxFaults  BY <1>6, PercolatorAssumption DEF Fail, SyncTyped
    <2> QED  BY <1>6, <2>1, <2>2 DEF Fail, SyncTyped, JobsTyped, tables
  <1>7. CASE UNCHANGED syncVars  BY <1>7 DEF syncVars, tables, SyncTyped
  <1> QED  BY <1>1, <1>2, <1>3, <1>4, <1>5, <1>6, <1>7, EditTyped DEF SyncNext

\* The rows, the queries and the jobs have their types; a job that is about to write has
\* something to write, on its own part of the index.
THEOREM SyncTypesHold == SyncSpec => []SyncTypeOK
  <1>1. SyncInit => SyncTyped
    BY PercolatorAssumption DEF SyncInit, SyncTyped, Query
  <1>2. SyncTyped => SyncTypeOK
    <2> SUFFICES ASSUME SyncTyped  PROVE SyncTypeOK  OBVIOUS
    <2>1. \A s \in Threads : ~Idle(s) =>
             /\ jobs[s].step \in {"active", "write", "purge"} <=> DOMAIN jobs[s].plan # {}
             /\ \A d \in DOMAIN jobs[s].plan : d[1] = jobs[s].part
      BY DEF SyncTyped, SoundJob, Planning, Idle
    <2> QED  BY <2>1 DEF SyncTyped, SyncTypeOK, Query
  <1> QED  BY <1>1, <1>2, SyncStepTyped, PTL DEF SyncSpec
=============================================================================
