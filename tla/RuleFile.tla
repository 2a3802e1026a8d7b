------------------------------ MODULE RuleFile ------------------------------
(***************************************************************************)
(* The file local.rules: background tasks append generated rules, a healing*)
(* pass lets Suricata test the file and deletes the lines it refuses, and  *)
(* Suricata is told to load it.  One lock of the module guards writing and *)
(* healing; people edit the file with no lock; each analyzer instance has  *)
(* its own memory of SIDs and features and its own reload thread, and an   *)
(* earlier instance lives on with the tasks that were started under it.    *)
(***************************************************************************)
EXTENDS Integers, Sequences, SequencesExt, FiniteSetsExt, Functions

CONSTANTS
    Rules,          \* generated rules that passed the review
    HandRules,      \* rules people add by hand
    Contents,       \* of each rule: its normalised content values
    Valid,          \* rules Suricata's parser accepts
    HandSid,        \* of each rule added by hand: its SID
    Tasks,          \* background tasks of analyses
    Batch,          \* of each task: the rules it is to write, in order
    None,           \* no value
    SID_MIN,        \* the first SID given to a generated rule
    ROUNDS,         \* healing rounds
    MaxInstances,   \* bound: analyzer instances over a behaviour
    MaxUpsets       \* bound: edits by hand, failed commands, reads and writes, restarts

Instances == 1..MaxInstances
\* Tasks, and the reload thread of each instance under the instance's number.
Workers == Tasks \cup Instances
Part == [rule: Rules \cup HandRules, sid: Nat, hand: BOOLEAN]
\* A line holds two rules if the earlier one was left without a newline.
Line == [parts: Seq(Part), comment: BOOLEAN, ended: BOOLEAN]
Memory == [sids: SUBSET Nat,
           features: SUBSET SUBSET (UNION {Contents[r] : r \in Rules \cup HandRules})]
At == {"new", "write", "append", "heal", "test", "delete", "reload", "sleep", "done"}

ASSUME FileAssumption ==
    /\ Rules \cap HandRules = {} /\ IsFiniteSet(HandRules)
    /\ Valid \subseteq Rules \cup HandRules
    /\ HandSid \in [HandRules -> Nat] /\ SID_MIN \in Nat
    /\ None \notin Workers /\ Tasks \cap Instances = {}
    /\ Batch \in [Tasks -> Seq(Rules) \ {<< >>}]
    /\ ROUNDS \in Nat \ {0} /\ MaxInstances \in Nat \ {0}
    /\ MaxUpsets \in Nat

VARIABLES
    file,       \* the lines of local.rules
    loaded,     \* the rules Suricata runs
    lock,       \* who holds _write_lock, or None
    current,    \* the instance in use; those before it still serve old tasks
    mem,        \* memory of each instance's RuleWriter
    changed,    \* the reload threads whose last_mtime is not the file's
    worker,     \* tasks and reload threads
    edits,
    faults,
    ioErrors,   \* reads and rewrites of the whole file that failed
    blind,      \* history: SIDs given out although the file could not be scanned again
    unread      \* history: some memory was loaded only up to a line that could not be read

reading == <<ioErrors, blind, unread>>
vars == <<file, loaded, lock, current, mem, changed, worker, edits, faults, reading>>

-----------------------------------------------------------------------------
(* Reading the file                                                        *)

Live(f) == {n \in DOMAIN f : ~f[n].comment}
\* Only the first `sid:' of a line is read.
FileSids(f) == {f[n].parts[1].sid : n \in Live(f)}
Feature(line) == UNION {Contents[line.parts[k].rule] : k \in DOMAIN line.parts}
Load(f) == [sids |-> FileSids(f), features |-> {Feature(f[n]) : n \in Live(f)} \ {{}}]

\* Suricata refuses a broken rule, two rules on a line, and a SID it has read before.
Good(f, n) ==
    /\ n \in Live(f)
    /\ Len(f[n].parts) = 1
    /\ f[n].parts[1].rule \in Valid
    /\ \A k \in Live(f) : k < n => f[k].parts[1].sid # f[n].parts[1].sid
Refused(f) == Live(f) \ {n \in DOMAIN f : Good(f, n)}
Loadable(f) == {f[n].parts[1] : n \in {k \in DOMAIN f : Good(f, k)}}

Idle(at) == [at |-> at, inst |-> 1, todo |-> << >>, sid |-> 0, written |-> FALSE, round |-> 0,
             bad |-> {}, clean |-> TRUE]

Init ==
    /\ \E h \in SUBSET HandRules : \E s \in SetToSeqs(h) :
          file = [n \in DOMAIN s |-> [parts |-> << [rule |-> s[n], sid |-> HandSid[s[n]], hand |-> TRUE] >>,
                                      comment |-> FALSE, ended |-> TRUE]]
    /\ loaded = Loadable(file) /\ lock = None
    /\ current = 1 /\ changed = {}
    /\ worker = [w \in Workers |-> Idle(CASE w \in Tasks -> "new" [] w = 1 -> "sleep" [] OTHER -> "done")]
    /\ edits = 0 /\ faults = 0 /\ blind = {}
    /\ \E k \in 0..Len(file) :
          /\ mem = << Load(SubSeq(file, 1, k)) >> /\ unread = (k < Len(file))
          /\ IF unread THEN MaxUpsets > 0 /\ ioErrors = 1 ELSE ioErrors = 0

Quiet == edits + faults + ioErrors < MaxUpsets
Fault == Quiet /\ faults' = faults + 1
IoError == Quiet /\ ioErrors' = ioErrors + 1
\* Of f, the first k lines are read; what had been read before the error is kept.
ReadUpTo(f, k) == IF k = Len(f) THEN UNCHANGED <<ioErrors, unread>> ELSE IoError /\ unread' = TRUE
Inst(w) == IF w \in Tasks THEN worker[w].inst ELSE w

-----------------------------------------------------------------------------
(* Writing                                                                 *)

\* A background task starts with the instance of that moment; a rule for the alert
\* itself is a batch of one, rules for missed attacks are a batch of several.
StartTask(t) ==
    /\ worker[t].at = "new"
    /\ worker' = [worker EXCEPT ![t].at = "write", ![t].inst = current, ![t].todo = Batch[t]]
    /\ UNCHANGED <<file, loaded, lock, current, mem, changed, edits, faults, reading>>

\* After the last rule of a batch the file is reloaded if any was written.
Onward(todo, written) ==
    CASE todo # << >> -> "write" [] todo = << >> /\ written -> "heal" [] OTHER -> "done"

\* A rule without content equals no other: its text carries the SID it came with.
IsDuplicate(i, rule) == Contents[rule] # {} /\ Contents[rule] \in mem[i].features

Skip(t) ==
    /\ worker[t].at = "write" /\ lock = None
    /\ IsDuplicate(worker[t].inst, Head(worker[t].todo))
    /\ LET todo == Tail(worker[t].todo)
       IN  worker' = [worker EXCEPT ![t].todo = todo, ![t].at = Onward(todo, worker[t].written)]
    /\ UNCHANGED <<file, loaded, lock, current, mem, changed, edits, faults, reading>>

\* The SIDs in the file are merged into the memory, never taken out.
NextSid(sids) == IF sids = {} THEN SID_MIN ELSE Max(sids) + 1
\* Mutation: the file is not scanned again, the SIDs in memory are taken for all there are.
AllocateFromMemory(t) ==
    /\ worker[t].at = "write" /\ lock = None
    /\ LET i == worker[t].inst
       IN  /\ ~IsDuplicate(i, Head(worker[t].todo))
           /\ worker' = [worker EXCEPT ![t].at = "append", ![t].sid = NextSid(mem[i].sids)]
    /\ lock' = t
    /\ UNCHANGED <<file, loaded, current, mem, changed, edits, faults, reading>>
Allocate(t) ==
    /\ worker[t].at = "write" /\ lock = None
    /\ LET i == worker[t].inst
           sids == mem[i].sids \cup FileSids(file)
       IN  /\ ~IsDuplicate(i, Head(worker[t].todo))
           /\ mem' = [mem EXCEPT ![i].sids = sids]
           /\ worker' = [worker EXCEPT ![t].at = "append", ![t].sid = NextSid(sids)]
    /\ lock' = t
    /\ UNCHANGED <<file, loaded, current, changed, edits, faults, reading>>

\* The file cannot be scanned again: the SID is the next one that the memory does not have.
AllocateBlind(t) ==
    /\ worker[t].at = "write" /\ lock = None
    /\ LET i == worker[t].inst
           sid == NextSid(mem[i].sids)
       IN  /\ ~IsDuplicate(i, Head(worker[t].todo))
           /\ worker' = [worker EXCEPT ![t].at = "append", ![t].sid = sid]
           /\ blind' = blind \cup {sid}
    /\ lock' = t
    /\ IoError
    /\ UNCHANGED <<file, loaded, current, mem, changed, edits, faults, unread>>

\* open(.., "a"): a last line without a newline is continued.
Appended(f, part) ==
    IF f # << >> /\ ~Last(f).ended
    THEN [f EXCEPT ![Len(f)].parts = Append(@, part), ![Len(f)].ended = TRUE]
    ELSE Append(f, [parts |-> << part >>, comment |-> FALSE, ended |-> TRUE])

\* Mutation: the features of a written rule are not remembered.
RememberSid(m, part) == [m EXCEPT !.sids = @ \cup {part.sid}]
Remember(m, part) == [sids |-> m.sids \cup {part.sid},
                      features |-> m.features \cup ({Contents[part.rule]} \ {{}})]

AppendRule(t) ==
    /\ worker[t].at = "append"
    /\ LET w == worker[t]
           part == [rule |-> Head(w.todo), sid |-> w.sid, hand |-> FALSE]
       IN  /\ file' = Appended(file, part)
           /\ mem' = [mem EXCEPT ![w.inst] = Remember(@, part)]
           /\ worker' = [worker EXCEPT ![t].todo = Tail(w.todo), ![t].sid = 0,
                                       ![t].written = TRUE,
                                       ![t].at = Onward(Tail(w.todo), TRUE)]
    /\ changed' = 1..current
    /\ lock' = None
    /\ UNCHANGED <<loaded, current, edits, faults, reading>>

\* The write raised: the rule is reported as not written.
AppendFails(t) ==
    /\ worker[t].at = "append"
    /\ LET todo == Tail(worker[t].todo)
       IN  worker' = [worker EXCEPT ![t].todo = todo, ![t].sid = 0,
                                   ![t].at = Onward(todo, worker[t].written)]
    /\ lock' = None
    /\ Fault
    /\ UNCHANGED <<file, loaded, current, mem, changed, edits, reading>>

-----------------------------------------------------------------------------
(* Healing and loading                                                     *)

\* The reload thread notes the modification time before it reloads.
Tick(i) ==
    /\ worker[i].at = "sleep" /\ i \in changed
    /\ changed' = changed \ {i}
    /\ worker' = [worker EXCEPT ![i].at = "heal"]
    /\ UNCHANGED <<file, loaded, lock, current, mem, edits, faults, reading>>

\* suricata -T names every line it refuses.  The first test of a pass takes the lock.
Tested(w) ==
    LET bad == Refused(file)
    IN  IF bad = {}
        THEN /\ worker' = [worker EXCEPT ![w].at = "reload", ![w].round = 0]
             /\ lock' = None
        ELSE /\ worker' = [worker EXCEPT ![w].at = "delete", ![w].bad = bad]
             /\ lock' = w

\* Mutation: the lock is not waited for.
MayTestUnlocked(w) == worker[w].at \in {"heal", "test"}
MayTest(w) == worker[w].at \in {"heal", "test"} /\ lock \in {None, w}

Test(w) ==
    /\ MayTest(w)
    /\ Tested(w)
    /\ UNCHANGED <<file, loaded, current, mem, changed, edits, faults, reading>>

\* The command fails and names no line: on to loading.
TestFails(w) ==
    /\ MayTest(w)
    /\ worker' = [worker EXCEPT ![w].at = "reload", ![w].round = 0]
    /\ lock' = None
    /\ Fault
    /\ UNCHANGED <<file, loaded, current, mem, changed, edits, reading>>

\* The file is read again and the lines with the named numbers are left out.
Kept(f, bad) ==
    LET keep == {n \in DOMAIN f : n \notin bad \/ f[n].comment}
    IN  [k \in 1..Cardinality(keep) |-> f[CHOOSE n \in keep : Cardinality({m \in keep : m <= n}) = k]]
DeleteBadRules(w) ==
    /\ worker[w].at = "delete"
    /\ LET kept == Kept(file, worker[w].bad)
           again == kept # file /\ worker[w].round + 1 < ROUNDS
       IN  /\ file' = kept
           /\ changed' = IF kept # file THEN 1..current ELSE changed
           /\ IF kept # file
              THEN \E k \in 0..Len(kept) : /\ mem' = [mem EXCEPT ![Inst(w)] = Load(SubSeq(kept, 1, k))]
                                          /\ ReadUpTo(kept, k)
              ELSE UNCHANGED <<mem, ioErrors, unread>>
           /\ lock' = IF again THEN w ELSE None
           /\ worker' = [worker EXCEPT ![w].at = IF again THEN "test" ELSE "reload",
                                       ![w].round = IF again THEN @ + 1 ELSE 0,
                                       ![w].bad = {}, ![w].clean = TRUE]
    /\ UNCHANGED <<loaded, current, edits, faults, blind>>

\* The file cannot be read, or the rewrite breaks off after some lines: no line counts as
\* deleted, so there is no further round, and the memory is not loaded again.
DeletionFails(w) ==
    /\ worker[w].at = "delete"
    /\ LET kept == Kept(file, worker[w].bad)
       IN  \/ UNCHANGED <<file, changed>>
           \/ kept # file /\ changed' = 1..current /\ \E k \in 0..Len(kept) : file' = SubSeq(kept, 1, k)
    /\ worker' = [worker EXCEPT ![w].at = "reload", ![w].round = 0, ![w].bad = {}, ![w].clean = TRUE]
    /\ lock' = None
    /\ IoError
    /\ UNCHANGED <<loaded, current, mem, edits, faults, blind, unread>>

\* Mutation: a reload thread ends after its first reload.
FinishedForGood(w) == Idle("done")
\* A task ends, a reload thread sleeps again.
Finished(w) == Idle(IF w \in Tasks THEN "done" ELSE "sleep")

\* suricatasc -c reload-rules
Reload(w) ==
    /\ worker[w].at = "reload"
    /\ loaded' = Loadable(file)
    /\ worker' = [worker EXCEPT ![w] = Finished(w)]
    /\ UNCHANGED <<file, lock, current, mem, changed, edits, faults, reading>>

ReloadFails(w) ==
    /\ worker[w].at = "reload"
    /\ worker' = [worker EXCEPT ![w] = Finished(w)]
    /\ Fault
    /\ UNCHANGED <<file, loaded, lock, current, mem, changed, edits, reading>>

-----------------------------------------------------------------------------
(* The surroundings                                                        *)

\* A new instance after the model's configuration changed; the old thread goes on.
ReloadAnalyzer ==
    /\ current < MaxInstances
    /\ current' = current + 1
    /\ \E k \in 0..Len(file) : mem' = Append(mem, Load(SubSeq(file, 1, k))) /\ ReadUpTo(file, k)
    /\ worker' = [worker EXCEPT ![current + 1] = Idle("sleep")]
    /\ UNCHANGED <<file, loaded, lock, changed, edits, faults, blind>>

\* The process dies and starts again: only the file and Suricata remain.  A start that
\* cannot read the whole file counts once.
Restart ==
    /\ current < MaxInstances
    /\ current' = current + 1
    /\ \E k \in 0..Len(file) : /\ mem' = Append(mem, Load(SubSeq(file, 1, k)))
                             /\ unread' = (unread \/ k < Len(file))
    /\ lock' = None
    /\ worker' = [w \in Workers |->
                    CASE w = current + 1 -> Idle("sleep")
                      [] w \in Tasks /\ worker[w].at = "new" -> worker[w]
                      [] OTHER -> Idle("done")]
    /\ Fault
    /\ UNCHANGED <<file, loaded, changed, edits, ioErrors, blind>>

Edit ==
    /\ Quiet /\ edits' = edits + 1
    /\ changed' = 1..current
    /\ worker' = [w \in Workers |-> [worker[w] EXCEPT !.clean = worker[w].at # "delete"]]
    /\ UNCHANGED <<loaded, lock, current, mem, faults, reading>>

\* Somebody adds a line, perhaps a comment, perhaps without its newline.
HandAdd(h, comment, ended) ==
    /\ \A n \in DOMAIN file : \A k \in DOMAIN file[n].parts : file[n].parts[k].rule # h
    /\ file' = Append([n \in DOMAIN file |-> [file[n] EXCEPT !.ended = TRUE]],
                      [parts |-> << [rule |-> h, sid |-> HandSid[h], hand |-> TRUE] >>,
                       comment |-> comment, ended |-> ended])
    /\ Edit

HandRemove(n) ==
    /\ n \in DOMAIN file
    /\ file' = RemoveAt(file, n)
    /\ Edit

-----------------------------------------------------------------------------
Heal(w) == Test(w) \/ DeleteBadRules(w) \/ Reload(w)
Write(t) == Skip(t) \/ Allocate(t) \/ AppendRule(t)

Next ==
    \/ \E t \in Tasks : StartTask(t) \/ Write(t) \/ AllocateBlind(t) \/ AppendFails(t)
    \/ \E i \in 1..current : Tick(i)
    \/ \E w \in Workers : Heal(w) \/ TestFails(w) \/ DeletionFails(w) \/ ReloadFails(w)
    \/ ReloadAnalyzer \/ Restart
    \/ \E h \in HandRules, c, e \in BOOLEAN : HandAdd(h, c, e)
    \/ \E n \in 1..Len(file) : HandRemove(n)

Spec == Init /\ [][Next]_vars

\* Threads run on, and a reload thread wakes every 30 seconds; nobody has to start a
\* task, to edit the file or to change the configuration.
Fairness ==
    /\ \A t \in Tasks : WF_vars(Write(t))
    /\ \A w \in Workers : WF_vars(Heal(w))
    /\ \A i \in Instances : WF_vars(i <= current /\ Tick(i))
FairSpec == Spec /\ Fairness
-----------------------------------------------------------------------------
(* Properties                                                              *)

\* Whichever instances wrote them, and whatever was deleted in between, two generated
\* rules that Suricata can read have the same SID only if it was given out when the file
\* could not be scanned again, by an instance that is not the only one or whose memory was
\* not loaded to the end (the lock and the rescan in rule_writer.py, _next_sid).
GeneratedSidsDiffer ==
    \A m, n \in Live(file) :
        LET p == file[m].parts[1]  q == file[n].parts[1]
        IN  m # n /\ ~p.hand /\ ~q.hand /\ p.sid = q.sid => p.sid \in blind /\ (current > 1 \/ unread)

\* Healing takes away no rule that Suricata accepts, although it deletes by line number and
\* several threads heal: unless somebody edits the file by hand meanwhile, or the rewrite
\* breaks off, and then the memory is not loaded again.
HealingSparesGoodRules ==
    [][\A w \in Workers : worker[w].at = "delete" /\ worker'[w].at # "delete" /\ worker[w].clean
          => \/ Loadable(file) \subseteq Loadable(file')
             \/ ioErrors' > ioErrors /\ mem' = mem]_vars

\* Once nobody writes or edits any more, Suricata runs what the file says, if no
\* command failed and the analyzer did not restart (analyzer.py, reload_loop).
FileGetsLoaded == <>[](faults > 0 \/ loaded = Loadable(file))

\* rule_writer.py, write_rule: no two generated rules look for the same contents, as long
\* as one instance of the analyzer wrote them and its memory was loaded to the end (the
\* features are compared under the lock, but each instance has its own).
NoFeatureTwice ==
    current = 1 /\ ~unread =>
        \A m, n \in Live(file) :
            LET p == file[m].parts[1]  q == file[n].parts[1]
            IN  m # n /\ ~p.hand /\ ~q.hand /\ Contents[p.rule] # {} => Contents[p.rule] # Contents[q.rule]
=============================================================================
