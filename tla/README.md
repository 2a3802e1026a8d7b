# SenseMind in TLA+

SenseMind watches a network with Suricata and Zeek, has a language model judge
each alert, mails people about it and blocks attackers on security devices.
This directory models the parts of it whose correctness depends on order,
overlap, failure or a long sequence of legal calls. Paths below are relative to
`src/`; `A/` is `ai-analyzer/app/`, `R/` is `alert-responder/app/`, `R/r/` is
`alert-responder/app/response/`.

Contents: [inventory](#inventory), [plan and composition](#plan-and-composition),
one section per module
([AutoBlock](#autoblock-blocking-addresses),
[PercolatorSync](#percolatorsync-the-queries-that-trigger-everything),
[MailOutbox](#mailoutbox-realtime-alert-mail),
[AlertAnalysis](#alertanalysis-intake-and-deduplication),
[AnalysisPipeline](#analysispipeline-one-alerts-way-through-the-analyzer),
[MissedAttacks](#missedattacks-attacks-that-raised-no-alert),
[RuleReview](#rulereview-what-a-generated-rule-has-to-pass),
[RuleFile](#rulefile-localrules-and-the-reload),
[DeviceDrivers](#devicedrivers-five-makes-of-firewall),
[DriverRegistry](#driverregistry-uploaded-scripts),
[DeviceStore](#devicestore-a-devices-configuration)),
[runs](#runs), [findings](#findings), [proofs](#proofs),
[what is not modelled](#what-is-not-modelled).

## Inventory

Two Python services (FastAPI, one process each) share a PostgreSQL database and
an Elasticsearch cluster. Requests run in threads, background jobs in
APScheduler threads with `max_instances=1`; the analyzer's alert intake and the
driver upload run in the event loop.

| Component | State it keeps | Operations | Talks to | What makes it hard | What makes it correct |
|---|---|---|---|---|---|
| Automatic and manual blocking (`R/r/auto_block.py`, `executor.py`, `es_marker.py`, `api.py`; `A/services/block_tasks.py`) | tasks, devices, whitelist, pending actions, block records (PostgreSQL); `blocked` marks (Elasticsearch); each device's blacklist | enqueue, consumer round, manual block, revoke, administration, script install and removal | devices through driver scripts, the analyzer | one commit per step, so crashes fall in between; handlers and consumer act at once; a call may fail after it took effect | a mark has a success behind it; every block is on record; the whitelist holds; retries are bounded; no row is lost or stuck |
| Percolator queries (`A/services/mail_percolator.py`, `block_tasks.py`; `R/mail_watches.py`; `A/routers/alert_search_preset.py`) | one Elasticsearch query per task and per realtime watch | full rebuild, per-preset sync, put and delete of one, the 60-second rebuild, start-up sync | PostgreSQL, Elasticsearch, HTTP between the services | read tables first, write documents later, several at once, commit before or after | a quiet request leaves the index as the tables want it; task queries converge |
| Realtime mail (`R/mail_watches.py`; `A/services/mail_percolator.py`) | outbox rows | insert (three tries), round of sends, preset deletion | SMTP server | row locks end at the first commit; answers get lost | no mail lost; doubled only by a fault; the outbox drains |
| Alert intake (`A/main.py`, `A/dedup.py`) | dedup cache of the process | lookup, analyse, record | Logstash (8 workers), LLM, Elasticsearch | lookup and record on either side of an `await` | drops only true repeats; finds every recorded one |
| Alert analysis (`A/main.py`, `A/analyzer.py`, `A/es_client.py`) | `soc-ai` records; notes of signatures and missed attacks already handled | triage, related logs, verdict, source document, record, background task, new instance | LLM, Elasticsearch, rule writer | background tasks share the notes unlocked; notes are made before the work; documents become visible late; indices change at midnight | a rule per signature; each missed attack recorded once; the record points to the alert's own document |
| Missed attacks (`A/attack_detector.py`) | none | detect in HTTP, DNS, TLS, skip what an alert covers, judge by response length | | logs of several sessions in query order; every log may shift the baseline | an attack is called failed for a reason, and comes into doubt again only for one |
| Review of rules (`A/suricata/rule_writer.py`, `fp_guard.py`) | the shared guard: client, window | structure checks, probes, replay over history, second model's opinion, filters under the lock | Elasticsearch, LLM | reviews share the lazily opened client; every failure degrades to "no objection" | what is common in real traffic is not written; a rule that was not replayed has a failure behind it |
| Rule file (`A/suricata/rule_writer.py`, `A/analyzer.py`) | `local.rules`, SIDs and fingerprints in memory | append, validate and delete bad rules, reload, 30-second reload loop | Docker, Suricata | write lock, edits by hand, a second instance after `reload_analyzer` | SIDs differ; healing spares good rules; what Suricata runs is the file |
| Device drivers (`R/r/devices/*.py`, `R/sensemind_device/client.py`) | the devices' address lists | block, unblock | firewalls | conversations of several requests; answers lost, writes ignored; calls overlap | a reported success is true; no double entries; a block ends for a reason |
| Driver registry (`R/r/registry.py`) | script files, `.meta.json`, module cache | upload, delete, scan | file system | upload in the loop, deletion in threads; one temporary file; failed writes | names differ; a request leaves cache, records and disk in agreement |
| Device configurations (`R/r/store.py`, `api.py`) | sealed and open values of a device | save, show, hand to the script | registry | scripts with other fields replace each other under a saved device | the script gets what was entered; secrets stay hidden |
| Periodic mail (`R/mail_watches.py`) | `next_run_at` per watch | due watches, windows | SMTP, Elasticsearch | wall-clock arithmetic | at most one mail per window |
| Login (`A/routers/auth.py`, `A/core/rate_limit.py`) | failure counters | login, lockout, unlock | PostgreSQL | read-modify-write of a counter | lockout at the limit |
| Metrics, retention (`A/services/metric_collector.py`, `A/scheduler.py`) | last counters; dated indices | collect, delete old | Suricata, Elasticsearch | counter resets | deltas add up; nothing young deleted |
| Text operators, LLM chains, queries, web, deployment | none, or read-only | | | text | |

The hazards of each component, at their lines, are in `PROJECT.json`.

## Plan and composition

The order was: what acts on the world first (AutoBlock with its contract
BlockContract), then what triggers it (PercolatorSync), then the other consumers
of an alert (MailOutbox, AlertAnalysis), then what the analyzer does with an
alert (AnalysisPipeline, MissedAttacks, RuleReview, RuleFile), then what the
responder's blocking stands on (DeviceDrivers, DriverRegistry, DeviceStore). All
of these exist. What would come next, if more is wanted: the windows of the
periodic mail; a "set of mails owed" contract for MailOutbox; the proofs left out at
the end of [proofs](#proofs).

How the modules fit together:

- PercolatorSync meets MailOutbox in `Enqueue(a, hits)` and AutoBlock in
  `EnqueueTaskActions(e, hits)`: both take any set of hits as the percolator's
  answer, which covers every state of the index that PercolatorSync can reach.
- AlertAnalysis treats the analysis as one call that returns or fails;
  AnalysisPipeline is that call and the background task after it. Both start from
  the same push.
- AnalysisPipeline takes the missed attacks among the related logs as given (the
  events that are in `owed`); MissedAttacks is the function that finds them.
- AnalysisPipeline ends a rule at "written or not"; RuleReview decides whether it
  is written and RuleFile what becomes of it in the file.
- AutoBlock takes a driver call as any outcome, with or without effect;
  DeviceDrivers is one call, request by request. `SuccessIsTrue` there is what
  makes "a record of a success" in AutoBlock mean a block.
- AutoBlock's `installed` is DriverRegistry's cache; DeviceStore is the
  configuration such a script is opened with.
- `MCComponents` runs seven modules that share no state in one instance: a
  behaviour is about one of them, named by `focus`.

## AutoBlock: blocking addresses

State and code: `tasks`, `devices`, `whitelist`, `pending`, `records` are the tables
of `R/r/models.py`; `installed` is what `registry.get` can load; `marked` the
documents of `es_marker.py` (an alert has two); `blacklist` what the physical
devices hold; `batch` the row ids a round of `process_pending` has yet to
handle; `job[w]` what the consumer or a request thread carries through
`run_device_action`, `record_action` and `mark_blocked`, with `phase` naming the
commit or call that comes next. Each action ends at a commit or at a call's
return, so `Crash` and `DatabaseError` fall between any two. `MissDriver` is the
script lookup outside the executor's `try`; `AbortRound` a task or device deleted
during its device call (the log line then reads an expired object).

Abstractions: the backoff's length is "due or not"; CIDR blocks are sets of
addresses; ids are never used twice (serial keys), so deleted ids are
remembered in `spent`. `tally`, `lost` and `exposed` are history.

Properties, in words: a marked alert has a successful block in the log; an address
on a device is in the log, in an unrecorded call, or was lost to a counted fault;
an address the whitelist always covered is never blocked or logged; an unblock
follows a block; a row costs at most `MAX_ATTEMPTS` calls plus one per fault; a
row goes only for a reason; every row goes. BlockContract says the same without
workers or tables: requests wait, are tried, are settled by a win, by running
out of tries or by being withdrawn; a flag needs a proof. `Refines` checks that
AutoBlock implements it under the mapping at the end of `AutoBlock`.

## PercolatorSync: the queries that trigger everything

`index[d]` is the query of a document (a task's or a watch's), `jobs[s]` one request
in the analyzer with the commit of the request it belongs to; the tables are
as above plus presets and watches. A job reads (`ReadAll`; or `ReadPreset`,
`ReadIds`, `ReadActive`, three statements that may see three states), then
writes one document at a time (`Write`), then, in a full rebuild, searches the
index and deletes what it has not kept (`Search`, and `Write` in step `purge`).
Presets commit first and sync after; watches sync first and commit after; tasks
and devices commit and ask for a rebuild. `TimeOut` and `Restart` leave a put
running that nobody waits for (`orphan`). A query is which filters it was
made from; `Refused` are filters that cannot be made a query or that
Elasticsearch turns down.

`CleanJobIsRight`: a job that ends with nobody else committing or writing to its part
meanwhile leaves its documents as the tables want them. `TaskQueriesConverge`: once
the tables are quiet, the 60-second rebuild repairs whatever overlaps, stale
reads and failures left. For mail watches there is no such repair before the
next start of the responder, so none is claimed.

## MailOutbox: realtime alert mail

`outbox` are the rows, `enqueue` the analyzer's three tries per alert, `batch` and
`held` the rows of the current round and those still locked by it, `item` the row
being sent, `removal` an open `delete_preset` transaction. The first commit of a
round sets `held` to nothing: from then on rows can vanish under the round, and a
vanished one ends it (`Load`, `CommitItem`). `AnswerLost` and `EnqueueFails` are the
two places where something happened and nobody was told. Insert, commit and
deletion wait for each other as PostgreSQL's row locks make them.

Abstractions: the number of attempts only sets the delay, so it is left out;
rows with invalid JSON cannot arise from `json.dumps`, so that branch is left out;
one recipient list is one mail; `hits` is any set of watches, stale queries
included. There is one consumer (one container, `max_instances=1`).

`NoMailLost`: a row leaves only delivered or with its preset's watch. `MailsBounded`:
at most one mail per watch and alert, plus one per fault. `OutboxDrains`: once
the mail server keeps taking mail, every row leaves.

## AlertAnalysis: intake and deduplication

The `OrderedDict` is two variables: `cache`, the set of its entries, and `ahead`, its
order, as the pairs of keys of which the first is to be evicted before the second. A hit
moves its key to the end (`ToEnd`), new keys queue up in the order in which `record`
writes them (`Queued`), and a full cache loses the keys that have too few ahead of them
(`Evicted`). An entry's `stamp` is the number of the analysis that wrote it, and
`horizon` the last stamp older than `dedup_window`, so that time is only order. `Analyze` is the handler up to the `await`, `Finish` from
the `await` to its end, one step because the event loop runs nothing else there.
`done` and `lost` are history; `lost` holds the analyses of which some entry was
evicted or that a restart forgot.

`DroppedWithReason` and `LookupIsComplete` say the lookup is right in both directions;
`RepeatsBounded` that a rule is analysed for one flow within the window at most
as often as pushes are open at a time. Clock steps backwards and a disabled
deduplicator are left out.

## AnalysisPipeline: one alert's way through the analyzer

`task[l]` is the handling of one log, with `at` the call that comes next: triage,
session and history queries (the searches by flow, by address and for history fail each on
its own, and the analysis goes on with what the others found), verdict, source search, write of the record, then the
background task (rule, missed attacks). `visible` are the documents a search finds
(a push usually comes before its own document is indexed), `records` the `soc-ai`
documents, `noted` and `processed` the memory of each analyzer instance;
`reload_analyzer` makes a new instance whose memory is empty while tasks go on with
the old one. `today` is the index of the day. Every Elasticsearch or model call may
fail where the code catches it, and the process may restart.

Properties: a record points to a document with the alert's signature, and to the
alert's own if it could be found (`SourceIsTheAlert`); an instance tries a rule once
per signature and records a missed attack once, except where two tasks looked it up
at the same time (`OneRulePerSignature`, `OneRecordPerMissedAttack`; `raced` names
exactly those overlaps); each missed attack among the logs of a finished task has a
record of its instance or is held by a task of it, unless a failure made that task, or
the one that had taken it, give up (`MissedAttacksGetRecorded`). A key is noted before
its record is written, so a failure in between suppresses the attack for later alerts
too: that is what `given` excuses.

## MissedAttacks: attacks that raised no alert

A log is its kind, texts, status and length; which attack types a text shows is a
parameter (`Keywords`, `Semantics`), the rest is translated: raw lines read only
without URL and payload, names of DNS and TLS, the baseline of the session's
ordinary, refused and failed responses, the tolerance of a fifth but at least ten,
coverage by alerts. What is found is a set; `find_unalerted_attacks` lists it in the logs'
order. A behaviour adds related logs one after the other and asks anew, at any moment, what
the analyses of the session say (`QueryAnalyses`): `query_ai_analyses_by_community` builds
that answer from nothing each time, the last of at most a hundred unsorted hits counts for an
alert, and a query that fails answers nothing, so an alert called failed may cease to be so.

`FailedForAReason`: an attack that got status 200 is called failed only if some
other log's answer, of the right sort, had about that length. `DoubtReturnsForAReason`: an
attack once called failed is in doubt again only if the new answer no longer names a failed
alert whose own answer had about that length; more logs never do it. Both are about every order of up to four logs
of a set with the interesting kinds (`MCCandidates`).

## RuleReview: what a generated rule has to pass

A rule is its contents with what the filters ask of them: length, buffer, word-list
hits, placeholders. `guard` is the shared `RuleFpGuard` with its lazily opened
client (`tried` is set before `client`: a second review in between sees no client).
`History` are batches of like requests, of an age, count, set of sources and fields
carried; `bars` is what stands between bars anywhere in the rule's text, which is what
`_has_invalid_hex` looks at, so that a quote turned into bytes can close a bar left over
elsewhere; the window is the smaller of the look-back and the retention as it was when
the guard asked. `review[t]` steps through client, window, primary probe, combined
probe, the second model's opinion (a choice) and the filters under the lock.
`CommonTrafficStaysOut`: a rule whose contents together are common in the replayed
history is not written whatever the model says. `UnreplayedForAReason`: a rule with
something to replay goes unreplayed only with a failure, or another review's opening
of the client, behind it.

## RuleFile: local.rules and the reload

`file` is the lines with their rules (a line without a newline takes the next rule
on itself), `lock` the module's `_write_lock`, `mem` each instance's SIDs and
features, `worker` the background tasks and the reload thread of every instance
(`reload_analyzer` starts a second one and stops none). Validation, deletion by line
number, and the reload are separate steps, so edits by hand fall between them.
Suricata's verdict is `Good`: an unreadable rule, a second rule on the line, or a SID
seen before is refused.

The file may turn out unreadable wherever the code reads it, and every time the code goes on:
a load keeps the lines before the error (`ReadUpTo`), the rescan before a SID keeps the
memory as it is (`AllocateBlind`), a deletion stays undone or leaves the file cut short, and
counts as no line deleted (`DeletionFails`). `unread` remembers that some load broke off,
`blind` the SIDs given out without a rescan.

`GeneratedSidsDiffer` holds across instances because the file is scanned again under the
lock; where that rescan failed, a SID can be given out twice, but only with a second instance
or a load that had broken off: otherwise the memory has the SIDs of all generated rules.
`NoFeatureTwice` holds only within one instance that has read the file to its end, because
each has its own features; `HealingSparesGoodRules` unless somebody edits between test and
deletion or the rewrite breaks off; `FileGetsLoaded` under fairness of the workers.

## DeviceDrivers: five makes of firewall

`entries` is what the device lists, `call[c]` a caller's conversation: the step it is
at, what it last read (`seen`), tries left. Each request is a step and may be lost
before or after the device acted, refused, or acknowledged without effect. The
devices are the fakes of `selftest.py`, with the firmware differences the scripts
provide for (`pairs`, `narrow`, `keeps`, `exact`, `cuts`): this is the one place
where a module models something outside the program, and its map entries point to
the self-test's fakes.

`SuccessIsTrue`, `QuietCallsSucceed`, `NoDoubleEntries` and `BlocksChangeForAReason` are
stated with the exceptions the scripts cannot avoid (no second look with Topsec and
Qianxin; another call in between; a search that hides entries), each of them a
history variable. Without the overlap exception the last one is violated:
`OthersBlocksStay`, in `devices_concurrency`. Two theorems say where that violation comes
from: while at most one call is open (`OneAtATime`: `max_concurrency` at 1, if the client
read that setting as `sensemind_device/client.py:3` says), or without a Hillstone
device, whose group is written back whole, no step ends the block of an address that
no open call is about.

## DriverRegistry: uploaded scripts

`files`, `meta`, `temporary` are the disk, `drivers` the module cache, `handling[h]`
a request: the event loop's upload (`check`, `move`, `meta`, `stage`, `replace`,
`scan`, `publish`) or a thread's deletion (`unlink`, then the same). Failed moves, writes
and replacements end a request where it is (`Quits`, or `BreaksOff` if the disk has changed
and the cache has not); `RestartResponder` ends them all and scans. A record file that cannot
be read counts as empty, so the next write drops what it held of other scripts (`NoRecords`).
What a script declares is its name and its text. `shaken` says that requests overlapped or
one broke off, and neither a restart nor a request running alone has brought cache and disk
together since; `strayed` that an upload passed its name check in such a state; `settled` is
the last request that ran alone and could read the records.

`NamesDiffer` is what `_check_display_name` is for. It checks against the cache, so two names
can become equal after a check while `shaken`, and only then: a broken-off upload that was
followed by a restart or by a quiet request does no harm. `RequestLeavesTruth` needs no
such premise: whatever went wrong before, a request that runs alone rescans and
rewrites, and leaves cache, record and file in agreement.

## DeviceStore: a device's configuration

`schema` is what the registered script declares, `device` the row with its sealed and
open values and the list of fields that hold secrets; `meant` and `secretly` are
history. `Save` is create and update (validation, sealing, a blank secret keeps its
value), `ChangeScript` any replacement or removal of the script, `Opened` what the
script is handed, `Shown` what the interface returns. A value in the open that looks
like a sealed one fails to open: `ScriptGetsWhatWasSaved` has it as its only excuse.

## Runs

A run is one TLC configuration; `PROJECT.json` lists its properties.

| Run | Instance | Shows |
|---|---|---|
| `autoblock` | one task, device, preset, address, alert and whitelist network; a removable script; one handler and the consumer; 2 attempts, 1 row, 2 records, 1 fault | log, marks, whitelist and devices agree |
| `autoblock_rows` | 2 devices, 2 rows, rounds of 2, no handler, 1 fault | bounded retries, no silent loss, refinement of BlockContract |
| `autoblock_live` | 2 addresses, 2 alerts, 2 rows, rounds of 1, shipped script, 1 fault | every row leaves |
| `autoblock_missing_script` | 2 tasks on 2 devices, one removable script, 1 attempt | violated: rows behind a missing script starve |
| `percolator_live` | one task, device, preset; 2 filters, 2 threads, 1 fault | task queries converge |
| `percolator_refused` | 2 tasks, 2 presets, 1 thread, one refused filter | violated: one refused query stops the rest |
| `outbox` | 2 watches, 1 alert, 3 rows, rounds of 2, 2 tries, 1 fault | none lost, none doubled without a fault, all leave |
| `rulefile` | 2 tasks with one rule, a mistyped hand rule, 2 instances, 2 healing rounds, 1 upset (edit, failed command, read or rewrite, restart) | SIDs differ unless a rescan failed, no rule twice, healing spares good rules, the file gets loaded |
| `pipeline` | a pushed and a hand-picked alert of one flow and signature, an old alert of the signature elsewhere, one missed attack; 2 instances, 2 days, 1 fault | sources, rules and records of missed attacks |
| `pipeline_flow` | the same, the missed attack on another flow | violated: it is recorded under the alert's flow |
| `components` | seven modules, one at a time, see below | seventeen properties |
| `devices_concurrency` | 2 callers, 2 addresses, no trouble, every firmware | violated: one block undoes another's |

The instances in `components`:

| Focus | Instance | Properties |
|---|---|---|
| AlertAnalysis | 4 kinds of alert over 2 flows, 2 rules and a source, with parts missing; 2 handlers, 3 entries, cleanup every 2, 3 analyses | `DroppedWithReason`, `LookupIsComplete`, `RepeatsBounded` |
| PercolatorSync | one task, device, preset and watch; 2 filters, 2 threads, 1 fault | `CleanJobIsRight` |
| RuleReview | 11 rules, a history of 4 batches that meets each limit of hits, sources and share exactly, 2 reviewers, 2 reviews, retention 3 or 30 days, 1 outage | `CommonTrafficStaysOut`, `UnreplayedForAReason` |
| MissedAttacks | any 4 of 11 logs, one after the other, any answer about the analyses | `FailedForAReason`, `DoubtReturnsForAReason` |
| DeviceDrivers | 2 callers, 2 addresses, 3 calls, 1 trouble, 9 firmwares of 5 makes | `SuccessIsTrue`, `QuietCallsSucceed`, `NoDoubleEntries`, `BlocksChangeForAReason` |
| DriverRegistry | 2 keys, 4 scripts with two sharing a name and one taking a built-in one, the loop and 2 deleters, 3 requests, 1 mishap | `NamesDiffer`, `RequestLeavesTruth` |
| DeviceStore | 2 fields, 3 inputs, 4 schemas, 3 saves | `ScriptGetsWhatWasSaved`, `SecretsStayHidden` |

The conjuncts of its `TypeOK` are the modules' type invariants. The seven modules
share no variable, so nothing is lost by letting one of them move at a time; what one
depends on in another is in [plan and composition](#plan-and-composition).

Why the bounds are enough: two workers show every pairwise overlap (handler and
consumer, two requests, two pushes, two reviews, two instances' threads); two rows
show order and starvation, and rounds of one and of two both occur; a limit of two
attempts has a failure that is retried and one that is not; one fault falls between
any two steps, and the bounds count it (`+ faults`); three outbox rows allow a row
inserted anew after its first was sent; three cache entries force evictions while two
analyses overlap; two filters tell stale and current queries apart; three device
calls let two overlap with a third before or after them; four logs are an attack, its
baseline, an alert and one that may change the verdict; three saves of a
configuration have a schema changed before and after a secret is kept. Bounds that
the code has not: `MaxRows`, `MaxRecords`, `MaxFaults`, `MaxAnalyses`, `MaxUpsets`,
`MaxInstances`, `MaxDays`, `MaxOutages`, `MaxOthers`, `MaxReviews`, `MaxLogs`, `MaxCalls`,
`MaxTroubles`, `MaxRequests`, `MaxMishaps`, `MaxSaves`, and the numbers of threads and
handlers (the last is real in AlertAnalysis: `pipeline.workers` is 8).

Symmetry: devices in `autoblock_rows`, threads and filters in `components`; neither
run checks liveness. `CHECK_DEADLOCK FALSE` stands where a bounded instance rightly
stops: once every id, call, request, save or analysis of the bound is used up and all
work is done. `autoblock`, `percolator_live` and `percolator_refused` check deadlock.

**Fairness.** AutoBlock: the consumer's steps (the job runs every 5 seconds; shipped
scripts call with timeouts) and the passing of time. PercolatorSync: each running
request goes on, and the 60-second job gets a thread again and again - strong
fairness, since the model's few threads stand for a pool of forty that requests
do not fill for ever. MailOutbox: the 2-second job (SMTP has a timeout), the
passing of time, and the end of an open transaction. RuleFile: a task that has begun
to write goes on, every healing or reloading thread goes on, and the reload thread of
each instance wakes (its loop sleeps 30 seconds and catches what it raises). Nothing
is assumed of people, of faults, or of the mail server except in the premise of
`OutboxDrains`.

## Findings

- `R/r/executor.py:37`: a pending row whose uploaded script was deleted raises outside
  the `try`, keeps its attempts and stays first: the rows behind it are never
  reached (`autoblock_missing_script`).
- `A/services/block_tasks.py:118`: one query that cannot be built or is refused ends
  every rebuild (`percolator_refused`).
- `A/analyzer.py:583`: a missed attack gets the addresses and flow of the alert that led
  to it, and automatic blocking acts on them, though the related logs come from other
  flows too (`pipeline_flow`).
- `R/r/devices/hillstone_fw.py:403`: the group is read and written back whole, and
  `max_concurrency`, which is said to be consumed by the client, is read by nobody
  (`devices_concurrency`).

Divergences met on the way, modelled as the code has them and without a run:

- `R/r/es_marker.py:6` says marked alerts are skipped; nobody calls `is_blocked`
  (`R/r/auto_block.py:73`).
- `A/es_client.py:398` keeps one verdict per alert, the last of hits that no sort orders: what
  the baseline is computed from may differ from one look to the next
  (`DoubtReturnsForAReason`).
- `A/dedup.py:4` promises one analysis per flow and rule; overlapping pushes get several,
  at most one per handler (`RepeatsBounded`).
- `A/suricata/rule_writer.py:701-706` names cases without a reload; `:727` always reloads.
  `:901-903`: healing may delete a rule that was reported written. `:638`: what features
  are known is per instance, so two instances may write one rule.
- `A/analyzer.py:818`: without a time in the alert, `datetime` is local and unbound
  because of the import at `:840`, though the comment at `:815-816` handles the case.
- `A/attack_detector.py:706`, `:725`: a transaction id of 0 is taken for none. The
  baseline is said to be of the same session and uses all related logs.
- `A/suricata/rule_writer.py:409-410` and `:461` disagree on what a placeholder rule is;
  `A/suricata/fp_guard.py:178` and `:194-199` on where a URL is looked for; "tried only
  once" there has a first opening that a second review can overtake
  (`UnreplayedForAReason`), and the look-back window, once shrunk, never grows again.
- `R/r/registry.py:301` and `DEVICE_INTEGRATION.md:286` call display names globally unique;
  a cache left stale by an overlap or a broken-off upload lets two be equal (`NamesDiffer`
  names the case). `:290` takes an unreadable record file for an empty one, and the next
  upload then writes it without the other records.
- `A/suricata/rule_writer.py:132` says generated SIDs never repeat external ones; when the
  rescan fails (`:164`) the SID comes from memory alone, which has neither what another
  instance or a person has added nor what a load that broke off (`:126`) did not reach.
  Among generated rules `GeneratedSidsDiffer` names the case.
- `DEVICE_INTEGRATION.md:67` says secrets are stored encrypted; a value saved in the open
  stays open when its field becomes secret and is left blank (`R/r/store.py:97-100`). An
  open value that starts like a sealed one cannot be opened.
- `A/es_client.py:513`: a result is updated in today's index, so a rule is not shown in a
  record of yesterday.
- `A/routers/auth.py:104`: two overlapping failures count as one.

Limits known from reading, which no property promises: a second alert swallowed by
the unique key (`A/services/block_tasks.py:36`) and an insert that does not check the
preset (`:33`); a watch's query put before a commit that fails, or after its caller gave
up (`R/mail_watches.py:558`, `:246`); a watch or row created while its preset is deleted
(`A/routers/alert_search_preset.py:268`, `:262`); recipients refused one by one
(`R/main.py:192`); a script that never returns (`R/r/auto_block.py:144`); a line written or cut
halfway (`A/suricata/rule_writer.py:838`, `:848`, `:135`; in the model lines stay whole); reload threads that are never
stopped (`A/analyzer.py:152`, `:144`).

## Proofs

All theorems are about the modules' specifications, for every value of the
constants, from the modules' named assumptions alone (sets disjoint, null values
outside, limits positive, bounds natural; TLC evaluates them in the runs). All are
temporal consequences of an inductive invariant: `Init => Inv`, `Inv /\ [Next]_vars =>
Inv'`, one lemma per group of actions.

| Theorem | Property | Argument |
|---|---|---|
| `AutoBlockProofs!TypeCorrect` | `TypeOK` | inductive as it stands; the executor's steps once for handlers and consumer |
| `MarksAreBacked` | `MarkedOnlyAfterSuccess` | not inductive: what is about to be marked must be backed already. `MarkInv` adds, of every job in phase `mark`, that the log has the success, and of every unblock, that it is grounded as below |
| `UnblocksFollow` | `UnblockFollowsBlock` | adds, of every unblock under way, that a successful block is in the log; the log only grows |
| `ProtectedStaysFree` | `ProtectedNeverBlocked` | adds that every call under way is for an exposed address, and that every address not whitelisted now is exposed; `exposed` only grows |
| `BlocksAreLogged` | `BlockedIsLogged` | inductive with types: an applied call is unrecorded until its record is written or a fault moves it to `lost` |
| `RetriesAreBounded` | `RetriesBounded` | `TriesInv`: a row's calls equal its attempts, plus one while an answer waits to be counted, within the faults; a round that aborted leaves a row whose task or device is gone for good (`Orphan`, ids are used once), so its uncounted call is its last |
| `NoneIsLost` | `NoSilentLoss` | the lower half of the same invariant: attempts on record were calls, and what reaches `drop` has won |
| `KeepsContract` | `Refines` | `TriesInv` and `MarkInv` map every step to `Submit`, `Try`, `Settle`, `Prove`, `Flag` or `Wish` of BlockContract |
| `MailOutboxProofs!OutboxTyped` | `TypeOK` | `TypeInv` adds that an alert whose insertion is not over has a try left |
| `NoneLost` | `NoMailLost` | `RowsInv`: one row per watch and alert, the item in hand speaks of a row that exists or is doomed, rows under removal belong to watches under removal |
| `FewMails` | `MailsBounded` | `Accounts`: mails out, the row pending and the insertion still possible, together, are at most one more than the faults |
| `DeviceProofs!RegistryTyped` | (`TypeInv`) | a request at a step holds what that step reads |
| `RegistryTypesHold` | (`RegistryTypeOK`) | the same invariant |
| `NamesStayDifferent` | `NamesDiffer` | `NamesInv`, on top of `TruthInv`: while nothing is shaken, requests keep apart and the cache is the disk but for the request under way (`CacheInv`); while no upload has strayed, the names on disk differ, and so they do with the script that an upload has checked; deletions only take names away |
| `RequestsRepair` | `RequestLeavesTruth` | `TruthInv`: what a request that runs alone has put on disk and scanned, step by step |
| `ScriptGetsIt` | `ScriptGetsWhatWasSaved` | `StoreInv`: what the row has of a field is what was last meant |
| `SecretsHidden` | `SecretsStayHidden` | the same invariant: the row itself names each field that was entered as a secret |
| `StoreTyped` | (`StoreTypeOK`) | the same invariant |
| `AnalysisPipelineProofs!PipelineTyped` | `TypeOK` | `TypeInv`: an instance is one that exists, its notes have an entry per instance, a task that has not asked yet holds nothing |
| `OwnSource` | `SourceIsTheAlert` | `SourceInv`: when the query ran while the alert's document could be found, that document is among the related logs; nothing is nearer to it in time than itself |
| `OneRule` | `OneRulePerSignature` | `RuleInv`: a signature with an outcome is noted in the instance that has it; an instance's memory only grows, a restart keeps it for the tasks that are over |
| `OneRecord` | `OneRecordPerMissedAttack` | `MissedInv`: a find is claimed from the moment its key is added until its record stands; claimed keys are processed, two claims of a key, or a claim and a task about to add it, have raced; records keep the shape in which they were written |
| `AllRecorded` | `MissedAttacksGetRecorded` | `AccountInv`, on top of `MissedInv`: every key an instance has processed is accounted for by a record, a task that holds it or a task made to give up; whatever a task owes is still among its related logs, still to be looked up, or processed; a task without the id of its record has given up |
| `PercolatorSyncProofs!CleanJobs` | `CleanJobIsRight` | `SyncInv`: while a job is clean, what it has still planned and what the index has already are together what the tables want; commits and writes of others soil it; an id not handed out has no row, no binding and no query |
| `SyncTypesHold` | (`SyncTypeOK`) | `SyncTyped`: the fields of a job fit its step (`SoundJob`): a preset's sync keeps its preset, what it has read of it and documents of the half it is at, a request keeps the row it will write, and `Advance`, with which every read, search and write ends, goes on exactly when nothing is left to write |
| `AnalyzerProofs!OnlyRepeatsAreDropped` | `DroppedWithReason` | `EntriesTraced`: every entry has the stamp and a key of an alert with a rule that was recorded; two alerts with a rule are alike exactly if they have a key in common (`AlikeByKeys`) |
| `RecordedAnalysesAreFound` | `LookupIsComplete` | `KeysKept`: of an alert recorded within the window, and not lost, every key has an entry at least as young. A lookup takes out nothing that is younger than the window, a record overwrites only by younger entries and accounts for the evicted ones |
| `OnlyOverlapsRepeat` | `RepeatsBounded` | `RepeatsUnderWay`: once an analysis of a flow and rule is recorded, those recorded and those still under way are together no more than the handlers; an analysis starts only if none is recorded, by `KeysKept` |
| `PushesTypeCorrect` | (`AnalysisTypeOK`) | `CacheLinedUp`: the keys are in a linear order that lookups, records and evictions keep; in a finite line no two keys have equally many ahead of them, so what an eviction leaves injects into as many numbers as the cache may hold |
| `EveryFailureHasAReason` | `FailedForAReason` | `LogsInv`: no two related logs have the same id, so the sample that calls an attack failed is another log |
| `DoubtNeedsAReason` | `DoubtReturnsForAReason` | the same invariant: an item found again is of the same log, more logs only widen the baseline, so the sample that is missing is an alert no longer called failed |
| `CommonRulesStayOut` | `CommonTrafficStaysOut` | `ReviewInv`: what a review has found so far is sound: a rule too common for its window has statistics that ask for its refusal, and who comes to the judge without statistics has an excuse. A replayed content is part of the rule, and requests of fewer batches are no more requests (induction over finite sets, from well-foundedness), so what a rule would have alerted on is at least what the evidence says |
| `UnreplayedRulesAreExcused` | `UnreplayedForAReason` | the same invariant: a review goes past the replay without statistics only with nothing to replay or with an excuse |
| `ReviewTyped` | (`ReviewTypeOK`) | the same invariant |
| `RuleFileProofs!SidsStayDifferent` | `GeneratedSidsDiffer` | `FileInv`: one worker at most appends, tests again or deletes, and has the lock; the SID in its hand is not in the file, because it was taken above all SIDs of memory and file under that lock, or is in `blind`; while one instance alone has read every line, its memory has the SID of every generated line, so that even such a SID is new. A generated rule is the only one of its line, and healing, hand edits and appends bring no generated rule twice (`Within`) |
| `FeaturesStayDifferent` | `NoFeatureTwice` | the same invariant: with one instance that has read every line, its memory has the contents of every generated line, also after a healing pass has read the file again, and what is about to be written is not in that memory |
| `HealingSpares` | `HealingSparesGoodRules` | the same invariant: what an undisturbed pass deletes, if the rewrite does not fail, is what the file's test refuses now; the lines kept are all the others in their order (a bijection of positions), so no SID before an accepted rule becomes new |
| `DriversTyped` | (`DriversTypeOK`) | `DriversInv`, see the next row |
| `DriversReportTruth` | `SuccessIsTrue` | `DriversInv`: what a call believes of the list (what it has read, what it owes) still holds as long as nobody crosses it. Each request is shown to have one of the outcomes of `Outcome`, whose effect on the invariant is proved once for all makes |
| `QuietCallsGetThrough` | `QuietCallsSucceed` | the same invariant |
| `EntriesStaySingle` | `NoDoubleEntries` | the same invariant: entries have different ids, ids a call has seen belong to its address, two open calls for an address have crossed |
| `BlocksChangeOnlyForAReason` | `BlocksChangeForAReason` | each step's outcome allows the entries it removes and adds; a group can change for an address its writer is not about only if the writer has met another call since it read |
| `SerialCallsKeepBlocks` | `OthersBlocksStay`, given `[]OneAtATime` | a call that never shared the device has met nobody (`Unmet`), so of the three reasons above the rewriting of a group falls away |
| `OtherMakesKeepBlocks` | `OthersBlocksStay`, given that no firmware is Hillstone's | the same, as only its script writes a group |
| `ComponentsProofs!ComponentsBehave` | (the specification of each component) | a step of the combined specification is one of the component in focus and leaves the others' variables alone |
| `TypesHold` | `TypeOK` of MCComponents | the type theorems of the components, whose behaviours these are |
| `PromisesHoldTogether` | the sixteen other properties of the run `components` | the theorems about them above |

Only model-checked: liveness and everything with fairness or ENABLED (out of the
prover's reach): `RowsLeave`, `TaskQueriesConverge`, `OutboxDrains`, `FileGetsLoaded`.
Every invariant that a passing run checks, and every action property, is a theorem of
that run's specification; for the run `components` `ComponentsProofs` carries what is
proved of each component over to the combined specification.

`AnalyzerProofs` holds the proofs about three components of the analyzer, AlertAnalysis,
RuleReview and MissedAttacks, which share no state; `DeviceProofs` those about
DeviceDrivers, DriverRegistry and DeviceStore.

The prover cannot use the library's induction theorems, which take an operator as a
parameter. Where a proof needs induction over finite sets, the lemmas `AllNumbers`,
`AllSubsets`, `LeastOf` and `GreatestOf` derive it from the well-foundedness of the
numbers and of strict inclusion, for sets instead of operators.

## What is not modelled

`PROJECT.json` gives each component its status and the reason.

- Not modelled: periodic mail (wall-clock windows over rows of one thread), login,
  metrics and retention, text operators and parsers (their content is text), LLM chains
  and retrieval (nothing that could be specified), read-only queries and their caches,
  single-statement administration, the web interface, deployment.
- In part: of the device drivers, `list_blocked` and `test_connection` (they change
  nothing), a second attempt with another content type or login form, and how a group is
  created; of the alert analysis, the HTTP context copied into the prompt and the texts.
- Abstracted everywhere: texts to what the checks ask of them, times to order or "due",
  the language model to any answer, Elasticsearch searches to what is visible, refresh
  delays to a document becoming visible at any time.
