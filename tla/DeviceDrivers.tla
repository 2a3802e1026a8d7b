--------------------------- MODULE DeviceDrivers ---------------------------
(***************************************************************************)
(* The scripts that drive five makes of firewall.  A call of block or      *)
(* unblock is a conversation of several requests: look the address up,     *)
(* write, and with most makes read back.  The handlers and the consumer of *)
(* pending actions call one device side by side, and a request may be lost *)
(* before or after the device carried it out, refused, or acknowledged     *)
(* without effect.  The devices are those of the scripts' self-test.       *)
(***************************************************************************)
EXTENDS Integers, FiniteSets

CONSTANTS
    Callers,            \* threads with a call on the device
    Addresses,
    Firmwares,          \* the devices that may be added
    Nobody,               \* no device yet; a caller without a call
    MAX_ATTEMPTS,       \* Hillstone: rounds of read, write, read back
    VERIFY_ATTEMPTS,    \* Sangfor: times the state is read after a write
    MaxCalls,           \* bound: calls of a behaviour
    MaxTroubles           \* bound: requests that fail, are refused or ignored

Vendors == {"sangfor", "qianxin", "topsec", "nsfocus", "hillstone"}

\* pairs: Topsec takes a source and a destination record of one address;
\* narrow: Qianxin's search finds records by their source only;
\* keeps: Qianxin deletes no record;  exact: it revokes only by the full record;
\* cuts: NSFocus's search answers with a part of what it counts.
Firmware == [vendor: Vendors, pairs: BOOLEAN, narrow: BOOLEAN, keeps: BOOLEAN, exact: BOOLEAN, cuts: BOOLEAN]

ASSUME DriversAssumption ==
    /\ Firmwares \subseteq Firmware /\ Nobody \notin Firmwares
    /\ MAX_ATTEMPTS \in Nat \ {0} /\ VERIFY_ATTEMPTS \in Nat \ {0}
    /\ MaxCalls \in Nat /\ MaxTroubles \in Nat

VARIABLES
    firmware,   \* the device
    entries,    \* what it has listed: records [ip, dir, status, id]
    call,       \* of each caller: its last call
    started,    \* calls so far
    mishaps,    \* faults so far
    crossed     \* history: addresses two calls were about at the same time

driverVars == <<firmware, entries, call, started, mishaps, crossed>>

Directions == {"any", "src", "dst"}
Entry == [ip: Addresses, dir: Directions, status: {"block", "undisposed"}, id: 0..MaxCalls]

\* no: which call it is;  seen: what it last read;  tries: of the step at hand;  back: the step
\* that is repeated under a new session.  History: met, another call changed the
\* device since the call's first read; lied, a write was acknowledged without
\* effect; blind, the state after the write could not be read; hurt, a fault
\* hit the call.
Steps == {"login", "find", "check", "verify", "readback", "group", "write", "source", "replace", "destination",
          "add", "delete", "revoke", "tidy", "over"}
Repeated == {"find", "write", "readback"}
Call == [no: 1..MaxCalls, op: {"block", "unblock"}, ip: Addresses, step: Steps, seen: SUBSET Entry, tries: Nat, back: Repeated \cup {"none"},
         result: {"running", "success", "failed"}, met: BOOLEAN, lied: BOOLEAN, blind: BOOLEAN, hurt: BOOLEAN]

DriversInit ==
    /\ firmware = Nobody /\ entries = {} /\ crossed = {}
    /\ call = [c \in Callers |-> Nobody]
    /\ started = 0 /\ mishaps = 0

Of(ip) == {e \in entries : e.ip = ip}
InForce(ip) == {e \in Of(ip) : e.status = "block"}
Open(c) == call[c] # Nobody /\ call[c].result = "running"
Stands(c, vendor, step) == firmware # Nobody /\ firmware.vendor = vendor /\ Open(c) /\ call[c].step = step

-----------------------------------------------------------------------------
(* Requests                                                                *)

Goes(k, step) == [k EXCEPT !.step = step, !.tries = 1, !.back = "none"]
Again(k, step) == [k EXCEPT !.step = step, !.tries = @ + 1, !.back = "none"]
Ends(k, result) == [k EXCEPT !.step = "over", !.result = result, !.seen = {}, !.tries = 1, !.back = "none"]
\* What others did before a call looks is no matter any more.
Looks(k, found) == [k EXCEPT !.seen = found, !.met = FALSE]
Hurt(k) == [k EXCEPT !.hurt = TRUE]

Fault == mishaps < MaxTroubles /\ mishaps' = mishaps + 1

\* The caller's record, and the other calls notice that the device changed.
Changes(c, k, list) ==
    /\ entries' = list
    /\ call' = [d \in Callers |-> IF d = c THEN k
                                  ELSE IF call[d] = Nobody THEN Nobody
                                  ELSE [call[d] EXCEPT !.met = @ \/ list # entries]]
    /\ UNCHANGED <<firmware, started, crossed>>

\* A read: answered, or without an answer.
Read(c, answered, failed) ==
    \/ Changes(c, answered, entries) /\ UNCHANGED mishaps
    \/ Fault /\ Changes(c, Hurt(failed), entries)

\* A write that leads to list if the device takes it.
Send(c, takes, list, done, refused, failed) ==
    \/ takes /\ Changes(c, done, list) /\ UNCHANGED mishaps
    \/ ~takes /\ Changes(c, refused, entries) /\ UNCHANGED mishaps
    \/ Fault /\ Changes(c, Hurt(failed), entries)
    \/ Fault /\ takes /\ Changes(c, Hurt(failed), list)
    \/ Fault /\ Changes(c, Hurt(refused), entries)
    \/ Fault /\ takes /\ Changes(c, [Hurt(done) EXCEPT !.lied = TRUE], entries)

-----------------------------------------------------------------------------
(* Sangfor: the black list holds an address once.                          *)

\* The address is where the call wants it.
Listed(k) == (Of(k.ip) # {}) = (k.op = "block")

SangforLogin(c) ==
    /\ Stands(c, "sangfor", "login")
    /\ Read(c, Goes(call[c], "find"), Ends(call[c], "failed"))

SangforFind(c) ==
    /\ Stands(c, "sangfor", "find")
    /\ LET k == Looks(call[c], {})
       IN  Read(c, IF Listed(k) THEN Ends(k, "success") ELSE Goes(k, "write"), Ends(k, "failed"))

SangforList(k) ==
    IF k.op = "block" THEN entries \cup {[ip |-> k.ip, dir |-> "any", status |-> "block", id |-> 0]}
    ELSE entries \ Of(k.ip)

SangforWrite(c) ==
    /\ Stands(c, "sangfor", "write")
    /\ LET k == call[c]
       IN  Send(c, TRUE, SangforList(k), Goes(k, "verify"), Ends(k, "failed"), Ends(k, "failed"))

\* A state that cannot be read is no reason to call the action failed.
SangforVerify(c) ==
    /\ Stands(c, "sangfor", "verify")
    /\ LET k == call[c]
       IN  Read(c, IF Listed(k) THEN Ends(k, "success")
                   ELSE IF k.tries < VERIFY_ATTEMPTS THEN Again(k, "verify") ELSE Ends(k, "failed"),
                [Ends(k, "success") EXCEPT !.blind = TRUE])

-----------------------------------------------------------------------------
(* NSFocus: entries have ids; a token instead of a session.                *)

\* Mutation: the part that the search answers with is taken for all.
NsfocusEntriesCut(ip) == IF firmware.cuts THEN {} ELSE Of(ip)
NsfocusEntries(ip) ==
    LET hits == IF firmware.cuts THEN {} ELSE Of(ip)
    IN  IF hits # {} \/ entries = {} THEN hits ELSE Of(ip)

NsfocusFind(c) ==
    /\ Stands(c, "nsfocus", "login")
    /\ LET k     == call[c]
           found == NsfocusEntries(k.ip)
           next  == Looks(k, found)
       IN  Read(c, IF (found # {}) = (k.op = "block") THEN Ends(next, "success") ELSE Goes(next, "write"),
                Ends(next, "failed"))

NsfocusList(k) ==
    IF k.op = "block" THEN entries \cup {[ip |-> k.ip, dir |-> "any", status |-> "block", id |-> k.no]}
    ELSE {e \in entries : e.id \notin {s.id : s \in k.seen}}

NsfocusWrite(c) ==
    /\ Stands(c, "nsfocus", "write")
    /\ LET k == call[c]
       IN  Send(c, TRUE, NsfocusList(k), Goes(k, "check"), Ends(k, "failed"), Ends(k, "failed"))

\* Mutation: the entry is not looked up again.
NsfocusTrust(c) ==
    /\ Stands(c, "nsfocus", "check")
    /\ Changes(c, Ends(call[c], "success"), entries) /\ UNCHANGED mishaps
NsfocusCheck(c) ==
    /\ Stands(c, "nsfocus", "check")
    /\ LET k == call[c]
       IN  Read(c, Ends(k, IF (NsfocusEntries(k.ip) # {}) = (k.op = "block") THEN "success" ELSE "failed"),
                Ends(k, "failed"))

-----------------------------------------------------------------------------
(* Hillstone: the group of addresses is read, changed and written back     *)
(* whole.  A request may find the session expired: log in and repeat it.   *)

Group(k) == {e.ip : e \in k.seen}
HillstoneLogin(c) ==
    /\ Stands(c, "hillstone", "login")
    /\ LET k == call[c]
       IN  Read(c, IF k.back = "none" THEN Goes(k, "find") ELSE [k EXCEPT !.step = k.back], Ends(k, "failed"))

\* The session may have expired, once for each request that is repeated.
Expires(c) ==
    /\ \E step \in Repeated : Stands(c, "hillstone", step)
    /\ LET k == call[c]
       IN  /\ Fault
           /\ Changes(c, Hurt(IF k.back = k.step THEN Ends(k, "failed")
                              ELSE [k EXCEPT !.step = "login", !.back = k.step]), entries)

HillstoneFind(c) ==
    /\ Stands(c, "hillstone", "find")
    /\ LET k == Looks(call[c], entries)
       IN  Read(c, IF Listed(k) THEN Ends(k, "success") ELSE [k EXCEPT !.step = "write", !.back = "none"], Ends(k, "failed"))

\* Mutation: only the address of the call is written.
HillstoneListAlone(k) ==
    {[ip |-> i, dir |-> "any", status |-> "block", id |-> 0] : i \in IF k.op = "block" THEN {k.ip} ELSE {}}
HillstoneList(k) ==
    {[ip |-> i, dir |-> "any", status |-> "block", id |-> 0] :
        i \in IF k.op = "block" THEN Group(k) \cup {k.ip} ELSE Group(k) \ {k.ip}}

HillstoneWrite(c) ==
    /\ Stands(c, "hillstone", "write")
    /\ LET k == call[c]
       IN  Send(c, TRUE, HillstoneList(k), [k EXCEPT !.step = "readback", !.back = "none"],
                 Ends(k, "failed"), Ends(k, "failed"))

HillstoneReadBack(c) ==
    /\ Stands(c, "hillstone", "readback")
    /\ LET k == call[c]
       IN  Read(c, IF Listed(k) THEN Ends(k, "success")
                   ELSE IF k.tries < MAX_ATTEMPTS THEN Again(k, "find") ELSE Ends(k, "failed"),
                Ends(k, "failed"))

-----------------------------------------------------------------------------
(* Topsec: records by direction; some firmwares take one of an address.    *)

Have(k) == {e.dir : e \in k.seen}
RecordOf(ip, dir) == [ip |-> ip, dir |-> dir, status |-> "block", id |-> 0]
TopsecTakes(ip) == firmware.pairs \/ Of(ip) = {}

TopsecLogin(c) ==
    /\ Stands(c, "topsec", "login")
    /\ Read(c, Goes(call[c], "find"), Ends(call[c], "failed"))

TopsecFind(c) ==
    /\ Stands(c, "topsec", "find")
    /\ LET k == Looks(call[c], Of(call[c].ip))
           there == IF k.op = "block" THEN {"src", "dst"} \subseteq Have(k) ELSE k.seen = {}
       IN  Read(c, IF there THEN Ends(k, "success")
                   ELSE Goes(k, IF k.op = "block" THEN "group" ELSE "delete"), Ends(k, "failed"))

\* Without the name of a group the default one is used.
TopsecGroup(c) ==
    /\ Stands(c, "topsec", "group")
    /\ LET k == Goes(call[c], IF "src" \in Have(call[c]) THEN "destination" ELSE "source")
       IN  Read(c, k, k)

\* Mutation: an entry of the other direction is left in the way.
TopsecSourceOnly(c) ==
    /\ Stands(c, "topsec", "source")
    /\ LET k == call[c]
           done == IF "dst" \in Have(k) THEN Ends(k, "success") ELSE Goes(k, "destination")
       IN  Send(c, TopsecTakes(k.ip), entries \cup {RecordOf(k.ip, "src")}, done, Ends(k, "failed"), Ends(k, "failed"))
\* An entry of the other direction may be in the way: it is deleted first.
TopsecSource(c) ==
    /\ Stands(c, "topsec", "source")
    /\ LET k == call[c]
           done == IF "dst" \in Have(k) THEN Ends(k, "success") ELSE Goes(k, "destination")
           away == IF Have(k) = {} THEN Ends(k, "failed") ELSE Goes(k, "replace")
       IN  Send(c, TopsecTakes(k.ip), entries \cup {RecordOf(k.ip, "src")}, done, away, away)

TopsecReplace(c) ==
    /\ Stands(c, "topsec", "replace")
    /\ LET k == call[c]
       IN  Send(c, TRUE, entries \ Of(k.ip), Goes([k EXCEPT !.seen = {}], "source"), Ends(k, "failed"), Ends(k, "failed"))

\* The destination is a bonus: its failure is logged and no more.
TopsecDestination(c) ==
    /\ Stands(c, "topsec", "destination")
    /\ LET k == Ends(call[c], "success")
       IN  Send(c, TopsecTakes(k.ip), entries \cup {RecordOf(k.ip, "dst")}, k, k, k)

TopsecDelete(c) ==
    /\ Stands(c, "topsec", "delete")
    /\ LET k == call[c]
       IN  Send(c, TRUE, entries \ Of(k.ip), Ends(k, "success"), Ends(k, "failed"), Ends(k, "failed"))

-----------------------------------------------------------------------------
(* Qianxin: disposals with a status; what cannot be deleted is revoked, and *)
(* stays on the list.                                                      *)

\* The whole list is searched only when the search finds nothing.
QianxinFound(ip, statuses) ==
    LET all  == {e \in Of(ip) : e.status \in statuses}
        hits == IF firmware.narrow THEN {e \in all : e.dir = "src"} ELSE all
    IN  IF hits # {} THEN hits ELSE all

\* The device goes by the addresses of a record.
Located(rows) == {e \in entries : \E r \in rows : r.ip = e.ip /\ r.dir = e.dir}
Deletes(rows) == ~firmware.keeps /\ \A e \in Located(rows) : e.status = "block"
Revoked(rows) == {IF e \in Located(rows) THEN [e EXCEPT !.status = "undisposed"] ELSE e : e \in entries}

Acting(k) == {e \in k.seen : e.status = "block"}
Pending(k) == k.seen \ Acting(k)

QianxinLogin(c) ==
    /\ Stands(c, "qianxin", "login")
    /\ Read(c, Goes(call[c], "find"), Ends(call[c], "failed"))

QianxinFind(c) ==
    /\ Stands(c, "qianxin", "find")
    /\ LET ip == call[c].ip
           k  == Looks(call[c], QianxinFound(ip, IF call[c].op = "block" THEN {"block"} ELSE {"block", "undisposed"}))
           next == IF k.op = "block"
                   THEN IF {"src", "dst"} \subseteq Have(k) THEN Ends(k, "success") ELSE Goes(k, "add")
                   ELSE IF k.seen = {} THEN Ends(k, "success")
                        ELSE Goes(k, IF Acting(k) # {} THEN "delete" ELSE "tidy")
       IN  Read(c, next, Ends(k, "failed"))

QianxinAdd(c) ==
    /\ Stands(c, "qianxin", "add")
    /\ LET k == call[c]
       IN  Send(c, TRUE,
                 entries \cup {[ip |-> k.ip, dir |-> d, status |-> "block", id |-> k.no] : d \in {"src", "dst"} \ Have(k)},
                 Ends(k, "success"), Ends(k, "failed"), Ends(k, "failed"))

\* A refused request is repeated once in the other form.
OtherForm(k, last) == IF k.tries = 1 THEN Again(k, k.step) ELSE last
AfterActing(k) == IF Pending(k) = {} THEN Ends(k, "success") ELSE Goes(k, "tidy")

QianxinDelete(c) ==
    /\ Stands(c, "qianxin", "delete")
    /\ LET k == call[c]
       IN  Send(c, Deletes(Acting(k)), entries \ Located(Acting(k)), AfterActing(k),
                 OtherForm(k, Goes(k, "revoke")), Ends(k, "failed"))

QianxinRevoke(c) ==
    /\ Stands(c, "qianxin", "revoke")
    /\ LET k == call[c]
       IN  Send(c, firmware.exact => k.tries = 2, Revoked(Acting(k)), AfterActing(k),
                 OtherForm(k, Ends(k, "failed")), Ends(k, "failed"))

\* Records left by a revocation go if the device lets them.
QianxinTidy(c) ==
    /\ Stands(c, "qianxin", "tidy")
    /\ LET k == call[c]
       IN  Send(c, Deletes(Pending(k)), entries \ Located(Pending(k)), Ends(k, "success"),
                 OtherForm(k, Ends(k, "success")), Ends(k, "failed"))

-----------------------------------------------------------------------------

\* An administrator adds the device.
AddDevice(f) ==
    /\ firmware = Nobody
    /\ firmware' = f
    /\ UNCHANGED <<entries, call, started, mishaps, crossed>>

Start(c, op, ip) ==
    /\ firmware # Nobody /\ ~Open(c)
    /\ started < MaxCalls /\ started' = started + 1
    /\ call' = [call EXCEPT ![c] =
                  [no |-> started + 1, op |-> op, ip |-> ip, step |-> "login", seen |-> {}, tries |-> 1, back |-> "none",
                   result |-> "running", met |-> FALSE, lied |-> FALSE, blind |-> FALSE, hurt |-> FALSE]]
    /\ crossed' = IF \E d \in Callers \ {c} : Open(d) /\ call[d].ip = ip THEN crossed \cup {ip} ELSE crossed
    /\ UNCHANGED <<firmware, entries, mishaps>>

Sangfor(c)   == SangforLogin(c) \/ SangforFind(c) \/ SangforWrite(c) \/ SangforVerify(c)
Nsfocus(c)   == NsfocusFind(c) \/ NsfocusWrite(c) \/ NsfocusCheck(c)
Hillstone(c) == HillstoneLogin(c) \/ Expires(c) \/ HillstoneFind(c) \/ HillstoneWrite(c) \/ HillstoneReadBack(c)
Topsec(c)    == TopsecLogin(c) \/ TopsecFind(c) \/ TopsecGroup(c) \/ TopsecSource(c) \/ TopsecReplace(c)
                  \/ TopsecDestination(c) \/ TopsecDelete(c)
Qianxin(c)   == QianxinLogin(c) \/ QianxinFind(c) \/ QianxinAdd(c) \/ QianxinDelete(c) \/ QianxinRevoke(c) \/ QianxinTidy(c)

Ask(c) == Sangfor(c) \/ Nsfocus(c) \/ Hillstone(c) \/ Topsec(c) \/ Qianxin(c)

DriversNext ==
    \/ \E f \in Firmwares : AddDevice(f)
    \/ \E c \in Callers : (\E op \in {"block", "unblock"}, ip \in Addresses : Start(c, op, ip)) \/ Ask(c)

DriversSpec == DriversInit /\ [][DriversNext]_driverVars

-----------------------------------------------------------------------------
(* Properties                                                              *)

DriversTypeOK ==
    /\ firmware \in Firmwares \cup {Nobody}
    /\ entries \subseteq Entry
    /\ call \in [Callers -> Call \cup {Nobody}]
    /\ started \in 0..MaxCalls /\ mishaps \in 0..MaxTroubles /\ crossed \subseteq Addresses

Blocked(ip) ==
    /\ \E e \in InForce(ip) : e.dir \in {"any", "src"}
    /\ firmware.vendor = "qianxin" => \E e \in InForce(ip) : e.dir = "dst"
Free(ip) == \A e \in InForce(ip) : firmware.narrow /\ e.dir = "dst"

\* Topsec and Qianxin do not look again after the write, Sangfor may be unable to.
Fooled(k) == k.lied /\ (firmware.vendor \in {"topsec", "qianxin"} \/ k.blind)

\* What a call reports as done is done, whatever was lost, refused, repeated or replaced
\* on the way: a block stops what comes from the address (executor.py records a success and
\* the alerts are marked as blocked), an unblock leaves no entry that stops it.  Calls that
\* another one met since they looked, and writes acknowledged without effect that nothing
\* read back, are excused; so are destination entries Qianxin's search does not find.
SuccessIsTrue ==
    \A c \in Callers :
        LET k == call[c]
        IN  k # Nobody /\ firmware # Nobody =>
              (k.result = "success" /\ ~k.met /\ ~Fooled(k) =>
                  IF k.op = "block" THEN Blocked(k.ip) ELSE Free(k.ip))

\* A call that meets neither a fault nor another call gets through, whatever the firmware:
\* one record for each address, no deletion, revocation by the full record only.
QuietCallsSucceed ==
    \A c \in Callers :
        call[c] # Nobody => (call[c].result = "failed" => call[c].hurt \/ call[c].met)

\* The look before the write: repeated blocks, after a lost answer too, do not pile up
\* entries, unless two calls were about the address at once or the search hides one.
NoDoubleEntries ==
    \A e, f \in entries :
        e.ip = f.ip /\ e.dir = f.dir /\ e.status = "block" /\ f.status = "block" =>
            e = f \/ e.ip \in crossed \/ firmware.narrow

\* An address stops being blocked only by an unblock of it or by Topsec's replacement of a
\* record in the way, and starts to be blocked only by a block of it: except that the
\* rewriting of a Hillstone group, which another call has changed since it was read, undoes
\* that change, a block or an unblock of any address.
BlocksChangeForAReason ==
    [][\A ip \in Addresses :
          /\ InForce(ip) # {} /\ (InForce(ip))' = {} =>
                \E c \in Callers :
                    /\ Open(c)
                    /\ \/ call[c].ip = ip /\ call[c].op = "unblock"
                       \/ call[c].ip = ip /\ Stands(c, "topsec", "replace")
                       \/ call[c].met /\ Stands(c, "hillstone", "write")
          /\ InForce(ip) = {} /\ (InForce(ip))' # {} =>
                \E c \in Callers :
                    /\ Open(c)
                    /\ \/ call[c].ip = ip /\ call[c].op = "block"
                       \/ call[c].met /\ Stands(c, "hillstone", "write")]_driverVars

\* sensemind_device/client.py:3 has max_concurrency enforced by the common client.  With a
\* device that takes one call at a time no block would be undone by a call about another
\* address.
OthersBlocksStay ==
    [][\A ip \in Addresses :
          InForce(ip) # {} /\ (InForce(ip))' = {} => \E c \in Callers : Open(c) /\ call[c].ip = ip]_driverVars
=============================================================================
