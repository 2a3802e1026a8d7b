---------------------------- MODULE DeviceProofs ----------------------------
(* Theorems about the responder's devices, for every value of the          *)
(* constants: about DeviceDrivers, then about DriverRegistry, and about    *)
(* DeviceStore at the end.                                                 *)
EXTENDS DeviceDrivers, DriverRegistry, DeviceStore, TLAPS

-----------------------------------------------------------------------------
(* What a call knows of a list of entries                                  *)

Maker(vendor) == firmware.vendor = vendor

EntriesOn(list, ip) == {e \in list : e.ip = ip}
Forced(list, ip) == {e \in EntriesOn(list, ip) : e.status = "block"}
Stopped(list, ip) ==
    /\ \E e \in Forced(list, ip) : e.dir \in {"any", "src"}
    /\ Maker("qianxin") => \E e \in Forced(list, ip) : e.dir = "dst"
Passing(list, ip) == \A e \in Forced(list, ip) : firmware.narrow /\ e.dir = "dst"
Settled(k, list) == (EntriesOn(list, k.ip) # {}) = (k.op = "block")
FoundOn(list, ip, statuses) ==
    LET all  == {e \in EntriesOn(list, ip) : e.status \in statuses}
        hits == IF firmware.narrow THEN {e \in all : e.dir = "src"} ELSE all
    IN  IF hits # {} THEN hits ELSE all

\* What a make lists.
Fits(e) ==
    /\ firmware.vendor \in {"sangfor", "nsfocus", "hillstone"} => e.dir = "any" /\ e.status = "block"
    /\ Maker("topsec") => e.dir \in {"src", "dst"} /\ e.status = "block"
    /\ Maker("qianxin") => e.dir \in {"src", "dst"}
    /\ firmware.vendor \in {"sangfor", "hillstone", "topsec"} => e.id = 0

\* At a step, or on the way back to it through a new session.
AboutTo(k, step) == k.step = step \/ (k.step = "login" /\ k.back = step)

\* Of a running call, whatever others did.
Shape(k) ==
    /\ Maker("topsec") =>
          /\ k.step = "delete" => k.op = "unblock"
          /\ k.step \in {"group", "source", "replace", "destination"} => k.op = "block"
    /\ Maker("qianxin") =>
          /\ k.step = "add" => k.op = "block"
          /\ k.step \in {"delete", "revoke", "tidy"} => k.op = "unblock"
          /\ k.step = "revoke" => k.tries \in {1, 2}
    /\ firmware.vendor \in {"nsfocus", "qianxin"} => \A e \in k.seen : e.ip = k.ip

\* Of a running call that no other one met since it looked.
View(k, list) ==
    /\ Maker("nsfocus") /\ k.step = "write" => k.seen = EntriesOn(list, k.ip)
    /\ Maker("hillstone") /\ AboutTo(k, "write") => k.seen = list
    /\ ~k.lied =>
          /\ Maker("sangfor") /\ k.step = "verify" => Settled(k, list)
          /\ Maker("nsfocus") /\ k.step = "check" => Settled(k, list)
          /\ Maker("hillstone") /\ AboutTo(k, "readback") => Settled(k, list)
          /\ Maker("topsec") /\ k.step \in {"group", "source"} => k.seen = EntriesOn(list, k.ip)
          /\ Maker("topsec") /\ k.step = "destination" => Stopped(list, k.ip)
          /\ Maker("qianxin") /\ k.step = "add" => k.seen \subseteq Forced(list, k.ip)
          /\ Maker("qianxin") /\ k.step \in {"delete", "revoke"} =>
                k.seen = FoundOn(list, k.ip, {"block", "undisposed"})
          /\ Maker("qianxin") /\ k.step = "tidy" => Passing(list, k.ip)

\* Of a call.
Good(k, list) ==
    /\ k.lied => k.hurt
    /\ k.result = "running" => Shape(k) /\ (~k.met => View(k, list))
    /\ k.result = "failed" => k.hurt \/ k.met
    /\ k.result = "success" /\ ~k.met /\ ~Fooled(k) =>
          IF k.op = "block" THEN Stopped(list, k.ip) ELSE Passing(list, k.ip)

\* Of a running call that is alone with its address.
Alone(k, list) ==
    k.result = "running" /\ k.ip \notin crossed =>
        /\ Maker("nsfocus") /\ k.step = "write" /\ k.op = "block" => EntriesOn(list, k.ip) = {}
        /\ Maker("qianxin") /\ k.step = "add" /\ ~firmware.narrow => \A e \in Forced(list, k.ip) : e.dir \in Have(k)

Single(list) ==
    \A e, f \in list :
        e.ip = f.ip /\ e.dir = f.dir /\ e.status = "block" /\ f.status = "block" =>
            e = f \/ e.ip \in crossed \/ firmware.narrow

\* NSFocus: the id of an entry is the number of the call that made it.
IdsInv ==
    /\ \A e, f \in entries : e.id = f.id => e.ip = f.ip
    /\ \A e \in entries : e.id <= started
    /\ \A c \in Callers : call[c] # Nobody =>
          /\ \A e \in entries : e.id = call[c].no => e.ip = call[c].ip
          /\ \A s \in call[c].seen : s.id <= started
          /\ \A s \in call[c].seen, e \in entries : s.id = e.id => e.ip = call[c].ip
          /\ \A s \in call[c].seen, d \in Callers :
                call[d] # Nobody /\ s.id = call[d].no => call[d].ip = call[c].ip

DriversInv ==
    /\ DriversTypeOK
    /\ firmware = Nobody => entries = {} /\ \A c \in Callers : call[c] = Nobody
    /\ \A c \in Callers : call[c] # Nobody => call[c].no <= started
    /\ \A c, d \in Callers : c # d /\ call[c] # Nobody /\ call[d] # Nobody => call[c].no # call[d].no
    /\ \A c, d \in Callers : c # d /\ Open(c) /\ Open(d) /\ call[c].ip = call[d].ip => call[c].ip \in crossed
    /\ firmware # Nobody =>
          /\ \A e \in entries : Fits(e)
          /\ \A c \in Callers : call[c] # Nobody => Good(call[c], entries) /\ Alone(call[c], entries)
          /\ Single(entries)
          /\ Maker("nsfocus") => IdsInv

-----------------------------------------------------------------------------
(* The records of a call, field by field                                   *)

Moves(k, step, back) == [k EXCEPT !.step = step, !.back = back]
Lied(k) == [Hurt(k) EXCEPT !.lied = TRUE]
Blinded(k) == [k EXCEPT !.blind = TRUE]
SameRequest(k, r) == r \in Call /\ r.no = k.no /\ r.op = k.op /\ r.ip = k.ip
SameCall(k, r) == r \in Call /\ r.no = k.no /\ r.op = k.op /\ r.ip = k.ip /\ (r.met => k.met)
SameMarks(k, r) == r.lied = k.lied /\ r.blind = k.blind

LEMMA StepsAre ==
    /\ "login" \in Steps /\ "find" \in Steps /\ "check" \in Steps /\ "verify" \in Steps /\ "readback" \in Steps
    /\ "group" \in Steps /\ "write" \in Steps /\ "source" \in Steps /\ "replace" \in Steps
    /\ "destination" \in Steps /\ "add" \in Steps /\ "delete" \in Steps /\ "revoke" \in Steps
    /\ "tidy" \in Steps /\ "over" \in Steps
BY DEF Steps

LEMMA GoesIs ==
    ASSUME NEW k \in Call, NEW step \in Steps
    PROVE  LET r == Goes(k, step)
           IN  /\ SameCall(k, r) /\ SameMarks(k, r) /\ r.hurt = k.hurt /\ r.met = k.met
               /\ r.step = step /\ r.seen = k.seen /\ r.tries = 1 /\ r.back = "none" /\ r.result = k.result
BY DEF Goes, Call, SameCall, SameMarks

LEMMA AgainIs ==
    ASSUME NEW k \in Call, NEW step \in Steps
    PROVE  LET r == Again(k, step)
           IN  /\ SameCall(k, r) /\ SameMarks(k, r) /\ r.hurt = k.hurt /\ r.met = k.met
               /\ r.step = step /\ r.seen = k.seen /\ r.tries = k.tries + 1 /\ r.back = "none" /\ r.result = k.result
<1> DEFINE m == [k EXCEPT !.step = step]
<1>1. /\ SameCall(k, m) /\ SameMarks(k, m) /\ m.hurt = k.hurt /\ m.met = k.met
      /\ m.step = step /\ m.seen = k.seen /\ m.result = k.result /\ m.tries = k.tries /\ m.tries \in Nat
  BY DEF Call, SameCall, SameMarks
<1> DEFINE t == m.tries + 1
<1> DEFINE n == [m EXCEPT !.tries = t]
<1>2. Again(k, step) = [n EXCEPT !.back = "none"]  BY DEF Again
<1> HIDE DEF m
<1>3. /\ SameCall(k, n) /\ SameMarks(k, n) /\ n.hurt = k.hurt /\ n.met = k.met
      /\ n.step = step /\ n.seen = k.seen /\ n.result = k.result /\ n.tries = k.tries + 1
  <2>1. t \in Nat /\ t = k.tries + 1  BY <1>1
  <2> HIDE DEF t
  <2> QED  BY <1>1, <2>1 DEF Call, SameCall, SameMarks
<1> HIDE DEF n
<1> QED  BY <1>2, <1>3 DEF Call, SameCall, SameMarks

LEMMA EndsIs ==
    ASSUME NEW k \in Call, NEW result \in {"success", "failed"}
    PROVE  LET r == Ends(k, result)
           IN  /\ SameCall(k, r) /\ SameMarks(k, r) /\ r.hurt = k.hurt /\ r.met = k.met
               /\ r.step = "over" /\ r.seen = {} /\ r.result = result
<1> DEFINE m == [k EXCEPT !.step = "over", !.result = result]
<1>1. /\ SameCall(k, m) /\ SameMarks(k, m) /\ m.hurt = k.hurt /\ m.met = k.met
      /\ m.step = "over" /\ m.result = result
  BY DEF Call, Steps, SameCall, SameMarks
<1> DEFINE n == [m EXCEPT !.seen = {}]
<1>2. Ends(k, result) = [n EXCEPT !.tries = 1, !.back = "none"]  BY DEF Ends
<1> HIDE DEF m
<1>3. /\ SameCall(k, n) /\ SameMarks(k, n) /\ n.hurt = k.hurt /\ n.met = k.met
      /\ n.step = "over" /\ n.seen = {} /\ n.result = result
  BY <1>1 DEF Call, SameCall, SameMarks
<1> HIDE DEF n
<1> DEFINE p == [n EXCEPT !.tries = 1]
<1>4. /\ SameCall(k, p) /\ SameMarks(k, p) /\ p.hurt = k.hurt /\ p.met = k.met
      /\ p.step = "over" /\ p.seen = {} /\ p.result = result
  BY <1>3 DEF Call, SameCall, SameMarks
<1>5. Ends(k, result) = [p EXCEPT !.back = "none"]  BY <1>2
<1> HIDE DEF p
<1> QED  BY <1>4, <1>5 DEF Call, SameCall, SameMarks

LEMMA LooksIs ==
    ASSUME NEW k \in Call, NEW found \in SUBSET Entry
    PROVE  LET r == Looks(k, found)
           IN  /\ SameCall(k, r) /\ SameMarks(k, r) /\ r.hurt = k.hurt /\ r.met = FALSE
               /\ r.step = k.step /\ r.seen = found /\ r.tries = k.tries /\ r.back = k.back /\ r.result = k.result
BY DEF Looks, Call, SameCall, SameMarks

LEMMA MovesIs ==
    ASSUME NEW k \in Call, NEW step \in Steps, NEW back \in Repeated \cup {"none"}
    PROVE  LET r == Moves(k, step, back)
           IN  /\ SameCall(k, r) /\ SameMarks(k, r) /\ r.hurt = k.hurt /\ r.met = k.met
               /\ r.step = step /\ r.seen = k.seen /\ r.tries = k.tries /\ r.back = back /\ r.result = k.result
BY DEF Moves, Call, SameCall, SameMarks

LEMMA ReturnsIs ==
    ASSUME NEW k \in Call, NEW step \in Steps
    PROVE  LET r == [k EXCEPT !.step = step]
           IN  /\ SameCall(k, r) /\ SameMarks(k, r) /\ r.hurt = k.hurt /\ r.met = k.met
               /\ r.step = step /\ r.seen = k.seen /\ r.tries = k.tries /\ r.back = k.back /\ r.result = k.result
BY DEF Call, SameCall, SameMarks

LEMMA ForgetsIs ==
    ASSUME NEW k \in Call
    PROVE  LET r == [k EXCEPT !.seen = {}]
           IN  /\ SameCall(k, r) /\ SameMarks(k, r) /\ r.hurt = k.hurt /\ r.met = k.met
               /\ r.step = k.step /\ r.seen = {} /\ r.tries = k.tries /\ r.back = k.back /\ r.result = k.result
BY DEF Call, SameCall, SameMarks

LEMMA HurtIs ==
    ASSUME NEW k \in Call
    PROVE  LET r == Hurt(k)
           IN  /\ SameCall(k, r) /\ SameMarks(k, r) /\ r.hurt = TRUE /\ r.met = k.met
               /\ r.step = k.step /\ r.seen = k.seen /\ r.tries = k.tries /\ r.back = k.back /\ r.result = k.result
BY DEF Hurt, Call, SameCall, SameMarks

LEMMA LiedIs ==
    ASSUME NEW k \in Call
    PROVE  LET r == Lied(k)
           IN  /\ SameCall(k, r) /\ r.lied = TRUE /\ r.blind = k.blind /\ r.hurt = TRUE /\ r.met = k.met
               /\ r.step = k.step /\ r.seen = k.seen /\ r.tries = k.tries /\ r.back = k.back /\ r.result = k.result
BY DEF Lied, Hurt, Call, SameCall

LEMMA BlindedIs ==
    ASSUME NEW k \in Call
    PROVE  LET r == Blinded(k)
           IN  /\ SameCall(k, r) /\ r.lied = k.lied /\ r.blind = TRUE /\ r.hurt = k.hurt /\ r.met = k.met
               /\ r.step = k.step /\ r.seen = k.seen /\ r.tries = k.tries /\ r.back = k.back /\ r.result = k.result
BY DEF Blinded, Call, SameCall

-----------------------------------------------------------------------------
(* What a request may do                                                   *)

\* The record of the caller's request, with the list it leaves.
After(c, k, list) ==
    /\ SameCall(call[c], k)
    /\ Good(k, list) /\ Alone(k, list)
    /\ k.seen \subseteq call[c].seen \cup EntriesOn(entries, k.ip) \/ ~Maker("nsfocus")

\* Why an address may cease to be blocked.
Reason(c, ip) ==
    \/ call[c].ip = ip /\ call[c].op = "unblock"
    \/ call[c].ip = ip /\ Stands(c, "topsec", "replace")
    \/ call[c].met /\ Stands(c, "hillstone", "write")

\* Why an address may begin to be blocked.
Ground(c, ip) ==
    \/ call[c].ip = ip /\ call[c].op = "block"
    \/ call[c].met /\ Stands(c, "hillstone", "write")
Grounded(c, list) ==
    \A e \in list : e.status = "block" => e \in entries \/ Forced(entries, e.ip) # {} \/ Ground(c, e.ip)

\* The list that the caller's request may leave.
Allowed(c, list) ==
    /\ list \subseteq Entry
    /\ \A e \in list : Fits(e)
    /\ Single(list)
    /\ \A ip \in Addresses : Forced(entries, ip) # {} /\ Forced(list, ip) = {} => Reason(c, ip)
    /\ Grounded(c, list)
    /\ firmware.vendor \in {"nsfocus", "qianxin"} =>
          \A e \in list : e.status = "block" => e \in entries \/ e.ip = call[c].ip
    /\ Maker("nsfocus") => \A e \in list : e \in entries \/ (e.id = call[c].no /\ e.ip = call[c].ip)

Outcome(c) ==
    /\ \E k \in Call, list \in SUBSET Entry : Changes(c, k, list) /\ After(c, k, list) /\ Allowed(c, list)
    /\ mishaps' \in 0..MaxTroubles

\* A caller in the middle of its call.
Calling(c) == DriversInv /\ firmware # Nobody /\ c \in Callers /\ Open(c)

LEMMA CallerFacts ==
    ASSUME NEW c, Calling(c)
    PROVE  /\ call[c] \in Call /\ call[c].result = "running" /\ firmware \in Firmware
           /\ Good(call[c], entries) /\ Alone(call[c], entries)
           /\ Shape(call[c]) /\ (~call[c].met => View(call[c], entries))
           /\ (call[c].lied => call[c].hurt)
           /\ entries \in SUBSET Entry /\ \A e \in entries : Fits(e)
           /\ entries \subseteq Entry /\ Single(entries)
BY DriversAssumption DEF Calling, DriversInv, DriversTypeOK, Open, Good

LEMMA NothingChanges ==
    ASSUME NEW c, Calling(c)
    PROVE  Allowed(c, entries)
<1>1. entries \in SUBSET Entry /\ (\A e \in entries : Fits(e)) /\ Single(entries)  BY CallerFacts
<1>2. Grounded(c, entries)  BY DEF Grounded
<1> QED  BY <1>1, <1>2 DEF Allowed

\* A call that fails by a fault is in order whatever it knew.
LEMMA FailedIsGood ==
    ASSUME NEW c, Calling(c), NEW k \in Call, SameCall(call[c], k), NEW list
    PROVE  After(c, Hurt(Ends(k, "failed")), list)
<1> DEFINE e == Ends(k, "failed")
<1> DEFINE h == Hurt(e)
<1>1. e \in Call /\ SameCall(call[c], e) /\ e.result = "failed" /\ e.seen = {}
  BY EndsIs DEF SameCall
<1>2. SameCall(call[c], h) /\ h.result = "failed" /\ h.seen = {} /\ h.hurt
  BY <1>1, HurtIs DEF SameCall
<1> HIDE DEF h, e
<1>3. Good(h, list) /\ Alone(h, list)  BY <1>2 DEF Good, Alone
<1>4. After(c, h, list)  BY <1>2, <1>3 DEF After
<1> QED  BY <1>4 DEF h, e

\* One that fails without a new fault has had one, or met another call.
LEMMA GivenUpIsGood ==
    ASSUME NEW c, Calling(c), NEW k \in Call, SameCall(call[c], k), NEW list, k.hurt \/ k.met, k.lied => k.hurt
    PROVE  After(c, Ends(k, "failed"), list)
<1> DEFINE e == Ends(k, "failed")
<1>1. /\ SameCall(k, e) /\ SameMarks(k, e) /\ e.hurt = k.hurt /\ e.met = k.met
      /\ e.result = "failed" /\ e.seen = {}
  BY EndsIs
<1> HIDE DEF e
<1>2. After(c, e, list)  BY <1>1 DEF After, Good, Alone, SameCall, SameMarks
<1> QED  BY <1>2 DEF e

\* A fault takes nothing from what a call knows.
LEMMA HurtIsGood ==
    ASSUME NEW c, Calling(c), NEW k \in Call, NEW list, After(c, k, list)
    PROVE  After(c, Hurt(k), list)
<1> DEFINE h == Hurt(k)
<1>1. /\ SameCall(k, h) /\ SameMarks(k, h) /\ h.hurt = TRUE /\ h.met = k.met
      /\ h.step = k.step /\ h.seen = k.seen /\ h.tries = k.tries /\ h.back = k.back /\ h.result = k.result
  BY HurtIs
<1> HIDE DEF h
<1>2. SameCall(call[c], h)  BY <1>1 DEF After, SameCall
<1>3. Shape(k) => Shape(h)  BY <1>1 DEF Shape, SameCall
<1>4. View(k, list) => View(h, list)
  BY <1>1 DEF View, SameCall, SameMarks, Settled, AboutTo
<1>5. Good(h, list)  BY <1>1, <1>3, <1>4 DEF Good, After, SameCall, SameMarks, Fooled
<1>6. Alone(h, list)  BY <1>1 DEF Alone, After, SameCall, Have
<1> QED  BY <1>1, <1>2, <1>5, <1>6 DEF After, SameCall, h

\* A call that goes on, one that succeeds, one whose write was acknowledged in vain.
LEMMA RunningIsGood ==
    ASSUME NEW c, Calling(c), NEW k \in Call, NEW list,
           SameCall(call[c], k), k.result = "running", k.lied => k.hurt,
           Shape(k), ~k.met => View(k, list), Alone(k, list),
           k.seen \subseteq call[c].seen \cup EntriesOn(entries, k.ip) \/ ~Maker("nsfocus")
    PROVE  After(c, k, list)
BY DEF After, Good

LEMMA SucceedIsGood ==
    ASSUME NEW c, Calling(c), NEW k \in Call, NEW list, SameCall(call[c], k), k.lied => k.hurt,
           ~k.met /\ ~Fooled(k) => IF k.op = "block" THEN Stopped(list, k.ip) ELSE Passing(list, k.ip)
    PROVE  After(c, Ends(k, "success"), list)
<1> DEFINE e == Ends(k, "success")
<1>1. /\ SameCall(k, e) /\ SameMarks(k, e) /\ e.hurt = k.hurt /\ e.met = k.met
      /\ e.seen = {} /\ e.result = "success"
  BY EndsIs
<1> HIDE DEF e
<1>2. After(c, e, list)  BY <1>1 DEF After, Good, Alone, SameCall, SameMarks, Fooled
<1> QED  BY <1>2 DEF e

LEMMA LiedIsGood ==
    ASSUME NEW c, Calling(c), NEW k \in Call, NEW list,
           SameCall(call[c], k), k.result = "running", k.step \notin {"login", "write"},
           Shape(k), Alone(k, list),
           k.seen \subseteq call[c].seen \cup EntriesOn(entries, k.ip) \/ ~Maker("nsfocus")
    PROVE  After(c, Lied(k), list)
<1> DEFINE l == Lied(k)
<1>1. /\ SameCall(k, l) /\ l.lied = TRUE /\ l.hurt = TRUE /\ l.step = k.step /\ l.seen = k.seen
      /\ l.tries = k.tries /\ l.result = k.result
  BY LiedIs
<1> HIDE DEF l
<1>2. Shape(l)  BY <1>1 DEF Shape, SameCall
<1>3. View(l, list)  BY <1>1 DEF View, AboutTo
<1>4. Alone(l, list)  BY <1>1 DEF Alone, SameCall, Have
<1>5. After(c, l, list)  BY <1>1, <1>2, <1>3, <1>4, RunningIsGood DEF SameCall
<1> QED  BY <1>5 DEF l

LEMMA LiedSuccessIsGood ==
    ASSUME NEW c, Calling(c), NEW k \in Call, NEW list, SameCall(call[c], k),
           Maker("topsec") \/ Maker("qianxin")
    PROVE  After(c, Lied(Ends(k, "success")), list)
<1> DEFINE e == Ends(k, "success")
<1> DEFINE l == Lied(e)
<1>1. e \in Call /\ SameCall(k, e) /\ e.result = "success" /\ e.seen = {}  BY EndsIs DEF SameCall
<1> HIDE DEF e
<1>2. SameCall(k, l) /\ l.lied = TRUE /\ l.hurt = TRUE /\ l.result = "success" /\ l.seen = {}
  BY <1>1, LiedIs DEF SameCall
<1> HIDE DEF l
<1>3. After(c, l, list)  BY <1>2 DEF After, Good, Alone, SameCall, Fooled, Maker
<1> QED  BY <1>3 DEF l, e

LEMMA ReadOutcome ==
    ASSUME NEW c, Calling(c), NEW answered, NEW failed,
           After(c, answered, entries), After(c, Hurt(failed), entries),
           Read(c, answered, failed)
    PROVE  Outcome(c)
<1>1. answered \in Call /\ Hurt(failed) \in Call  BY DEF After, SameCall
<1>2. entries \in SUBSET Entry /\ Allowed(c, entries)  BY CallerFacts, NothingChanges
<1>3. mishaps' \in 0..MaxTroubles  BY DriversAssumption DEF Read, Fault, Calling, DriversInv, DriversTypeOK
<1>4. Changes(c, answered, entries) \/ Changes(c, Hurt(failed), entries)  BY DEF Read
<1> QED  BY <1>1, <1>2, <1>3, <1>4 DEF Outcome

LEMMA SendOutcome ==
    ASSUME NEW c, Calling(c), NEW takes, NEW list, NEW done, NEW refused, NEW failed,
           takes => After(c, done, list) /\ After(c, Lied(done), entries) /\ Allowed(c, list) /\ After(c, Hurt(failed), list),
           ~takes => After(c, refused, entries),
           After(c, Hurt(refused), entries), After(c, Hurt(failed), entries),
           Send(c, takes, list, done, refused, failed)
    PROVE  Outcome(c)
<1>1. entries \in SUBSET Entry /\ Allowed(c, entries)  BY CallerFacts, NothingChanges
<1>2. mishaps' \in 0..MaxTroubles  BY DriversAssumption DEF Send, Fault, Calling, DriversInv, DriversTypeOK
<1>3. ASSUME NEW k, NEW l, Changes(c, k, l), After(c, k, l), Allowed(c, l)
      PROVE  Outcome(c)
  BY <1>2, <1>3 DEF Outcome, After, Allowed, SameCall
<1>4. CASE takes /\ Changes(c, done, list)  BY <1>3, <1>4
<1>5. CASE ~takes /\ Changes(c, refused, entries)  BY <1>1, <1>3, <1>5
<1>6. CASE Changes(c, Hurt(failed), entries)  BY <1>1, <1>3, <1>6
<1>7. CASE takes /\ Changes(c, Hurt(failed), list)  BY <1>3, <1>7
<1>8. CASE Changes(c, Hurt(refused), entries)  BY <1>1, <1>3, <1>8
<1>9. CASE takes /\ Changes(c, Lied(done), entries)  BY <1>1, <1>3, <1>9
<1> QED  BY <1>4, <1>5, <1>6, <1>7, <1>8, <1>9 DEF Send, Lied

-----------------------------------------------------------------------------
(* Every such step leaves the invariant                                    *)

LEMMA OutcomeKeepsInv ==
    ASSUME NEW c, Calling(c), Outcome(c)
    PROVE  DriversInv'
<1>1. PICK k \in Call, list \in SUBSET Entry : Changes(c, k, list) /\ After(c, k, list) /\ Allowed(c, list)
  BY DEF Outcome
<1>2. c \in Callers /\ DriversInv /\ firmware # Nobody  BY DEF Calling
<1>3. /\ entries' = list /\ firmware' = firmware /\ started' = started /\ crossed' = crossed
      /\ mishaps' \in 0..MaxTroubles
  BY <1>1 DEF Changes, Outcome
<1>4. call[c] \in Call /\ call[c] # Nobody /\ call[c].result = "running" /\ SameCall(call[c], k)
  BY <1>1, CallerFacts DEF After, Calling, Open
<1>5. call' = [d \in Callers |-> IF d = c THEN k
                                 ELSE IF call[d] = Nobody THEN Nobody
                                 ELSE [call[d] EXCEPT !.met = @ \/ list # entries]]
  BY <1>1 DEF Changes
<1>6. call'[c] = k  BY <1>2, <1>5
<1>7. ASSUME NEW d \in Callers, d # c, call'[d] # Nobody
      PROVE  /\ call[d] \in Call /\ call[d] # Nobody /\ SameRequest(call[d], call'[d]) /\ SameMarks(call[d], call'[d])
             /\ call'[d].hurt = call[d].hurt /\ call'[d].step = call[d].step /\ call'[d].seen = call[d].seen
             /\ call'[d].tries = call[d].tries /\ call'[d].back = call[d].back /\ call'[d].result = call[d].result
             /\ call'[d].met = (call[d].met \/ list # entries)
  <2>1. call[d] # Nobody /\ call'[d] = [call[d] EXCEPT !.met = @ \/ list # entries]  BY <1>5, <1>7
  <2>2. call[d] \in Call  BY <1>2, <2>1 DEF DriversInv, DriversTypeOK
  <2> QED  BY <2>1, <2>2 DEF Call, SameCall, SameRequest, SameMarks
<1>8. DriversTypeOK'
  <2>1. ASSUME NEW d \in Callers  PROVE call'[d] \in Call \cup {Nobody}
    BY <1>5, <1>6, <1>7 DEF SameCall, SameRequest
  <2>2. call' \in [Callers -> Call \cup {Nobody}]  BY <1>5, <2>1
  <2> QED  BY <1>2, <1>3, <2>2 DEF DriversInv, DriversTypeOK
<1>9. (\A d \in Callers : call[d] # Nobody => call[d].no <= started)'
  BY <1>2, <1>3, <1>4, <1>6, <1>7 DEF DriversInv, SameCall, SameRequest
<1>10. ASSUME NEW d \in Callers, NEW e \in Callers, d # e, call'[d] # Nobody, call'[e] # Nobody
       PROVE  call'[d].no # call'[e].no
  BY <1>2, <1>4, <1>6, <1>7, <1>10 DEF DriversInv, SameCall, SameRequest
<1>11. ASSUME NEW d \in Callers, NEW e \in Callers, d # e, call'[d] # Nobody, call'[d].result = "running",
              call'[e] # Nobody, call'[e].result = "running", call'[d].ip = call'[e].ip
       PROVE  call'[d].ip \in crossed
  BY <1>2, <1>4, <1>6, <1>7, <1>11 DEF DriversInv, SameCall, SameRequest, Open
<1>12. (\A e \in entries : Fits(e))' /\ Single(entries)'
  BY <1>1, <1>3 DEF Allowed, Fits, Single, Maker
<1>13. ASSUME NEW d \in Callers, call'[d] # Nobody  PROVE Good(call[d], entries)' /\ Alone(call[d], entries)'
  <2> DEFINE l == call'[d]
  <2>1. CASE d = c
    <3>1. Good(l, list) /\ Alone(l, list)  BY <1>1, <1>6, <2>1 DEF After
    <3> QED  BY <1>3, <3>1 DEF Good, Alone, Shape, View, Maker, Fooled, Stopped, Passing, FoundOn
  <2>2. CASE d # c
    <3> DEFINE o == call[d]
    <3>1. /\ o \in Call /\ o # Nobody /\ SameRequest(o, l) /\ SameMarks(o, l)
          /\ l.hurt = o.hurt /\ l.step = o.step /\ l.seen = o.seen
          /\ l.tries = o.tries /\ l.back = o.back /\ l.result = o.result
          /\ l.met = (o.met \/ list # entries)
      BY <1>7, <1>13, <2>2
    <3>2. Good(o, entries) /\ Alone(o, entries)  BY <1>2, <3>1 DEF DriversInv
    <3>3. o.result = "running" /\ o.ip \notin crossed => o.ip # call[c].ip
      BY <1>2, <1>4, <2>2, <3>1 DEF DriversInv, Open
    <3> HIDE DEF l, o
    <3>4. Good(l, list)
      <4>1. o.result = "running" => Shape(l)
        <5>1. o.result = "running" => Shape(o)  BY <3>2 DEF Good
        <5> QED  BY <3>1, <5>1 DEF Shape, SameCall, SameRequest
      <4>2. CASE list = entries
        <5>1. View(o, entries) => View(l, list)
          BY <3>1, <4>2 DEF View, SameCall, SameRequest, SameMarks, Settled, AboutTo
        <5> QED  BY <3>1, <3>2, <4>1, <4>2, <5>1 DEF Good, SameCall, SameRequest, SameMarks, Fooled
      <4>3. CASE list # entries
        BY <3>1, <3>2, <4>1, <4>3 DEF Good, SameMarks
      <4> QED  BY <4>2, <4>3
    <3>5. Alone(l, list)
      <4> SUFFICES ASSUME l.result = "running", l.ip \notin crossed
                   PROVE  /\ Maker("nsfocus") /\ l.step = "write" /\ l.op = "block" => EntriesOn(list, l.ip) = {}
                          /\ Maker("qianxin") /\ l.step = "add" /\ ~firmware.narrow =>
                                \A e \in Forced(list, l.ip) : e.dir \in Have(l)
        BY DEF Alone
      <4>1. l.ip = o.ip /\ l.op = o.op /\ o.ip # call[c].ip  BY <3>1, <3>3 DEF SameCall, SameRequest
      <4>2. Maker("nsfocus") => EntriesOn(list, l.ip) \subseteq EntriesOn(entries, o.ip)
        BY <1>1, <4>1 DEF Allowed, EntriesOn
      <4>3. Maker("qianxin") => Forced(list, l.ip) \subseteq Forced(entries, o.ip)
        BY <1>1, <4>1 DEF Allowed, EntriesOn, Forced, Maker
      <4>4. Have(l) = Have(o)  BY <3>1 DEF Have
      <4> QED  BY <3>1, <3>2, <4>1, <4>2, <4>3, <4>4 DEF Alone
    <3>6. Good(call'[d], list) /\ Alone(call'[d], list)  BY <3>4, <3>5 DEF l
    <3> QED  BY <1>3, <3>6 DEF Good, Alone, Shape, View, Maker, Fooled, Stopped, Passing, FoundOn
  <2> QED  BY <2>1, <2>2
<1>14. ASSUME Maker("nsfocus")  PROVE IdsInv'
  <2> DEFINE K == call[c]
  <2>1. IdsInv /\ (\A d \in Callers : call[d] # Nobody => call[d].no <= started)
    BY <1>2, <1>14 DEF DriversInv
  <2>2. \A e \in list : e \in entries \/ (e.id = K.no /\ e.ip = K.ip)  BY <1>1, <1>14 DEF Allowed
  <2>3. \A d \in Callers : call'[d] # Nobody =>
           /\ call[d] # Nobody /\ call'[d].no = call[d].no /\ call'[d].ip = call[d].ip
           /\ call'[d].seen \subseteq call[d].seen \cup EntriesOn(entries, call[d].ip)
    BY <1>1, <1>4, <1>6, <1>7, <1>14 DEF SameCall, SameRequest, After
  <2>4. K # Nobody /\ K \in Call  BY <1>4
  <2>5. \A e, f \in list : e.id = f.id => e.ip = f.ip  BY <1>2, <2>1, <2>2, <2>4 DEF IdsInv
  <2>6. \A e \in list : e.id <= started  BY <1>2, <2>1, <2>2, <2>4 DEF IdsInv
  <2>7. ASSUME NEW d \in Callers, call'[d] # Nobody
        PROVE  /\ \A e \in list : e.id = call'[d].no => e.ip = call'[d].ip
               /\ \A s \in call'[d].seen : s.id <= started
               /\ \A s \in call'[d].seen, e \in list : s.id = e.id => e.ip = call'[d].ip
               /\ \A s \in call'[d].seen, f \in Callers :
                     call'[f] # Nobody /\ s.id = call'[f].no => call'[f].ip = call'[d].ip
    <3>1. call[d] # Nobody /\ call'[d].no = call[d].no /\ call'[d].ip = call[d].ip  BY <2>3, <2>7
    <3>2. (\A e \in list : e.id = call'[d].no => e.ip = call'[d].ip)
      <4> SUFFICES ASSUME NEW e \in list, e.id = call[d].no  PROVE e.ip = call[d].ip  BY <3>1
      <4>1. CASE e \in entries  BY <2>1, <3>1, <4>1 DEF IdsInv
      <4>2. CASE e.id = K.no /\ e.ip = K.ip  BY <1>2, <2>4, <3>1, <4>2 DEF DriversInv
      <4> QED  BY <2>2, <4>1, <4>2
    <3>3. \A s \in call'[d].seen : s.id <= started
      BY <2>1, <2>3, <2>7, <3>1 DEF IdsInv, EntriesOn
    <3>4. ASSUME NEW s \in call'[d].seen, NEW e \in list, s.id = e.id  PROVE e.ip = call'[d].ip
      <4>1. CASE s \in call[d].seen  BY <1>2, <2>1, <2>2, <2>4, <3>1, <3>4, <4>1 DEF IdsInv
      <4>2. CASE s \in entries /\ s.ip = call[d].ip
        BY <1>2, <2>1, <2>2, <2>4, <3>1, <3>4, <4>2 DEF IdsInv
      <4> QED  BY <2>3, <2>7, <3>4, <4>1, <4>2 DEF EntriesOn
    <3>5. ASSUME NEW s \in call'[d].seen, NEW f \in Callers, call'[f] # Nobody, s.id = call'[f].no
          PROVE  call'[f].ip = call'[d].ip
      <4>1. call[f] # Nobody /\ call'[f].no = call[f].no /\ call'[f].ip = call[f].ip  BY <2>3, <3>5
      <4>2. CASE s \in call[d].seen  BY <2>1, <3>1, <3>5, <4>1, <4>2 DEF IdsInv
      <4>3. CASE s \in entries /\ s.ip = call[d].ip
        BY <2>1, <3>1, <3>5, <4>1, <4>3 DEF IdsInv
      <4> QED  BY <2>3, <2>7, <3>5, <4>2, <4>3 DEF EntriesOn
    <3> QED  BY <3>2, <3>3, <3>4, <3>5
  <2> QED  BY <1>3, <2>5, <2>6, <2>7 DEF IdsInv
<1> QED
  BY <1>2, <1>3, <1>8, <1>9, <1>10, <1>11, <1>12, <1>13, <1>14 DEF DriversInv, Maker, Open

-----------------------------------------------------------------------------
(* Sangfor                                                                 *)

\* A list of a make whose entries all stop what they name.
LEMMA SettledSucceeds ==
    ASSUME NEW k \in Call, NEW list, \A e \in list : Fits(e), Settled(k, list),
           firmware.vendor \in {"sangfor", "nsfocus", "hillstone"}
    PROVE  IF k.op = "block" THEN Stopped(list, k.ip) ELSE Passing(list, k.ip)
BY DEF Settled, Stopped, Passing, Forced, EntriesOn, Fits, Maker

LEMMA SangforSteps ==
    ASSUME NEW c, Calling(c), Sangfor(c)
    PROVE  Outcome(c)
<1> DEFINE K == call[c]
<1>0. K \in Call /\ K.result = "running"  BY CallerFacts
<1>1. /\ K \in Call /\ firmware \in Firmware
      /\ Shape(K) /\ (~K.met => View(K, entries)) /\ (K.lied => K.hurt)
      /\ entries \in SUBSET Entry /\ (\A e \in entries : Fits(e)) /\ Single(entries)
  BY CallerFacts
<1>2. Maker("sangfor")  BY DEF Sangfor, SangforLogin, SangforFind, SangforWrite, SangforVerify, Stands, Maker
<1>3. \A k \in Call : Listed(k) = Settled(k, entries)  BY DEF Listed, Settled, Of, EntriesOn
<1>4. SameCall(K, K)  BY <1>0 DEF SameCall
\* What a Sangfor call knows is that its write has taken.
<1>5. ASSUME NEW r \in Call, NEW list, SameCall(K, r), r.result = "running", r.lied => r.hurt,
             ~r.met /\ ~r.lied /\ r.step = "verify" => Settled(r, list)
      PROVE  After(c, r, list)
  <2>1. Shape(r)  BY <1>2 DEF Shape, Maker
  <2>2. ~r.met => View(r, list)  BY <1>2, <1>5 DEF View, Maker
  <2>3. Alone(r, list)  BY <1>2 DEF Alone, Maker
  <2>4. ~Maker("nsfocus")  BY <1>2 DEF Maker
  <2> QED  BY <1>5, <2>1, <2>2, <2>3, <2>4, RunningIsGood
<1>6. ASSUME NEW k \in Call, SameCall(K, k)  PROVE After(c, Hurt(Ends(k, "failed")), entries)
  BY <1>6, FailedIsGood
<1>7. ASSUME NEW k \in Call, NEW list, SameCall(K, k), k.lied => k.hurt,
             ~k.met /\ ~Fooled(k) => Settled(k, list), \A e \in list : Fits(e)
      PROVE  After(c, Ends(k, "success"), list)
  BY <1>2, <1>7, SucceedIsGood, SettledSucceeds DEF Maker
<1> HIDE DEF K
<1>8. CASE SangforLogin(c)
  <2> DEFINE r == Goes(K, "find")
  <2>1. SameCall(K, r) /\ SameMarks(K, r) /\ r.hurt = K.hurt /\ r.met = K.met /\ r.result = "running" /\ r.step = "find"
    BY <1>0, GoesIs, StepsAre
  <2>2. Read(c, r, Ends(K, "failed"))  BY <1>8 DEF SangforLogin, K
  <2> HIDE DEF r
  <2>3. After(c, r, entries)  BY <1>1, <1>5, <2>1 DEF SameCall, SameMarks
  <2> QED  BY <1>1, <1>4, <1>6, <2>2, <2>3, ReadOutcome
<1>9. CASE SangforFind(c)
  <2> DEFINE k == Looks(K, {})
  <2>1. k \in Call /\ SameCall(K, k) /\ k.lied = K.lied /\ k.hurt = K.hurt /\ k.result = "running"
    BY <1>0, LooksIs DEF SameCall, SameMarks
  <2>2. Read(c, IF Listed(k) THEN Ends(k, "success") ELSE Goes(k, "write"), Ends(k, "failed"))
    BY <1>9 DEF SangforFind, K
  <2> HIDE DEF k
  <2>3. After(c, Hurt(Ends(k, "failed")), entries)  BY <1>6, <2>1
  <2>4. CASE Listed(k)
    <3>1. After(c, Ends(k, "success"), entries)  BY <1>1, <1>3, <1>7, <2>1, <2>4
    <3> QED  BY <2>2, <2>3, <2>4, <3>1, ReadOutcome
  <2>5. CASE ~Listed(k)
    <3> DEFINE r == Goes(k, "write")
    <3>1. SameCall(k, r) /\ SameMarks(k, r) /\ r.hurt = k.hurt /\ r.met = k.met /\ r.result = "running" /\ r.step = "write"
      BY <2>1, GoesIs, StepsAre
    <3>2. Read(c, r, Ends(k, "failed"))  BY <2>2, <2>5
    <3> HIDE DEF r
    <3>3. After(c, r, entries)  BY <1>1, <1>5, <2>1, <3>1 DEF SameCall, SameMarks
    <3> QED  BY <2>3, <3>2, <3>3, ReadOutcome
  <2> QED  BY <2>4, <2>5
<1>10. CASE SangforWrite(c)
  <2> DEFINE list == SangforList(K)
  <2> DEFINE r == Goes(K, "verify")
  <2>1. SameCall(K, r) /\ SameMarks(K, r) /\ r.hurt = K.hurt /\ r.met = K.met /\ r.result = "running" /\ r.step = "verify"
    BY <1>0, GoesIs, StepsAre
  <2>2. Send(c, TRUE, list, r, Ends(K, "failed"), Ends(K, "failed"))  BY <1>10 DEF SangforWrite, K
  <2> HIDE DEF r
  <2>3. Settled(r, list)
    <3>1. r.ip = K.ip /\ r.op = K.op  BY <2>1 DEF SameCall
    <3>2. ASSUME K.op = "block"  PROVE EntriesOn(list, K.ip) # {}
      <4> DEFINE e == [ip |-> K.ip, dir |-> "any", status |-> "block", id |-> 0]
      <4>1. e \in list /\ e.ip = K.ip  BY <3>2 DEF SangforList
      <4> QED  BY <4>1 DEF EntriesOn
    <3>3. K.op # "block" => EntriesOn(list, K.ip) = {}  BY DEF SangforList, EntriesOn, Of
    <3> QED  BY <3>1, <3>2, <3>3 DEF Settled
  <2>4. Allowed(c, list)
    <3>1. list \subseteq Entry
      <4>1. K.ip \in Addresses /\ 0 \in 0..MaxCalls  BY <1>1, DriversAssumption DEF Call
      <4> QED  BY <1>1, <4>1 DEF SangforList, Entry, Directions
    <3>2. \A e \in list : Fits(e)  BY <1>1, <1>2 DEF SangforList, Fits, Maker
    <3>3. Single(list)  BY <1>2, <3>1, <3>2 DEF Single, Fits, Maker, Entry
    <3>4. \A ip \in Addresses : Forced(entries, ip) # {} /\ Forced(list, ip) = {} => Reason(c, ip)
      BY <1>1 DEF SangforList, Forced, EntriesOn, Of, Reason, K, Call
    <3>5. Grounded(c, list)  BY DEF SangforList, Grounded, Ground, K
    <3> QED  BY <1>2, <3>1, <3>2, <3>3, <3>4, <3>5 DEF Allowed, Maker
  <2> HIDE DEF list
  <2>5. After(c, r, list)  BY <1>1, <1>5, <2>1, <2>3 DEF SameCall, SameMarks
  <2>6. After(c, Lied(r), entries)
    BY <1>1, <1>2, <2>1, LiedIsGood DEF Shape, Alone, Maker, SameCall, K
  <2>7. After(c, Hurt(Ends(K, "failed")), entries) /\ After(c, Hurt(Ends(K, "failed")), list)
    BY <1>1, <1>4, FailedIsGood DEF K
  <2> QED  BY <2>2, <2>4, <2>5, <2>6, <2>7, SendOutcome
<1>11. CASE SangforVerify(c)
  <2> DEFINE r == Again(K, "verify")
  <2> DEFINE s == Ends(K, "success")
  <2> DEFINE b == Blinded(s)
  <2>1. SameCall(K, r) /\ SameMarks(K, r) /\ r.hurt = K.hurt /\ r.met = K.met /\ r.result = "running"
    BY <1>0, AgainIs, StepsAre
  <2>2. SameCall(K, s) /\ SameMarks(K, s) /\ s.hurt = K.hurt /\ s.met = K.met /\ s.result = "success" /\ s.seen = {}
    BY <1>0, EndsIs
  <2>3. Read(c, IF Listed(K) THEN s ELSE IF K.tries < VERIFY_ATTEMPTS THEN r ELSE Ends(K, "failed"), b)
    BY <1>11 DEF SangforVerify, Blinded, K
  <2>4. K.step = "verify"  BY <1>11 DEF SangforVerify, Stands, K
  <2> HIDE DEF s
  <2>5. /\ SameCall(K, b) /\ b.lied = K.lied /\ b.blind /\ b.hurt = K.hurt /\ b.met = K.met
        /\ b.result = "success" /\ b.seen = {}
    BY <2>2, BlindedIs DEF SameCall, SameMarks
  <2> HIDE DEF r, b
  <2>6. ~K.met /\ ~K.lied => Settled(K, entries)  BY <1>1, <1>2, <2>4 DEF View
  <2>7. After(c, Hurt(b), entries)
    <3>1. ~b.met /\ ~Fooled(b) => IF b.op = "block" THEN Stopped(entries, b.ip) ELSE Passing(entries, b.ip)
      <4>1. ~b.met /\ ~Fooled(b) => Settled(b, entries)
        BY <2>5, <2>6 DEF Fooled, SameCall, Settled
      <4> QED  BY <1>1, <1>2, <2>5, <4>1, SettledSucceeds DEF SameCall, Maker
    <3>2. After(c, b, entries)  BY <1>1, <2>5, <3>1 DEF After, Good, Alone, SameCall, K
    <3> QED  BY <2>5, <3>2, HurtIsGood DEF SameCall
  <2>8. CASE Listed(K)
    <3>1. After(c, s, entries)  BY <1>1, <1>3, <1>4, <1>7, <2>8 DEF s
    <3> QED  BY <2>3, <2>7, <2>8, <3>1, ReadOutcome
  <2>9. CASE ~Listed(K) /\ K.tries < VERIFY_ATTEMPTS
    <3>1. After(c, r, entries)
      BY <1>1, <1>5, <2>1, <2>6 DEF SameCall, SameMarks, Settled
    <3> QED  BY <2>3, <2>7, <2>9, <3>1, ReadOutcome
  <2>10. CASE ~Listed(K) /\ ~(K.tries < VERIFY_ATTEMPTS)
    <3>1. K.hurt \/ K.met  BY <1>1, <1>3, <2>6, <2>10
    <3>2. After(c, Ends(K, "failed"), entries)  BY <1>1, <1>4, <3>1, GivenUpIsGood DEF K
    <3> QED  BY <2>3, <2>7, <2>10, <3>2, ReadOutcome
  <2> QED  BY <2>8, <2>9, <2>10
<1> QED  BY <1>8, <1>9, <1>10, <1>11 DEF Sangfor

-----------------------------------------------------------------------------
(* NSFocus                                                                 *)

\* The search that answers with a part is seen through: the whole list is read.
LEMMA NsfocusReadsAll == \A ip : NsfocusEntries(ip) = EntriesOn(entries, ip)
BY DEF NsfocusEntries, EntriesOn, Of

LEMMA NsfocusSteps ==
    ASSUME NEW c, Calling(c), Nsfocus(c)
    PROVE  Outcome(c)
<1> DEFINE K == call[c]
<1>0. K \in Call /\ K.result = "running"  BY CallerFacts
<1>1. /\ K \in Call /\ firmware \in Firmware
      /\ Shape(K) /\ (~K.met => View(K, entries)) /\ (K.lied => K.hurt) /\ Alone(K, entries)
      /\ entries \in SUBSET Entry /\ (\A e \in entries : Fits(e)) /\ Single(entries)
  BY CallerFacts
<1>2. Maker("nsfocus")  BY DEF Nsfocus, NsfocusFind, NsfocusWrite, NsfocusCheck, Stands, Maker
<1>3. c \in Callers /\ K # Nobody /\ IdsInv  BY <1>2 DEF Calling, DriversInv, Open
<1>4. SameCall(K, K)  BY <1>0 DEF SameCall
\* What an NSFocus call knows: what it read is what is there; then, that its write has taken.
<1>5. ASSUME NEW r \in Call, NEW list, SameCall(K, r), r.result = "running", r.lied => r.hurt,
             r.seen \subseteq K.seen \cup EntriesOn(entries, r.ip),
             r.step = "write" => (~r.met => r.seen = EntriesOn(list, r.ip)) /\ (r.op = "block" => EntriesOn(list, r.ip) = {}),
             ~r.met /\ ~r.lied /\ r.step = "check" => Settled(r, list)
      PROVE  After(c, r, list)
  <2>1. \A e \in r.seen : e.ip = r.ip  BY <1>1, <1>2, <1>5 DEF Shape, Maker, EntriesOn, SameCall
  <2>2. Shape(r)  BY <1>2, <2>1 DEF Shape, Maker
  <2>3. ~r.met => View(r, list)  BY <1>2, <1>5 DEF View, Maker
  <2>4. Alone(r, list)  BY <1>2, <1>5 DEF Alone, Maker
  <2> QED  BY <1>5, <2>2, <2>3, <2>4, RunningIsGood
<1>6. ASSUME NEW k \in Call, SameCall(K, k), NEW list  PROVE After(c, Hurt(Ends(k, "failed")), list)
  BY <1>6, FailedIsGood
<1>7. ASSUME NEW k \in Call, NEW list, SameCall(K, k), k.lied => k.hurt,
             ~k.met /\ ~Fooled(k) => Settled(k, list), \A e \in list : Fits(e)
      PROVE  After(c, Ends(k, "success"), list)
  BY <1>2, <1>7, SucceedIsGood, SettledSucceeds DEF Maker
<1> HIDE DEF K
<1>8. CASE NsfocusFind(c)
  <2> DEFINE found == NsfocusEntries(K.ip)
  <2> DEFINE k == Looks(K, found)
  <2>1. found = EntriesOn(entries, K.ip) /\ found \in SUBSET Entry  BY <1>1, NsfocusReadsAll DEF EntriesOn
  <2>2. Read(c, IF (found # {}) = (K.op = "block") THEN Ends(k, "success") ELSE Goes(k, "write"), Ends(k, "failed"))
    BY <1>8 DEF NsfocusFind, K
  <2> HIDE DEF found
  <2>3. /\ k \in Call /\ SameCall(K, k) /\ SameMarks(K, k) /\ k.hurt = K.hurt /\ k.seen = found /\ k.result = "running"
    BY <1>0, <2>1, LooksIs DEF SameCall
  <2> HIDE DEF k
  <2>4. k.ip = K.ip /\ k.op = K.op  BY <2>3 DEF SameCall
  <2>5. Settled(k, entries) = ((found # {}) = (K.op = "block"))  BY <2>1, <2>4 DEF Settled
  <2>6. After(c, Hurt(Ends(k, "failed")), entries)  BY <1>6, <2>3
  <2>7. k.lied => k.hurt  BY <1>1, <2>3 DEF SameMarks
  <2>8. CASE (found # {}) = (K.op = "block")
    <3>1. After(c, Ends(k, "success"), entries)  BY <1>1, <1>7, <2>3, <2>5, <2>7, <2>8
    <3> QED  BY <2>2, <2>6, <2>8, <3>1, ReadOutcome
  <2>9. CASE ~((found # {}) = (K.op = "block"))
    <3> DEFINE r == Goes(k, "write")
    <3>1. /\ SameCall(k, r) /\ SameMarks(k, r) /\ r.hurt = k.hurt /\ r.met = k.met /\ r.result = "running"
          /\ r.step = "write" /\ r.seen = found
      BY <2>3, GoesIs, StepsAre
    <3>2. Read(c, r, Ends(k, "failed"))  BY <2>2, <2>9
    <3> HIDE DEF r
    <3>3. r \in Call /\ SameCall(K, r) /\ r.ip = K.ip /\ r.op = K.op  BY <2>3, <3>1 DEF SameCall
    <3>4. r.lied => r.hurt  BY <2>7, <3>1 DEF SameMarks
    <3>5. r.op = "block" => EntriesOn(entries, r.ip) = {}  BY <2>1, <2>9, <3>3
    <3>6. After(c, r, entries)  BY <1>5, <2>1, <3>1, <3>3, <3>4, <3>5
    <3> QED  BY <2>6, <3>2, <3>6, ReadOutcome
  <2> QED  BY <2>8, <2>9
<1>9. CASE NsfocusWrite(c)
  <2> DEFINE list == NsfocusList(K)
  <2> DEFINE r == Goes(K, "check")
  <2>1. /\ SameCall(K, r) /\ SameMarks(K, r) /\ r.hurt = K.hurt /\ r.met = K.met /\ r.result = "running"
        /\ r.step = "check" /\ r.seen = K.seen
    BY <1>0, GoesIs, StepsAre
  <2>2. Send(c, TRUE, list, r, Ends(K, "failed"), Ends(K, "failed"))  BY <1>9 DEF NsfocusWrite, K
  <2> HIDE DEF r
  <2>3. K.step = "write"  BY <1>9 DEF NsfocusWrite, Stands, K
  <2>4. K.ip \in Addresses /\ K.no \in 0..MaxCalls /\ K.op \in {"block", "unblock"}
    BY <1>0, DriversAssumption DEF Call
  <2> DEFINE e0 == [ip |-> K.ip, dir |-> "any", status |-> "block", id |-> K.no]
  <2>5. e0 \in Entry /\ e0.ip = K.ip /\ e0.id = K.no /\ e0.status = "block" /\ e0.dir = "any"
    BY <2>4 DEF Entry, Directions
  <2>6. K.op = "block" => list = entries \cup {e0}  BY DEF NsfocusList
  <2>7. K.op = "unblock" => list = {e \in entries : e.id \notin {s.id : s \in K.seen}}  BY DEF NsfocusList
  <2> HIDE DEF e0, list
  <2>8. ~r.met /\ ~r.lied => Settled(r, list)
    <3> SUFFICES ASSUME ~K.met  PROVE Settled(K, list)
      BY <2>1 DEF SameCall, Settled
    <3>1. K.seen = EntriesOn(entries, K.ip)  BY <1>1, <1>2, <2>3 DEF View
    <3>2. CASE K.op = "block"  BY <2>5, <2>6, <3>2 DEF Settled, EntriesOn
    <3>3. CASE K.op = "unblock"
      <4>1. EntriesOn(list, K.ip) = {}  BY <2>7, <3>1, <3>3 DEF EntriesOn
      <4> QED  BY <3>3, <4>1 DEF Settled
    <3> QED  BY <2>4, <3>2, <3>3
  <2>9. Allowed(c, list)
    <3>1. list \subseteq Entry /\ \A e \in list : e \in entries \/ (e.id = K.no /\ e.ip = K.ip)
      BY <1>1, <2>4, <2>5, <2>6, <2>7
    <3>2. \A e \in list : Fits(e)  BY <1>1, <1>2, <2>4, <2>5, <2>6, <2>7 DEF Fits, Maker
    <3>3. Single(list)
      <4>1. CASE K.op = "block"
        <5>1. K.ip \notin crossed => EntriesOn(entries, K.ip) = {}  BY <1>0, <1>1, <1>2, <2>3, <4>1 DEF Alone
        <5> QED  BY <1>1, <2>5, <2>6, <4>1, <5>1 DEF Single, EntriesOn
      <4>2. CASE K.op = "unblock"  BY <1>1, <2>7, <4>2 DEF Single
      <4> QED  BY <2>4, <4>1, <4>2
    <3>4. ASSUME NEW ip \in Addresses, Forced(entries, ip) # {}, Forced(list, ip) = {}  PROVE Reason(c, ip)
      <4>1. PICK e \in entries : e.ip = ip /\ e.status = "block"  BY <3>4 DEF Forced, EntriesOn
      <4>2. e \notin list  BY <3>4, <4>1 DEF Forced, EntriesOn
      <4>3. K.op = "unblock"  BY <2>4, <2>6, <4>2
      <4>4. PICK x \in K.seen : x.id = e.id  BY <2>7, <4>2, <4>3
      <4>5. e.ip = K.ip  BY <1>3, <4>4 DEF IdsInv, K
      <4> QED  BY <4>1, <4>3, <4>5 DEF Reason, K
    <3>5. Maker("nsfocus") => \A e \in list : e \in entries \/ (e.id = call[c].no /\ e.ip = call[c].ip)
      BY <3>1 DEF K
    <3>6. Grounded(c, list)  BY <2>4, <2>5, <2>6, <2>7 DEF Grounded, Ground, K
    <3> QED  BY <3>1, <3>2, <3>3, <3>4, <3>5, <3>6 DEF Allowed, K
  <2>10. r \in Call /\ (r.lied => r.hurt)  BY <1>1, <2>1 DEF SameCall, SameMarks
  <2>11. After(c, r, list)  BY <1>5, <2>1, <2>8, <2>10
  <2>12. Shape(r) /\ Alone(r, entries)
    BY <1>1, <1>2, <2>1 DEF Shape, Alone, Maker, SameCall
  <2>13. After(c, Lied(r), entries)
    BY <2>1, <2>10, <2>12, LiedIsGood DEF K
  <2>14. After(c, Hurt(Ends(K, "failed")), entries) /\ After(c, Hurt(Ends(K, "failed")), list)
    BY <1>0, <1>4, <1>6
  <2> QED  BY <2>2, <2>9, <2>11, <2>13, <2>14, SendOutcome
<1>10. CASE NsfocusCheck(c)
  <2>1. K.step = "check"  BY <1>10 DEF NsfocusCheck, Stands, K
  <2>2. Read(c, Ends(K, IF Settled(K, entries) THEN "success" ELSE "failed"), Ends(K, "failed"))
    BY <1>10, NsfocusReadsAll DEF NsfocusCheck, Settled, K
  <2>3. After(c, Hurt(Ends(K, "failed")), entries)  BY <1>0, <1>4, <1>6
  <2>4. CASE Settled(K, entries)
    <3>1. After(c, Ends(K, "success"), entries)  BY <1>1, <1>4, <1>7, <2>4
    <3> QED  BY <2>2, <2>3, <2>4, <3>1, ReadOutcome
  <2>5. CASE ~Settled(K, entries)
    <3>1. K.hurt \/ K.met  BY <1>1, <1>2, <2>1, <2>5 DEF View
    <3>2. After(c, Ends(K, "failed"), entries)  BY <1>1, <1>4, <3>1, GivenUpIsGood DEF K
    <3> QED  BY <2>2, <2>3, <2>5, <3>2, ReadOutcome
  <2> QED  BY <2>4, <2>5
<1> QED  BY <1>8, <1>9, <1>10 DEF Nsfocus

-----------------------------------------------------------------------------
(* Hillstone                                                               *)

LEMMA HillstoneSteps ==
    ASSUME NEW c, Calling(c), Hillstone(c)
    PROVE  Outcome(c)
<1> DEFINE K == call[c]
<1>0. K \in Call /\ K.result = "running"  BY CallerFacts
<1>1. /\ K \in Call /\ firmware \in Firmware
      /\ Shape(K) /\ (~K.met => View(K, entries)) /\ (K.lied => K.hurt)
      /\ entries \in SUBSET Entry /\ (\A e \in entries : Fits(e)) /\ Single(entries)
  BY CallerFacts
<1>2. Maker("hillstone")
  BY DEF Hillstone, HillstoneLogin, Expires, HillstoneFind, HillstoneWrite, HillstoneReadBack, Stands, Maker
<1>3. \A k \in Call : Listed(k) = Settled(k, entries)  BY DEF Listed, Settled, Of, EntriesOn
<1>4. SameCall(K, K)  BY <1>0 DEF SameCall
\* What a Hillstone call knows: the group it read; then, that its write has taken.
<1>5. ASSUME NEW r \in Call, NEW list, SameCall(K, r), r.result = "running", r.lied => r.hurt,
             ~r.met /\ AboutTo(r, "write") => r.seen = list,
             ~r.met /\ ~r.lied /\ AboutTo(r, "readback") => Settled(r, list)
      PROVE  After(c, r, list)
  <2>1. Shape(r)  BY <1>2 DEF Shape, Maker
  <2>2. ~r.met => View(r, list)  BY <1>2, <1>5 DEF View, Maker
  <2>3. Alone(r, list)  BY <1>2 DEF Alone, Maker
  <2>4. ~Maker("nsfocus")  BY <1>2 DEF Maker
  <2> QED  BY <1>5, <2>1, <2>2, <2>3, <2>4, RunningIsGood
<1>6. ASSUME NEW k \in Call, SameCall(K, k), NEW list  PROVE After(c, Hurt(Ends(k, "failed")), list)
  BY <1>6, FailedIsGood
<1>7. ASSUME NEW k \in Call, NEW list, SameCall(K, k), k.lied => k.hurt,
             ~k.met /\ ~Fooled(k) => Settled(k, list), \A e \in list : Fits(e)
      PROVE  After(c, Ends(k, "success"), list)
  BY <1>2, <1>7, SucceedIsGood, SettledSucceeds DEF Maker
<1>8. /\ ~K.met /\ AboutTo(K, "write") => K.seen = entries
      /\ ~K.met /\ ~K.lied /\ AboutTo(K, "readback") => Settled(K, entries)
  BY <1>1, <1>2 DEF View
<1> HIDE DEF K
<1>9. CASE HillstoneLogin(c)
  <2>1. K.step = "login" /\ K.back \in Repeated \cup {"none"}  BY <1>0, <1>9 DEF HillstoneLogin, Stands, K, Call
  <2>2. Read(c, IF K.back = "none" THEN Goes(K, "find") ELSE [K EXCEPT !.step = K.back], Ends(K, "failed"))
    BY <1>9 DEF HillstoneLogin, K
  <2>3. After(c, Hurt(Ends(K, "failed")), entries)  BY <1>0, <1>4, <1>6
  <2>4. CASE K.back = "none"
    <3> DEFINE r == Goes(K, "find")
    <3>1. SameCall(K, r) /\ SameMarks(K, r) /\ r.hurt = K.hurt /\ r.step = "find" /\ r.result = "running"
      BY <1>0, GoesIs, StepsAre
    <3>2. Read(c, r, Ends(K, "failed"))  BY <2>2, <2>4
    <3> HIDE DEF r
    <3>3. After(c, r, entries)  BY <1>1, <1>5, <3>1 DEF SameCall, SameMarks, AboutTo
    <3> QED  BY <2>3, <3>2, <3>3, ReadOutcome
  <2>5. CASE K.back # "none"
    <3> DEFINE r == [K EXCEPT !.step = K.back]
    <3>1. K.back \in Repeated /\ K.back \in Steps /\ K.back # "login"  BY <2>1, <2>5 DEF Repeated, Steps
    <3>2. /\ SameCall(K, r) /\ SameMarks(K, r) /\ r.hurt = K.hurt /\ r.met = K.met /\ r.step = K.back
          /\ r.seen = K.seen /\ r.result = "running"
      BY <1>0, <3>1, ReturnsIs
    <3>3. Read(c, r, Ends(K, "failed"))  BY <2>2, <2>5
    <3> HIDE DEF r
    <3>4. AboutTo(r, "write") => AboutTo(K, "write")  BY <2>1, <3>1, <3>2 DEF AboutTo
    <3>5. AboutTo(r, "readback") => AboutTo(K, "readback")  BY <2>1, <3>1, <3>2 DEF AboutTo
    <3>6. After(c, r, entries)
      BY <1>1, <1>5, <1>8, <3>2, <3>4, <3>5 DEF SameCall, SameMarks, Settled
    <3> QED  BY <2>3, <3>3, <3>6, ReadOutcome
  <2> QED  BY <2>4, <2>5
<1>10. CASE Expires(c)
  <2>1. K.step \in Repeated /\ K.step # "login"  BY <1>10 DEF Expires, Stands, Repeated, K
  <2> DEFINE r == Moves(K, "login", K.step)
  <2>2. Fault /\ Changes(c, Hurt(IF K.back = K.step THEN Ends(K, "failed") ELSE r), entries)
    BY <1>10 DEF Expires, Moves, K
  <2>3. /\ SameCall(K, r) /\ SameMarks(K, r) /\ r.hurt = K.hurt /\ r.met = K.met /\ r.step = "login"
        /\ r.back = K.step /\ r.seen = K.seen /\ r.result = "running"
    BY <1>0, <2>1, MovesIs, StepsAre
  <2> HIDE DEF r
  <2>4. After(c, r, entries)
    BY <1>1, <1>5, <1>8, <2>1, <2>3 DEF SameCall, SameMarks, Settled, AboutTo
  <2>5. After(c, Hurt(r), entries)  BY <2>3, <2>4, HurtIsGood DEF SameCall
  <2>6. After(c, Hurt(Ends(K, "failed")), entries)  BY <1>0, <1>4, <1>6
  <2>7. CASE K.back = K.step
    <3>1. Read(c, Hurt(Ends(K, "failed")), Ends(K, "failed"))  BY <2>2, <2>7 DEF Read
    <3> QED  BY <2>6, <3>1, ReadOutcome
  <2>8. CASE K.back # K.step
    <3>1. Read(c, Hurt(r), r)  BY <2>2, <2>8 DEF Read
    <3> QED  BY <2>5, <3>1, ReadOutcome
  <2> QED  BY <2>7, <2>8
<1>11. CASE HillstoneFind(c)
  <2> DEFINE k == Looks(K, entries)
  <2> DEFINE r == Moves(k, "write", "none")
  <2>1. /\ k \in Call /\ SameCall(K, k) /\ SameMarks(K, k) /\ k.hurt = K.hurt /\ k.seen = entries
        /\ k.result = "running"
    BY <1>0, <1>1, LooksIs DEF SameCall
  <2>2. Read(c, IF Listed(k) THEN Ends(k, "success") ELSE r, Ends(k, "failed"))
    BY <1>11 DEF HillstoneFind, Moves, K
  <2> HIDE DEF k
  <2>3. /\ SameCall(k, r) /\ SameMarks(k, r) /\ r.hurt = k.hurt /\ r.step = "write" /\ r.seen = k.seen
        /\ r.result = "running"
    BY <2>1, MovesIs, StepsAre
  <2> HIDE DEF r
  <2>4. After(c, Hurt(Ends(k, "failed")), entries)  BY <1>6, <2>1
  <2>5. k.lied => k.hurt  BY <1>1, <2>1 DEF SameMarks
  <2>6. CASE Listed(k)
    <3>1. After(c, Ends(k, "success"), entries)  BY <1>1, <1>3, <1>7, <2>1, <2>5, <2>6
    <3> QED  BY <2>2, <2>4, <2>6, <3>1, ReadOutcome
  <2>7. CASE ~Listed(k)
    <3>1. After(c, r, entries)  BY <1>5, <2>1, <2>3, <2>5 DEF SameCall, SameMarks, AboutTo
    <3> QED  BY <2>2, <2>4, <2>7, <3>1, ReadOutcome
  <2> QED  BY <2>6, <2>7
<1>12. CASE HillstoneWrite(c)
  <2> DEFINE list == HillstoneList(K)
  <2> DEFINE r == Moves(K, "readback", "none")
  <2>1. /\ SameCall(K, r) /\ SameMarks(K, r) /\ r.hurt = K.hurt /\ r.step = "readback" /\ r.result = "running"
        /\ r.seen = K.seen
    BY <1>0, MovesIs, StepsAre
  <2>2. Send(c, TRUE, list, r, Ends(K, "failed"), Ends(K, "failed"))  BY <1>12 DEF HillstoneWrite, Moves, K
  <2> HIDE DEF r
  <2>3. Stands(c, "hillstone", "write") /\ K.step = "write"  BY <1>12 DEF HillstoneWrite, Stands, K
  <2>4. K.ip \in Addresses /\ K.op \in {"block", "unblock"} /\ K.seen \subseteq Entry  BY <1>0 DEF Call
  <2> DEFINE E(i) == [ip |-> i, dir |-> "any", status |-> "block", id |-> 0]
  <2> DEFINE I == IF K.op = "block" THEN Group(K) \cup {K.ip} ELSE Group(K) \ {K.ip}
  <2>5. list = {E(i) : i \in I}  BY DEF HillstoneList
  <2>6. I \subseteq Addresses  BY <2>4 DEF Group, Entry
  <2>7. \A i \in Addresses : E(i) \in Entry /\ E(i).ip = i /\ Fits(E(i))
    BY <1>2, DriversAssumption DEF Entry, Directions, Fits, Maker
  <2>8. K.op = "block" => K.ip \in I  OBVIOUS
  <2>9. K.op = "unblock" => K.ip \notin I  OBVIOUS
  <2>10. \A i \in I : i # K.ip => i \in Group(K)  OBVIOUS
  <2>11. \A i \in Group(K) : i \in I \/ (i = K.ip /\ K.op = "unblock")  BY <2>4
  <2> HIDE DEF list, I
  <2>12. Settled(r, list)
    <3>1. r.ip = K.ip /\ r.op = K.op  BY <2>1 DEF SameCall
    <3>2. CASE K.op = "block"
      <4>1. E(K.ip) \in list /\ E(K.ip).ip = K.ip  BY <2>4, <2>5, <2>7, <2>8, <3>2
      <4> HIDE DEF E
      <4> QED  BY <3>1, <3>2, <4>1 DEF Settled, EntriesOn
    <3>3. CASE K.op = "unblock"
      <4>1. \A e \in list : e.ip # K.ip  BY <2>5, <2>6, <2>7, <2>9, <3>3
      <4> QED  BY <3>1, <3>3, <4>1 DEF Settled, EntriesOn
    <3> QED  BY <2>4, <3>2, <3>3
  <2>13. Allowed(c, list)
    <3>1. list \subseteq Entry /\ \A e \in list : Fits(e)  BY <2>5, <2>6, <2>7
    <3>2. Single(list)  BY <1>2, <3>1 DEF Single, Fits, Maker, Entry
    <3>3. ASSUME NEW ip \in Addresses, Forced(entries, ip) # {}, Forced(list, ip) = {}  PROVE Reason(c, ip)
      <4>1. CASE K.met  BY <2>3, <4>1 DEF Reason, K
      <4>2. CASE ~K.met
        <5>1. K.seen = entries  BY <1>8, <2>3, <4>2 DEF AboutTo
        <5>2. ip \in Group(K)  BY <3>3, <5>1 DEF Group, Forced, EntriesOn
        <5>3. ip \in I => E(ip) \in list /\ E(ip).ip = ip /\ E(ip).status = "block"  BY <2>5, <2>6, <2>7
        <5> HIDE DEF E
        <5>4. ip \notin I  BY <3>3, <5>3 DEF Forced, EntriesOn
        <5> QED  BY <2>11, <5>2, <5>4 DEF Reason, K
      <4> QED  BY <4>1, <4>2
    <3>4. ASSUME NEW e \in list  PROVE Forced(entries, e.ip) # {} \/ Ground(c, e.ip)
      <4>1. e.ip \in I  BY <2>5, <2>6, <2>7
      <4>2. CASE K.met  BY <2>3, <4>2 DEF Ground, K
      <4>3. CASE e.ip = K.ip  BY <2>4, <2>9, <4>1, <4>3 DEF Ground, K
      <4>4. CASE ~K.met /\ e.ip # K.ip
        <5>1. K.seen = entries  BY <1>8, <2>3, <4>4 DEF AboutTo
        <5>2. PICK f \in entries : f.ip = e.ip  BY <2>10, <4>1, <4>4, <5>1 DEF Group
        <5>3. f.status = "block"  BY <1>1, <1>2, <5>2 DEF Fits, Maker
        <5> QED  BY <5>2, <5>3 DEF Forced, EntriesOn
      <4> QED  BY <4>2, <4>3, <4>4
    <3>5. Grounded(c, list)  BY <3>4 DEF Grounded
    <3> QED  BY <1>2, <3>1, <3>2, <3>3, <3>5 DEF Allowed, Maker
  <2>14. r \in Call /\ (r.lied => r.hurt)  BY <1>1, <2>1 DEF SameCall, SameMarks
  <2>15. After(c, r, list)  BY <1>5, <2>1, <2>12, <2>14 DEF AboutTo
  <2>16. After(c, Lied(r), entries)
    BY <1>2, <2>1, <2>14, LiedIsGood DEF Shape, Alone, Maker, K
  <2>17. After(c, Hurt(Ends(K, "failed")), entries) /\ After(c, Hurt(Ends(K, "failed")), list)
    BY <1>0, <1>4, <1>6
  <2> QED  BY <2>2, <2>13, <2>15, <2>16, <2>17, SendOutcome
<1>13. CASE HillstoneReadBack(c)
  <2> DEFINE r == Again(K, "find")
  <2>1. SameCall(K, r) /\ SameMarks(K, r) /\ r.hurt = K.hurt /\ r.step = "find" /\ r.result = "running"
    BY <1>0, AgainIs, StepsAre
  <2>2. Read(c, IF Listed(K) THEN Ends(K, "success") ELSE IF K.tries < MAX_ATTEMPTS THEN r ELSE Ends(K, "failed"),
             Ends(K, "failed"))
    BY <1>13 DEF HillstoneReadBack, K
  <2>3. K.step = "readback"  BY <1>13 DEF HillstoneReadBack, Stands, K
  <2> HIDE DEF r
  <2>4. After(c, Hurt(Ends(K, "failed")), entries)  BY <1>0, <1>4, <1>6
  <2>5. CASE Listed(K)
    <3>1. After(c, Ends(K, "success"), entries)  BY <1>1, <1>3, <1>4, <1>7, <2>5
    <3> QED  BY <2>2, <2>4, <2>5, <3>1, ReadOutcome
  <2>6. CASE ~Listed(K) /\ K.tries < MAX_ATTEMPTS
    <3>1. After(c, r, entries)  BY <1>1, <1>5, <2>1 DEF SameCall, SameMarks, AboutTo
    <3> QED  BY <2>2, <2>4, <2>6, <3>1, ReadOutcome
  <2>7. CASE ~Listed(K) /\ ~(K.tries < MAX_ATTEMPTS)
    <3>1. K.hurt \/ K.met  BY <1>1, <1>3, <1>8, <2>3, <2>7 DEF AboutTo
    <3>2. After(c, Ends(K, "failed"), entries)  BY <1>1, <1>4, <3>1, GivenUpIsGood DEF K
    <3> QED  BY <2>2, <2>4, <2>7, <3>2, ReadOutcome
  <2> QED  BY <2>5, <2>6, <2>7
<1> QED  BY <1>9, <1>10, <1>11, <1>12, <1>13 DEF Hillstone

-----------------------------------------------------------------------------
(* Topsec                                                                  *)

LEMMA TopsecSteps ==
    ASSUME NEW c, Calling(c), Topsec(c)
    PROVE  Outcome(c)
<1> DEFINE K == call[c]
<1>0. K \in Call /\ K.result = "running"  BY CallerFacts
<1>1. /\ K \in Call /\ firmware \in Firmware
      /\ Shape(K) /\ (~K.met => View(K, entries)) /\ (K.lied => K.hurt)
      /\ entries \in SUBSET Entry /\ (\A e \in entries : Fits(e)) /\ Single(entries)
  BY CallerFacts
<1>2. Maker("topsec")
  BY DEF Topsec, TopsecLogin, TopsecFind, TopsecGroup, TopsecSource, TopsecReplace, TopsecDestination, TopsecDelete,
         Stands, Maker
<1>3. \A k \in Call : Fooled(k) <=> k.lied  BY <1>2 DEF Fooled, Maker, Call
<1>4. SameCall(K, K)  BY <1>0 DEF SameCall
\* What a Topsec call knows: the records it read; then, that the source is stopped.
<1>5. ASSUME NEW r \in Call, NEW list, SameCall(K, r), r.result = "running", r.lied => r.hurt,
             r.step = "delete" => r.op = "unblock",
             r.step \in {"group", "source", "replace", "destination"} => r.op = "block",
             ~r.met /\ ~r.lied /\ r.step \in {"group", "source"} => r.seen = EntriesOn(list, r.ip),
             ~r.met /\ ~r.lied /\ r.step = "destination" => Stopped(list, r.ip)
      PROVE  After(c, r, list)
  <2>1. Shape(r)  BY <1>2, <1>5 DEF Shape, Maker
  <2>2. ~r.met => View(r, list)  BY <1>2, <1>5 DEF View, Maker
  <2>3. Alone(r, list)  BY <1>2 DEF Alone, Maker
  <2>4. ~Maker("nsfocus")  BY <1>2 DEF Maker
  <2> QED  BY <1>5, <2>1, <2>2, <2>3, <2>4, RunningIsGood
<1>6. ASSUME NEW k \in Call, SameCall(K, k), NEW list  PROVE After(c, Hurt(Ends(k, "failed")), list)
  BY <1>6, FailedIsGood
<1>7. ASSUME NEW k \in Call, NEW list, SameCall(K, k), k.lied => k.hurt,
             ~k.met /\ ~k.lied => IF k.op = "block" THEN Stopped(list, k.ip) ELSE Passing(list, k.ip)
      PROVE  After(c, Ends(k, "success"), list)
  BY <1>3, <1>7, SucceedIsGood
<1>8. ASSUME NEW list, list \subseteq Entry, \A e \in list : Fits(e),
             \A ip \in Addresses : Forced(entries, ip) # {} /\ Forced(list, ip) = {} => Reason(c, ip),
             Grounded(c, list)
      PROVE  Allowed(c, list)
  <2>1. Single(list)  BY <1>2, <1>8 DEF Single, Fits, Maker, Entry
  <2> QED  BY <1>2, <1>8, <2>1 DEF Allowed, Maker
<1>9. /\ ~K.met /\ ~K.lied /\ K.step \in {"group", "source"} => K.seen = EntriesOn(entries, K.ip)
      /\ ~K.met /\ ~K.lied /\ K.step = "destination" => Stopped(entries, K.ip)
      /\ K.step = "delete" => K.op = "unblock"
      /\ K.step \in {"group", "source", "replace", "destination"} => K.op = "block"
  BY <1>1, <1>2 DEF View, Shape
<1>10. /\ K.ip \in Addresses /\ K.op \in {"block", "unblock"} /\ K.seen \subseteq Entry
  BY <1>0 DEF Call
\* A record of a direction is added.
<1>11. ASSUME NEW dir \in {"src", "dst"}, K.op = "block"
       PROVE  LET e    == RecordOf(K.ip, dir)
                  list == entries \cup {e}
              IN  e.ip = K.ip /\ e.dir = dir /\ e.status = "block" /\ Allowed(c, list)
  <2> DEFINE e == RecordOf(K.ip, dir)
  <2> DEFINE list == entries \cup {e}
  <2>1. e \in Entry /\ Fits(e) /\ e.ip = K.ip /\ e.dir = dir /\ e.status = "block"
    BY <1>2, <1>10, DriversAssumption DEF RecordOf, Entry, Directions, Fits, Maker
  <2> HIDE DEF e
  <2>2. \A ip \in Addresses : Forced(entries, ip) # {} => Forced(list, ip) # {}  BY DEF Forced, EntriesOn
  <2>3. Grounded(c, list)  BY <1>11, <2>1 DEF Grounded, Ground
  <2>4. Allowed(c, list)  BY <1>1, <1>8, <2>1, <2>2, <2>3
  <2> QED  BY <2>1, <2>4 DEF e
\* The records of the address are deleted.
<1>12. ASSUME K.op = "unblock" \/ Stands(c, "topsec", "replace")
       PROVE  LET list == entries \ Of(K.ip)  IN  Allowed(c, list) /\ EntriesOn(list, K.ip) = {}
  <2> DEFINE list == entries \ Of(K.ip)
  <2>1. \A ip \in Addresses : Forced(entries, ip) # {} /\ Forced(list, ip) = {} => Reason(c, ip)
    <3>1. \A ip \in Addresses : ip # K.ip => Forced(list, ip) = Forced(entries, ip)  BY DEF Forced, EntriesOn, Of
    <3>2. Reason(c, K.ip)  BY <1>12 DEF Reason
    <3> QED  BY <3>1, <3>2
  <2>2. Grounded(c, list)  BY DEF Grounded
  <2>3. Allowed(c, list)  BY <1>1, <1>8, <2>1, <2>2
  <2>4. EntriesOn(list, K.ip) = {}  BY DEF EntriesOn, Of
  <2> QED  BY <2>3, <2>4
<1> HIDE DEF K
<1>13. CASE TopsecLogin(c)
  <2> DEFINE r == Goes(K, "find")
  <2>1. SameCall(K, r) /\ SameMarks(K, r) /\ r.hurt = K.hurt /\ r.step = "find" /\ r.result = "running"
    BY <1>0, GoesIs, StepsAre
  <2>2. Read(c, r, Ends(K, "failed"))  BY <1>13 DEF TopsecLogin, K
  <2> HIDE DEF r
  <2>3. After(c, r, entries)  BY <1>1, <1>5, <2>1 DEF SameCall, SameMarks
  <2>4. After(c, Hurt(Ends(K, "failed")), entries)  BY <1>0, <1>4, <1>6
  <2> QED  BY <2>2, <2>3, <2>4, ReadOutcome
<1>14. CASE TopsecFind(c)
  <2> DEFINE found == Of(K.ip)
  <2> DEFINE k == Looks(K, found)
  <2> DEFINE there == IF k.op = "block" THEN {"src", "dst"} \subseteq Have(k) ELSE k.seen = {}
  <2> DEFINE step == IF k.op = "block" THEN "group" ELSE "delete"
  <2> DEFINE r == Goes(k, step)
  <2>1. found \in SUBSET Entry /\ found = EntriesOn(entries, K.ip)  BY <1>1 DEF Of, EntriesOn
  <2>2. Read(c, IF there THEN Ends(k, "success") ELSE r, Ends(k, "failed"))  BY <1>14 DEF TopsecFind, K
  <2> HIDE DEF found
  <2>3. /\ k \in Call /\ SameCall(K, k) /\ SameMarks(K, k) /\ k.hurt = K.hurt /\ k.seen = found /\ k.result = "running"
    BY <1>0, <2>1, LooksIs DEF SameCall
  <2> HIDE DEF k
  <2>4. step \in Steps  BY StepsAre
  <2> HIDE DEF step
  <2>5. /\ SameCall(k, r) /\ SameMarks(k, r) /\ r.hurt = k.hurt /\ r.step = step /\ r.seen = k.seen /\ r.result = "running"
    BY <2>3, <2>4, GoesIs
  <2> HIDE DEF r
  <2>6. k.ip = K.ip /\ k.op = K.op  BY <2>3 DEF SameCall
  <2>7. After(c, Hurt(Ends(k, "failed")), entries)  BY <1>6, <2>3
  <2>8. k.lied => k.hurt  BY <1>1, <2>3 DEF SameMarks
  <2>9. CASE there
    <3>1. CASE K.op = "block"
      <4>1. "src" \in Have(k)  BY <2>6, <2>9, <3>1
      <4>2. PICK e \in EntriesOn(entries, K.ip) : e.dir = "src"  BY <2>1, <2>3, <4>1 DEF Have
      <4>3. Stopped(entries, K.ip)  BY <1>1, <1>2, <4>2 DEF Stopped, Forced, EntriesOn, Fits, Maker
      <4> QED  BY <2>6, <3>1, <4>3, <1>7, <2>3, <2>8, <2>2, <2>7, <2>9, ReadOutcome
    <3>2. CASE K.op # "block"
      <4>1. Passing(entries, K.ip)  BY <2>1, <2>3, <2>6, <2>9, <3>2 DEF Passing, Forced
      <4> QED  BY <2>6, <3>2, <4>1, <1>7, <2>3, <2>8, <2>2, <2>7, <2>9, ReadOutcome
    <3> QED  BY <3>1, <3>2
  <2>10. CASE ~there
    <3>1. r \in Call /\ SameCall(K, r) /\ r.ip = K.ip /\ r.op = K.op  BY <2>3, <2>5 DEF SameCall
    <3>2. r.lied => r.hurt  BY <2>5, <2>8 DEF SameMarks
    <3>3. (r.step = "group" /\ r.op = "block") \/ (r.step = "delete" /\ r.op = "unblock")
      BY <1>10, <2>5, <2>6, <3>1 DEF step
    <3>4. After(c, r, entries)  BY <1>5, <2>1, <2>3, <2>5, <3>1, <3>2, <3>3
    <3> QED  BY <2>2, <2>7, <2>10, <3>4, ReadOutcome
  <2> QED  BY <2>9, <2>10
<1>15. CASE TopsecGroup(c)
  <2> DEFINE step == IF "src" \in Have(K) THEN "destination" ELSE "source"
  <2> DEFINE r == Goes(K, step)
  <2>1. step \in Steps  BY StepsAre
  <2>2. Read(c, r, r) /\ K.step = "group"  BY <1>15 DEF TopsecGroup, Stands, K
  <2> HIDE DEF step
  <2>3. /\ SameCall(K, r) /\ SameMarks(K, r) /\ r.hurt = K.hurt /\ r.met = K.met /\ r.step = step
        /\ r.seen = K.seen /\ r.result = "running"
    BY <1>0, <2>1, GoesIs
  <2> HIDE DEF r
  <2>4. r \in Call /\ r.ip = K.ip /\ r.op = K.op /\ r.lied = K.lied  BY <2>3 DEF SameCall, SameMarks
  <2>5. "src" \in Have(K) /\ ~K.met /\ ~K.lied => Stopped(entries, K.ip)
    BY <1>1, <1>2, <1>9, <2>2 DEF Have, Stopped, Forced, EntriesOn, Fits, Maker
  <2>6. After(c, r, entries)
    <3>1. CASE step = "destination" /\ "src" \in Have(K)
      BY <1>1, <1>5, <1>9, <2>2, <2>3, <2>4, <2>5, <3>1
    <3>2. CASE step = "source"
      BY <1>1, <1>5, <1>9, <2>2, <2>3, <2>4, <3>2
    <3> QED  BY <3>1, <3>2 DEF step
  <2>7. After(c, Hurt(r), entries)  BY <2>4, <2>6, HurtIsGood
  <2> QED  BY <2>2, <2>6, <2>7, ReadOutcome
<1>16. CASE TopsecSource(c)
  <2> DEFINE list == entries \cup {RecordOf(K.ip, "src")}
  <2> DEFINE s == Ends(K, "success")
  <2> DEFINE d == Goes(K, "destination")
  <2> DEFINE p == Goes(K, "replace")
  <2> DEFINE done == IF "dst" \in Have(K) THEN s ELSE d
  <2> DEFINE away == IF Have(K) = {} THEN Ends(K, "failed") ELSE p
  <2>1. Send(c, TopsecTakes(K.ip), list, done, away, away) /\ K.step = "source"
    BY <1>16 DEF TopsecSource, Stands, K
  <2>2. K.op = "block"  BY <1>9, <2>1
  <2>3. /\ SameCall(K, d) /\ SameMarks(K, d) /\ d.hurt = K.hurt /\ d.met = K.met /\ d.step = "destination"
        /\ d.seen = K.seen /\ d.result = "running"
    BY <1>0, GoesIs, StepsAre
  <2>4. /\ SameCall(K, p) /\ SameMarks(K, p) /\ p.hurt = K.hurt /\ p.met = K.met /\ p.step = "replace"
        /\ p.seen = K.seen /\ p.result = "running"
    BY <1>0, GoesIs, StepsAre
  <2>5. Allowed(c, list) /\ Stopped(list, K.ip)
    <3> DEFINE e == RecordOf(K.ip, "src")
    <3>1. e.ip = K.ip /\ e.dir = "src" /\ e.status = "block" /\ e \in list /\ Allowed(c, list)  BY <1>11, <2>2
    <3> HIDE DEF e
    <3>2. Stopped(list, K.ip)  BY <1>2, <3>1 DEF Stopped, Forced, EntriesOn, Maker
    <3> QED  BY <3>1, <3>2
  <2> HIDE DEF list, s, d, p
  <2>6. d \in Call /\ d.op = "block" /\ d.ip = K.ip /\ d.lied = K.lied  BY <2>2, <2>3 DEF SameCall, SameMarks
  <2>7. p \in Call /\ p.op = "block" /\ p.ip = K.ip /\ p.lied = K.lied  BY <2>2, <2>4 DEF SameCall, SameMarks
  <2>8. After(c, s, list)  BY <1>1, <1>4, <1>7, <2>2, <2>5 DEF s
  <2>9. After(c, d, list)  BY <1>1, <1>5, <2>3, <2>5, <2>6
  <2>10. After(c, Lied(s), entries)  BY <1>0, <1>2, <1>4, LiedSuccessIsGood DEF s, K
  <2>11. After(c, Lied(d), entries)
    <3>1. Shape(d) /\ Alone(d, entries)  BY <1>2, <2>3, <2>6 DEF Shape, Alone, Maker
    <3> QED  BY <1>2, <2>3, <2>6, <3>1, LiedIsGood DEF Maker, K
  <2>12. \A l : After(c, p, l)  BY <1>1, <1>5, <2>4, <2>7
  <2>13. \A l : After(c, Hurt(away), l)
    <3>1. CASE Have(K) = {}  BY <1>0, <1>4, <1>6, <3>1
    <3>2. CASE Have(K) # {}  BY <2>7, <2>12, <3>2, HurtIsGood
    <3> QED  BY <3>1, <3>2
  <2>14. ASSUME ~TopsecTakes(K.ip)  PROVE After(c, away, entries)
    <3>1. CASE Have(K) = {}
      <4>1. EntriesOn(entries, K.ip) # {}  BY <2>14 DEF TopsecTakes, Of, EntriesOn
      <4>2. K.seen = {}  BY <3>1 DEF Have
      <4>3. K.hurt \/ K.met  BY <1>1, <1>9, <2>1, <4>1, <4>2
      <4>4. After(c, Ends(K, "failed"), entries)  BY <1>1, <1>4, <4>3, GivenUpIsGood DEF K
      <4> QED  BY <3>1, <4>4
    <3>2. CASE Have(K) # {}  BY <2>12, <3>2
    <3> QED  BY <3>1, <3>2
  <2>15. After(c, done, list) /\ After(c, Lied(done), entries)  BY <2>8, <2>9, <2>10, <2>11
  <2> HIDE DEF done, away
  <2> QED  BY <2>1, <2>5, <2>13, <2>14, <2>15, SendOutcome
<1>17. CASE TopsecReplace(c)
  <2> DEFINE list == entries \ Of(K.ip)
  <2> DEFINE k == [K EXCEPT !.seen = {}]
  <2> DEFINE r == Goes(k, "source")
  <2>1. Send(c, TRUE, list, r, Ends(K, "failed"), Ends(K, "failed")) /\ K.step = "replace"
        /\ Stands(c, "topsec", "replace")
    BY <1>17 DEF TopsecReplace, Stands, K
  <2>2. /\ SameCall(K, k) /\ SameMarks(K, k) /\ k.hurt = K.hurt /\ k.met = K.met /\ k.seen = {} /\ k.result = "running"
    BY <1>0, ForgetsIs
  <2> HIDE DEF k
  <2>3. k \in Call  BY <2>2 DEF SameCall
  <2>4. /\ SameCall(k, r) /\ SameMarks(k, r) /\ r.hurt = k.hurt /\ r.met = k.met /\ r.step = "source"
        /\ r.seen = {} /\ r.result = "running"
    BY <2>2, <2>3, GoesIs, StepsAre
  <2>5. Allowed(c, list) /\ EntriesOn(list, K.ip) = {}  BY <1>12, <2>1
  <2> HIDE DEF list, r
  <2>6. /\ r \in Call /\ SameCall(K, r) /\ r.ip = K.ip /\ r.op = "block" /\ r.lied = K.lied /\ r.hurt = K.hurt
    BY <1>9, <2>1, <2>2, <2>4 DEF SameCall, SameMarks
  <2>7. After(c, r, list)  BY <1>1, <1>5, <2>4, <2>5, <2>6
  <2>8. Shape(r) /\ Alone(r, entries)  BY <1>2, <2>4, <2>6 DEF Shape, Alone, Maker
  <2>9. After(c, Lied(r), entries)  BY <1>2, <2>4, <2>6, <2>8, LiedIsGood DEF Maker, K
  <2>10. After(c, Hurt(Ends(K, "failed")), entries) /\ After(c, Hurt(Ends(K, "failed")), list)
    BY <1>0, <1>4, <1>6
  <2> QED  BY <2>1, <2>5, <2>7, <2>9, <2>10, SendOutcome
<1>18. CASE TopsecDestination(c)
  <2> DEFINE list == entries \cup {RecordOf(K.ip, "dst")}
  <2> DEFINE s == Ends(K, "success")
  <2>0. s.ip = K.ip /\ s \in Call  BY <1>0, EndsIs DEF SameCall
  <2>1. Send(c, TopsecTakes(K.ip), list, s, s, s) /\ K.step = "destination"
    BY <1>18, <2>0 DEF TopsecDestination, Stands, K
  <2>2. K.op = "block" /\ (~K.met /\ ~K.lied => Stopped(entries, K.ip))  BY <1>9, <2>1
  <2>3. Allowed(c, list)  BY <1>11, <2>2
  <2>4. Stopped(entries, K.ip) => Stopped(list, K.ip)  BY <1>2 DEF Stopped, Forced, EntriesOn, Maker
  <2> HIDE DEF list
  <2>5. After(c, s, list) /\ After(c, s, entries)  BY <1>1, <1>4, <1>7, <2>2, <2>4
  <2>6. After(c, Lied(s), entries)  BY <1>0, <1>2, <1>4, LiedSuccessIsGood DEF K
  <2> HIDE DEF s
  <2>7. After(c, Hurt(s), list) /\ After(c, Hurt(s), entries)  BY <2>0, <2>5, HurtIsGood
  <2> QED  BY <2>1, <2>3, <2>5, <2>6, <2>7, SendOutcome
<1>19. CASE TopsecDelete(c)
  <2> DEFINE list == entries \ Of(K.ip)
  <2> DEFINE s == Ends(K, "success")
  <2>1. Send(c, TRUE, list, s, Ends(K, "failed"), Ends(K, "failed")) /\ K.step = "delete"
    BY <1>19 DEF TopsecDelete, Stands, K
  <2>2. K.op = "unblock"  BY <1>9, <2>1
  <2>3. Allowed(c, list) /\ Passing(list, K.ip)  BY <1>12, <2>2 DEF Passing, Forced
  <2> HIDE DEF list
  <2>4. After(c, s, list)  BY <1>1, <1>4, <1>7, <2>2, <2>3
  <2>5. After(c, Lied(s), entries)  BY <1>0, <1>2, <1>4, LiedSuccessIsGood DEF K
  <2>6. After(c, Hurt(Ends(K, "failed")), entries) /\ After(c, Hurt(Ends(K, "failed")), list)
    BY <1>0, <1>4, <1>6
  <2> QED  BY <2>1, <2>3, <2>4, <2>5, <2>6, SendOutcome
<1> QED  BY <1>13, <1>14, <1>15, <1>16, <1>17, <1>18, <1>19 DEF Topsec

-----------------------------------------------------------------------------
(* Qianxin                                                                 *)

Both == {"block", "undisposed"}

\* What acts on an address is among what a search of it found, or hidden from the search.
LEMMA ActingIsLocated ==
    ASSUME NEW k \in Call, entries \subseteq Entry, \A e \in entries : Fits(e), Maker("qianxin"),
           k.seen = FoundOn(entries, k.ip, Both)
    PROVE  \A e \in Forced(entries, k.ip) : e \in Located(Acting(k)) \/ (firmware.narrow /\ e.dir = "dst")
<1> SUFFICES ASSUME NEW e \in Forced(entries, k.ip), ~(firmware.narrow /\ e.dir = "dst")
             PROVE  e \in Located(Acting(k))
  OBVIOUS
<1>1. e \in entries /\ e.ip = k.ip /\ e.status = "block" /\ e.dir \in {"src", "dst"}
  BY DEF Forced, EntriesOn, Fits, Maker
<1>2. e \in k.seen  BY <1>1 DEF FoundOn, EntriesOn, Both
<1>3. e \in Acting(k)  BY <1>1, <1>2 DEF Acting
<1> QED  BY <1>1, <1>3 DEF Located

LEMMA QianxinSteps ==
    ASSUME NEW c, Calling(c), Qianxin(c)
    PROVE  Outcome(c)
<1> DEFINE K == call[c]
<1>0. K \in Call /\ K.result = "running"  BY CallerFacts
<1>1. /\ K \in Call /\ firmware \in Firmware
      /\ Shape(K) /\ (~K.met => View(K, entries)) /\ (K.lied => K.hurt) /\ Alone(K, entries)
      /\ entries \in SUBSET Entry /\ (\A e \in entries : Fits(e)) /\ Single(entries)
  BY CallerFacts
<1>2. Maker("qianxin")
  BY DEF Qianxin, QianxinLogin, QianxinFind, QianxinAdd, QianxinDelete, QianxinRevoke, QianxinTidy, Stands, Maker
<1>3. \A k \in Call : Fooled(k) <=> k.lied  BY <1>2 DEF Fooled, Maker, Call
<1>4. SameCall(K, K)  BY <1>0 DEF SameCall
\* What a Qianxin call knows: the disposals its search found; at the end, that none is left that acts.
<1>5. ASSUME NEW r \in Call, NEW list, SameCall(K, r), r.result = "running", r.lied => r.hurt,
             r.step = "add" => r.op = "block",
             r.step \in {"delete", "revoke", "tidy"} => r.op = "unblock",
             r.step = "revoke" => r.tries \in {1, 2},
             \A e \in r.seen : e.ip = r.ip,
             ~r.met /\ ~r.lied /\ r.step = "add" => r.seen \subseteq Forced(list, r.ip),
             ~r.met /\ ~r.lied /\ r.step \in {"delete", "revoke"} => r.seen = FoundOn(list, r.ip, Both),
             ~r.met /\ ~r.lied /\ r.step = "tidy" => Passing(list, r.ip),
             r.step = "add" /\ ~firmware.narrow => \A e \in Forced(list, r.ip) : e.dir \in Have(r)
      PROVE  After(c, r, list)
  <2>1. Shape(r)  BY <1>2, <1>5 DEF Shape, Maker
  <2>2. ~r.met => View(r, list)  BY <1>2, <1>5 DEF View, Maker, Both
  <2>3. Alone(r, list)  BY <1>2, <1>5 DEF Alone, Maker
  <2>4. ~Maker("nsfocus")  BY <1>2 DEF Maker
  <2> QED  BY <1>5, <2>1, <2>2, <2>3, <2>4, RunningIsGood
<1>6. ASSUME NEW k \in Call, SameCall(K, k), NEW list  PROVE After(c, Hurt(Ends(k, "failed")), list)
  BY <1>6, FailedIsGood
<1>7. ASSUME NEW k \in Call, NEW list, SameCall(K, k), k.lied => k.hurt,
             ~k.met /\ ~k.lied => IF k.op = "block" THEN Stopped(list, k.ip) ELSE Passing(list, k.ip)
      PROVE  After(c, Ends(k, "success"), list)
  BY <1>3, <1>7, SucceedIsGood
<1>8. /\ ~K.met /\ ~K.lied /\ K.step = "add" => K.seen \subseteq Forced(entries, K.ip)
      /\ ~K.met /\ ~K.lied /\ K.step \in {"delete", "revoke"} => K.seen = FoundOn(entries, K.ip, Both)
      /\ ~K.met /\ ~K.lied /\ K.step = "tidy" => Passing(entries, K.ip)
  BY <1>1, <1>2 DEF View, Both
<1>9. /\ K.step = "add" => K.op = "block"
      /\ K.step \in {"delete", "revoke", "tidy"} => K.op = "unblock"
      /\ K.step = "revoke" => K.tries \in {1, 2}
      /\ \A e \in K.seen : e.ip = K.ip
  BY <1>1, <1>2 DEF Shape, Maker
<1>10. /\ K.ip \in Addresses /\ K.op \in {"block", "unblock"} /\ K.seen \subseteq Entry /\ K.no \in 0..MaxCalls
  BY <1>0, DriversAssumption DEF Call
<1>11. ASSUME NEW rows, rows \subseteq K.seen  PROVE \A e \in Located(rows) : e.ip = K.ip
  BY <1>9, <1>11 DEF Located
\* Disposals of the address are deleted or lose their force.
<1>12. ASSUME NEW list, list \subseteq Entry, K.op = "unblock",
              \A e \in list : Fits(e) /\ (e.status = "block" => e \in entries),
              \A e \in entries : e.ip # K.ip => e \in list
       PROVE  Allowed(c, list)
  <2>1. Single(list)  BY <1>1, <1>12 DEF Single
  <2>2. ASSUME NEW ip \in Addresses, Forced(entries, ip) # {}, Forced(list, ip) = {}  PROVE Reason(c, ip)
    <3>1. ip = K.ip  BY <1>12, <2>2 DEF Forced, EntriesOn
    <3> QED  BY <1>12, <3>1 DEF Reason
  <2>3. Grounded(c, list)  BY <1>12 DEF Grounded
  <2> QED  BY <1>2, <1>12, <2>1, <2>2, <2>3 DEF Allowed, Maker
<1> HIDE DEF K
\* The same request in the other form.
<1>13. LET r == Again(K, K.step)
       IN  K.tries = 1 /\ K.step \in {"delete", "revoke", "tidy"} => After(c, r, entries)
  <2> DEFINE r == Again(K, K.step)
  <2> SUFFICES ASSUME K.tries = 1, K.step \in {"delete", "revoke", "tidy"}  PROVE After(c, r, entries)
    OBVIOUS
  <2>1. K.step \in Steps  BY StepsAre
  <2>2. /\ SameCall(K, r) /\ SameMarks(K, r) /\ r.hurt = K.hurt /\ r.met = K.met /\ r.step = K.step
        /\ r.seen = K.seen /\ r.tries = K.tries + 1 /\ r.result = "running"
    BY <1>0, <2>1, AgainIs
  <2> HIDE DEF r
  <2>3. r \in Call /\ r.ip = K.ip /\ r.op = K.op /\ r.lied = K.lied /\ r.tries = 2
    BY <2>2 DEF SameCall, SameMarks
  <2> QED  BY <1>1, <1>5, <1>8, <1>9, <2>2, <2>3
\* On to the records that no longer act.
<1>14. ASSUME NEW list, K.op = "unblock", ~K.met /\ ~K.lied => Passing(list, K.ip)
       PROVE  After(c, AfterActing(K), list) /\ After(c, Lied(AfterActing(K)), entries)
  <2>1. CASE Pending(K) = {}
    <3>1. After(c, Ends(K, "success"), list)  BY <1>1, <1>4, <1>7, <1>14
    <3>2. After(c, Lied(Ends(K, "success")), entries)  BY <1>0, <1>2, <1>4, LiedSuccessIsGood DEF K
    <3> QED  BY <2>1, <3>1, <3>2 DEF AfterActing
  <2>2. CASE Pending(K) # {}
    <3> DEFINE r == Goes(K, "tidy")
    <3>1. /\ SameCall(K, r) /\ SameMarks(K, r) /\ r.hurt = K.hurt /\ r.met = K.met /\ r.step = "tidy"
          /\ r.seen = K.seen /\ r.result = "running"
      BY <1>0, GoesIs, StepsAre
    <3>2. AfterActing(K) = r  BY <2>2 DEF AfterActing
    <3> HIDE DEF r
    <3>3. r \in Call /\ r.ip = K.ip /\ r.op = K.op /\ r.lied = K.lied  BY <3>1 DEF SameCall, SameMarks
    <3>4. After(c, r, list)  BY <1>1, <1>5, <1>9, <1>14, <3>1, <3>3
    <3>5. Shape(r) /\ Alone(r, entries)  BY <1>2, <1>9, <1>14, <3>1, <3>3 DEF Shape, Alone, Maker
    <3>6. After(c, Lied(r), entries)  BY <1>2, <3>1, <3>3, <3>5, LiedIsGood DEF Maker, K
    <3> QED  BY <3>2, <3>4, <3>6
  <2> QED  BY <2>1, <2>2
<1>15. CASE QianxinLogin(c)
  <2> DEFINE r == Goes(K, "find")
  <2>1. SameCall(K, r) /\ SameMarks(K, r) /\ r.hurt = K.hurt /\ r.step = "find" /\ r.seen = K.seen /\ r.result = "running"
    BY <1>0, GoesIs, StepsAre
  <2>2. Read(c, r, Ends(K, "failed"))  BY <1>15 DEF QianxinLogin, K
  <2> HIDE DEF r
  <2>3. After(c, r, entries)  BY <1>1, <1>5, <1>9, <2>1 DEF SameCall, SameMarks
  <2>4. After(c, Hurt(Ends(K, "failed")), entries)  BY <1>0, <1>4, <1>6
  <2> QED  BY <2>2, <2>3, <2>4, ReadOutcome
<1>16. CASE QianxinAdd(c)
  <2> DEFINE E(d) == [ip |-> K.ip, dir |-> d, status |-> "block", id |-> K.no]
  <2> DEFINE list == entries \cup {E(d) : d \in {"src", "dst"} \ Have(K)}
  <2> DEFINE s == Ends(K, "success")
  <2>1. Send(c, TRUE, list, s, Ends(K, "failed"), Ends(K, "failed")) /\ K.step = "add"
    BY <1>16 DEF QianxinAdd, Stands, K
  <2>2. K.op = "block"  BY <1>9, <2>1
  <2>3. \A d \in {"src", "dst"} : /\ E(d) \in Entry /\ Fits(E(d))
                                 /\ E(d).ip = K.ip /\ E(d).dir = d /\ E(d).status = "block"
    BY <1>2, <1>10 DEF Entry, Directions, Fits, Maker
  <2> HIDE DEF E
  <2>4. ~K.met /\ ~K.lied => Stopped(list, K.ip)
    <3> SUFFICES ASSUME ~K.met, ~K.lied, NEW d \in {"src", "dst"}
                 PROVE  \E e \in Forced(list, K.ip) : e.dir = d
      BY DEF Stopped
    <3>1. CASE d \in Have(K)
      <4>1. PICK e \in K.seen : e.dir = d  BY <3>1 DEF Have
      <4>2. e \in Forced(entries, K.ip)  BY <1>8, <2>1, <4>1
      <4> QED  BY <4>1, <4>2 DEF Forced, EntriesOn
    <3>2. CASE d \notin Have(K)
      <4>1. E(d) \in list  BY <3>2
      <4>2. E(d) \in Forced(list, K.ip)  BY <2>3, <4>1 DEF Forced, EntriesOn
      <4> QED  BY <2>3, <4>2
    <3> QED  BY <3>1, <3>2
  <2>5. Allowed(c, list)
    <3>1. list \subseteq Entry /\ \A e \in list : Fits(e) /\ (e \in entries \/ e.ip = K.ip)
      BY <1>1, <2>3
    <3>2. Single(list)
      <4>1. K.ip \notin crossed /\ ~firmware.narrow => \A e \in Forced(entries, K.ip) : e.dir \in Have(K)
        BY <1>0, <1>1, <1>2, <2>1 DEF Alone
      <4>2. \A f \in entries : f.ip = K.ip /\ f.status = "block" => f \in Forced(entries, K.ip)
        BY DEF Forced, EntriesOn
      <4>3. \A e \in list : e \in entries \/ (\E d \in {"src", "dst"} \ Have(K) : e = E(d))  OBVIOUS
      <4> SUFFICES ASSUME NEW e \in list, NEW f \in list, e.ip = f.ip, e.dir = f.dir, e.status = "block", f.status = "block",
                          e.ip \notin crossed, ~firmware.narrow
                   PROVE  e = f
        BY DEF Single
      <4>4. CASE e \in entries /\ f \in entries  BY <1>1, <4>4 DEF Single
      <4>5. CASE e \in entries /\ f \notin entries  BY <2>3, <4>1, <4>2, <4>3, <4>5
      <4>6. CASE e \notin entries /\ f \in entries  BY <2>3, <4>1, <4>2, <4>3, <4>6
      <4>7. CASE e \notin entries /\ f \notin entries  BY <2>3, <4>3, <4>7
      <4> QED  BY <4>4, <4>5, <4>6, <4>7
    <3>3. \A ip \in Addresses : Forced(entries, ip) # {} => Forced(list, ip) # {}  BY DEF Forced, EntriesOn
    <3>4. Grounded(c, list)  BY <2>2, <3>1 DEF Grounded, Ground, K
    <3> QED  BY <1>2, <3>1, <3>2, <3>3, <3>4 DEF Allowed, Maker, K
  <2> HIDE DEF list
  <2>6. After(c, s, list)  BY <1>1, <1>4, <1>7, <2>2, <2>4
  <2>7. After(c, Lied(s), entries)  BY <1>0, <1>2, <1>4, LiedSuccessIsGood DEF K
  <2>8. After(c, Hurt(Ends(K, "failed")), entries) /\ After(c, Hurt(Ends(K, "failed")), list)
    BY <1>0, <1>4, <1>6
  <2> QED  BY <2>1, <2>5, <2>6, <2>7, <2>8, SendOutcome
<1>17. CASE QianxinDelete(c)
  <2> DEFINE list == entries \ Located(Acting(K))
  <2> DEFINE r == Goes(K, "revoke")
  <2> DEFINE away == OtherForm(K, r)
  <2> DEFINE done == AfterActing(K)
  <2>1. Send(c, Deletes(Acting(K)), list, done, away, Ends(K, "failed")) /\ K.step = "delete"
    BY <1>17 DEF QianxinDelete, Stands, K
  <2>2. K.op = "unblock"  BY <1>9, <2>1
  <2>3. Acting(K) \subseteq K.seen  BY DEF Acting
  <2>4. Allowed(c, list)  BY <1>1, <1>11, <1>12, <2>2, <2>3
  <2>5. ~K.met /\ ~K.lied => Passing(list, K.ip)
    BY <1>1, <1>2, <1>8, <2>1, ActingIsLocated DEF Passing, Forced, EntriesOn
  <2>6. After(c, done, list) /\ After(c, Lied(done), entries)  BY <1>14, <2>2, <2>5
  <2>7. /\ SameCall(K, r) /\ SameMarks(K, r) /\ r.hurt = K.hurt /\ r.met = K.met /\ r.step = "revoke"
        /\ r.seen = K.seen /\ r.tries = 1 /\ r.result = "running"
    BY <1>0, GoesIs, StepsAre
  <2> HIDE DEF list, r, done
  <2>8. r \in Call /\ r.ip = K.ip /\ r.op = K.op /\ r.lied = K.lied  BY <2>7 DEF SameCall, SameMarks
  <2>9. After(c, r, entries)  BY <1>1, <1>5, <1>8, <1>9, <2>1, <2>7, <2>8
  <2>10. away \in Call /\ After(c, away, entries)
    <3>1. CASE K.tries = 1  BY <1>13, <2>1, <3>1 DEF OtherForm, After, SameCall
    <3>2. CASE K.tries # 1  BY <2>8, <2>9, <3>2 DEF OtherForm
    <3> QED  BY <3>1, <3>2
  <2> HIDE DEF away
  <2>11. After(c, Hurt(away), entries)  BY <2>10, HurtIsGood
  <2>12. After(c, Hurt(Ends(K, "failed")), entries) /\ After(c, Hurt(Ends(K, "failed")), list)
    BY <1>0, <1>4, <1>6
  <2> QED  BY <2>1, <2>4, <2>6, <2>10, <2>11, <2>12, SendOutcome
<1>18. CASE QianxinRevoke(c)
  <2> DEFINE list == Revoked(Acting(K))
  <2> DEFINE away == OtherForm(K, Ends(K, "failed"))
  <2> DEFINE done == AfterActing(K)
  <2> DEFINE takes == (firmware.exact => K.tries = 2)
  <2>1. Send(c, takes, list, done, away, Ends(K, "failed")) /\ K.step = "revoke"
    BY <1>18 DEF QianxinRevoke, Stands, K
  <2>2. K.op = "unblock" /\ K.tries \in {1, 2}  BY <1>9, <2>1
  <2>3. Acting(K) \subseteq K.seen  BY DEF Acting
  <2>4. \A e \in entries : LET x == [e EXCEPT !.status = "undisposed"]
                          IN  x \in Entry /\ Fits(x) /\ x.status = "undisposed" /\ x.ip = e.ip
    BY <1>1, <1>2 DEF Entry, Fits, Maker
  <2>5. \A x \in list : x \in Entry /\ Fits(x)
                       /\ (x.status = "block" => x \in entries /\ x \notin Located(Acting(K)))
    BY <1>1, <2>4 DEF Revoked
  <2>6. \A e \in entries : e \notin Located(Acting(K)) => e \in list  BY DEF Revoked
  <2> HIDE DEF list
  <2>7. Allowed(c, list)  BY <1>11, <1>12, <2>2, <2>3, <2>5, <2>6
  <2>8. ~K.met /\ ~K.lied => Passing(list, K.ip)
    <3>1. Forced(list, K.ip) \subseteq {e \in Forced(entries, K.ip) : e \notin Located(Acting(K))}
      BY <2>5 DEF Forced, EntriesOn
    <3> QED  BY <1>1, <1>2, <1>8, <2>1, <3>1, ActingIsLocated DEF Passing
  <2>9. After(c, done, list) /\ After(c, Lied(done), entries)  BY <1>14, <2>2, <2>8
  <2> HIDE DEF done
  <2>10. ~takes => After(c, away, entries)
    <3> SUFFICES ASSUME ~takes  PROVE After(c, away, entries)  OBVIOUS
    <3>1. K.tries = 1  BY <2>2
    <3> QED  BY <1>13, <2>1, <3>1 DEF OtherForm
  <2>11. After(c, Hurt(Ends(K, "failed")), entries) /\ After(c, Hurt(Ends(K, "failed")), list)
    BY <1>0, <1>4, <1>6
  <2>12. After(c, Hurt(away), entries)
    <3>1. CASE K.tries = 1
      <4>1. After(c, away, entries) /\ away \in Call  BY <1>13, <2>1, <3>1 DEF OtherForm, After, SameCall
      <4> HIDE DEF away
      <4> QED  BY <4>1, HurtIsGood
    <3>2. CASE K.tries # 1  BY <2>11, <3>2 DEF OtherForm
    <3> QED  BY <3>1, <3>2
  <2> HIDE DEF away, takes
  <2> QED  BY <2>1, <2>7, <2>9, <2>10, <2>11, <2>12, SendOutcome
<1>19. CASE QianxinTidy(c)
  <2> DEFINE list == entries \ Located(Pending(K))
  <2> DEFINE s == Ends(K, "success")
  <2> DEFINE away == OtherForm(K, s)
  <2>1. Send(c, Deletes(Pending(K)), list, s, away, Ends(K, "failed")) /\ K.step = "tidy"
    BY <1>19 DEF QianxinTidy, Stands, K
  <2>2. K.op = "unblock" /\ (~K.met /\ ~K.lied => Passing(entries, K.ip))  BY <1>8, <1>9, <2>1
  <2>3. Pending(K) \subseteq K.seen  BY DEF Pending
  <2>4. Allowed(c, list)  BY <1>1, <1>11, <1>12, <2>2, <2>3
  <2>5. Passing(entries, K.ip) => Passing(list, K.ip)  BY DEF Passing, Forced, EntriesOn
  <2> HIDE DEF list
  <2>6. After(c, s, list) /\ After(c, s, entries)  BY <1>1, <1>4, <1>7, <2>2, <2>5
  <2>7. After(c, Lied(s), entries)  BY <1>0, <1>2, <1>4, LiedSuccessIsGood DEF K
  <2> HIDE DEF s
  <2>8. away \in Call /\ After(c, away, entries)
    <3>1. CASE K.tries = 1  BY <1>13, <2>1, <3>1 DEF OtherForm, After, SameCall
    <3>2. CASE K.tries # 1  BY <2>6, <3>2 DEF OtherForm, After, SameCall
    <3> QED  BY <3>1, <3>2
  <2> HIDE DEF away
  <2>9. After(c, Hurt(away), entries)  BY <2>8, HurtIsGood
  <2>10. After(c, Hurt(Ends(K, "failed")), entries) /\ After(c, Hurt(Ends(K, "failed")), list)
    BY <1>0, <1>4, <1>6
  <2> QED  BY <2>1, <2>4, <2>6, <2>7, <2>8, <2>9, <2>10, SendOutcome
<1>20. CASE QianxinFind(c)
  <2> DEFINE found == QianxinFound(K.ip, IF K.op = "block" THEN {"block"} ELSE Both)
  <2> DEFINE k == Looks(K, found)
  <2>1. found = FoundOn(entries, K.ip, IF K.op = "block" THEN {"block"} ELSE Both) /\ found \in SUBSET Entry
    BY <1>1 DEF QianxinFound, FoundOn, Of, EntriesOn
  <2>2. \A e \in found : e.ip = K.ip  BY <2>1 DEF FoundOn, EntriesOn
  <2>3. Read(c, IF k.op = "block"
                THEN IF {"src", "dst"} \subseteq Have(k) THEN Ends(k, "success") ELSE Goes(k, "add")
                ELSE IF k.seen = {} THEN Ends(k, "success")
                     ELSE Goes(k, IF Acting(k) # {} THEN "delete" ELSE "tidy"),
             Ends(k, "failed"))
    BY <1>20 DEF QianxinFind, Both, K
  <2> HIDE DEF found
  <2>4. /\ k \in Call /\ SameCall(K, k) /\ SameMarks(K, k) /\ k.hurt = K.hurt /\ k.seen = found /\ k.result = "running"
    BY <1>0, <2>1, LooksIs DEF SameCall
  <2> HIDE DEF k
  <2>5. k.ip = K.ip /\ k.op = K.op  BY <2>4 DEF SameCall
  <2>6. After(c, Hurt(Ends(k, "failed")), entries)  BY <1>6, <2>4
  <2>7. k.lied => k.hurt  BY <1>1, <2>4 DEF SameMarks
  <2>8. CASE k.op = "block"
    <3>1. /\ found \subseteq Forced(entries, k.ip)
          /\ ~firmware.narrow => found = Forced(entries, k.ip)
      BY <2>1, <2>5, <2>8 DEF FoundOn, Forced, EntriesOn
    <3>2. CASE {"src", "dst"} \subseteq Have(k)
      <4>1. "src" \in Have(k) /\ "dst" \in Have(k)  BY <3>2
      <4>2. Stopped(entries, k.ip)  BY <2>4, <3>1, <4>1 DEF Stopped, Have
      <4>3. After(c, Ends(k, "success"), entries)  BY <1>7, <2>4, <2>7, <2>8, <4>2
      <4> QED  BY <2>3, <2>6, <2>8, <3>2, <4>3, ReadOutcome
    <3>3. CASE ~({"src", "dst"} \subseteq Have(k))
      <4> DEFINE r == Goes(k, "add")
      <4>1. /\ SameCall(k, r) /\ SameMarks(k, r) /\ r.hurt = k.hurt /\ r.met = k.met /\ r.step = "add"
            /\ r.seen = k.seen /\ r.result = "running"
        BY <2>4, GoesIs, StepsAre
      <4>2. Read(c, r, Ends(k, "failed"))  BY <2>3, <2>8, <3>3
      <4> HIDE DEF r
      <4>3. r \in Call /\ SameCall(K, r) /\ r.ip = k.ip /\ r.op = k.op /\ r.lied = k.lied
        BY <2>4, <4>1 DEF SameCall, SameMarks
      <4>4. ~firmware.narrow => \A e \in Forced(entries, r.ip) : e.dir \in Have(r)
        BY <2>4, <3>1, <4>1, <4>3 DEF Have
      <4>5. After(c, r, entries)  BY <1>5, <2>2, <2>4, <2>5, <2>7, <2>8, <3>1, <4>1, <4>3, <4>4
      <4> QED  BY <2>6, <4>2, <4>5, ReadOutcome
    <3> QED  BY <3>2, <3>3
  <2>9. CASE k.op # "block"
    <3>1. k.op = "unblock" /\ found = FoundOn(entries, k.ip, Both)  BY <1>10, <2>1, <2>5, <2>9
    <3>2. CASE k.seen = {}
      <4>1. \A e \in EntriesOn(entries, k.ip) : e.status \in Both  BY <1>1 DEF EntriesOn, Entry, Both
      <4>2. Passing(entries, k.ip)  BY <2>4, <3>1, <3>2, <4>1 DEF FoundOn, Passing, Forced
      <4>3. After(c, Ends(k, "success"), entries)  BY <1>7, <2>4, <2>7, <2>9, <4>2
      <4> QED  BY <2>3, <2>6, <2>9, <3>2, <4>3, ReadOutcome
    <3>3. CASE k.seen # {}
      <4> DEFINE step == IF Acting(k) # {} THEN "delete" ELSE "tidy"
      <4> DEFINE r == Goes(k, step)
      <4>1. step \in Steps  BY StepsAre
      <4>2. Read(c, r, Ends(k, "failed"))  BY <2>3, <2>9, <3>3
      <4> HIDE DEF step
      <4>3. /\ SameCall(k, r) /\ SameMarks(k, r) /\ r.hurt = k.hurt /\ r.met = k.met /\ r.step = step
            /\ r.seen = k.seen /\ r.result = "running"
        BY <2>4, <4>1, GoesIs
      <4> HIDE DEF r
      <4>4. r \in Call /\ SameCall(K, r) /\ r.ip = k.ip /\ r.op = k.op /\ r.lied = k.lied
        BY <2>4, <4>3 DEF SameCall, SameMarks
      <4>5. CASE Acting(k) # {}
        <5>1. r.step = "delete"  BY <4>3, <4>5 DEF step
        <5>2. After(c, r, entries)  BY <1>5, <2>2, <2>4, <2>5, <2>7, <3>1, <4>3, <4>4, <5>1
        <5> QED  BY <2>6, <4>2, <5>2, ReadOutcome
      <4>6. CASE Acting(k) = {}
        <5>1. r.step = "tidy"  BY <4>3, <4>6 DEF step
        <5>2. Passing(entries, k.ip)
          BY <1>1, <1>2, <2>4, <3>1, <4>6, ActingIsLocated DEF Passing, Located
        <5>3. After(c, r, entries)  BY <1>5, <2>2, <2>4, <2>5, <2>7, <3>1, <4>3, <4>4, <5>1, <5>2
        <5> QED  BY <2>6, <4>2, <5>3, ReadOutcome
      <4> QED  BY <4>5, <4>6
    <3> QED  BY <3>2, <3>3
  <2> QED  BY <2>8, <2>9
<1> QED  BY <1>15, <1>16, <1>17, <1>18, <1>19, <1>20 DEF Qianxin

-----------------------------------------------------------------------------
(* The specification                                                       *)

LEMMA AskOutcome ==
    ASSUME NEW c \in Callers, DriversInv, Ask(c)
    PROVE  Calling(c) /\ Outcome(c)
<1>1. firmware # Nobody /\ Open(c)
  BY DEF Ask, Sangfor, SangforLogin, SangforFind, SangforWrite, SangforVerify,
         Nsfocus, NsfocusFind, NsfocusWrite, NsfocusCheck,
         Hillstone, HillstoneLogin, Expires, HillstoneFind, HillstoneWrite, HillstoneReadBack,
         Topsec, TopsecLogin, TopsecFind, TopsecGroup, TopsecSource, TopsecReplace, TopsecDestination, TopsecDelete,
         Qianxin, QianxinLogin, QianxinFind, QianxinAdd, QianxinDelete, QianxinRevoke, QianxinTidy, Stands
<1>2. Calling(c)  BY <1>1 DEF Calling
<1> QED  BY <1>2, SangforSteps, NsfocusSteps, HillstoneSteps, TopsecSteps, QianxinSteps DEF Ask

LEMMA StartStep ==
    ASSUME NEW c \in Callers, NEW op \in {"block", "unblock"}, NEW ip \in Addresses, DriversInv, Start(c, op, ip)
    PROVE  DriversInv'
<1> DEFINE k == [no |-> started + 1, op |-> op, ip |-> ip, step |-> "login", seen |-> {}, tries |-> 1, back |-> "none",
                 result |-> "running", met |-> FALSE, lied |-> FALSE, blind |-> FALSE, hurt |-> FALSE]
<1>1. /\ firmware # Nobody /\ ~Open(c) /\ started < MaxCalls /\ started' = started + 1
      /\ call' = [call EXCEPT ![c] = k] /\ entries' = entries /\ firmware' = firmware /\ mishaps' = mishaps
      /\ crossed' = IF \E d \in Callers \ {c} : Open(d) /\ call[d].ip = ip THEN crossed \cup {ip} ELSE crossed
  BY DEF Start
<1>2. started \in 0..MaxCalls /\ started + 1 \in 1..MaxCalls /\ MaxCalls \in Nat /\ call \in [Callers -> Call \cup {Nobody}]
  BY <1>1, DriversAssumption DEF DriversInv, DriversTypeOK
<1>3. k \in Call  BY <1>2 DEF Call, Steps
<1>4. /\ k.no = started + 1 /\ k.op = op /\ k.ip = ip /\ k.step = "login" /\ k.seen = {} /\ k.back = "none"
      /\ k.result = "running" /\ k.met = FALSE /\ k.lied = FALSE
  OBVIOUS
<1> HIDE DEF k
<1>5. call'[c] = k /\ \A d \in Callers : d # c => call'[d] = call[d]  BY <1>1, <1>2
<1>6. crossed \subseteq crossed' /\ crossed' \subseteq Addresses
  BY <1>1 DEF DriversInv, DriversTypeOK
<1>7. DriversTypeOK'
  BY <1>1, <1>2, <1>3, <1>6 DEF DriversInv, DriversTypeOK
<1>8. \A d \in Callers : call[d] # Nobody => call[d].no <= started /\ call[d].no \in Nat
  BY <1>2 DEF DriversInv, DriversTypeOK, Call
<1>9. ASSUME NEW d \in Callers, call'[d] # Nobody  PROVE call'[d].no <= started'
  BY <1>1, <1>2, <1>4, <1>5, <1>8, <1>9
<1>10. ASSUME NEW d \in Callers, NEW e \in Callers, d # e, call'[d] # Nobody, call'[e] # Nobody
       PROVE  call'[d].no # call'[e].no
  BY <1>2, <1>4, <1>5, <1>8, <1>10 DEF DriversInv
<1>11. ASSUME NEW d \in Callers, NEW e \in Callers, d # e, Open(d)', Open(e)', call'[d].ip = call'[e].ip
       PROVE  call'[d].ip \in crossed'
  <2>1. CASE d # c /\ e # c  BY <1>5, <1>6, <1>11, <2>1 DEF DriversInv, Open
  <2>2. CASE d = c  BY <1>1, <1>4, <1>5, <1>11, <2>2 DEF Open
  <2>3. CASE e = c  BY <1>1, <1>4, <1>5, <1>11, <2>3 DEF Open
  <2> QED  BY <2>1, <2>2, <2>3
<1>12. (\A e \in entries : Fits(e))' /\ Single(entries)'
  BY <1>1, <1>6 DEF DriversInv, Fits, Single, Maker
<1>13. ASSUME NEW d \in Callers, call'[d] # Nobody  PROVE Good(call[d], entries)' /\ Alone(call[d], entries)'
  <2>1. Good(call'[d], entries) /\ Alone(call'[d], entries)
    <3>1. CASE d = c
      <4>1. Shape(k) /\ View(k, entries) /\ Alone(k, entries)  BY <1>4 DEF Shape, View, Alone, AboutTo
      <4>2. Good(k, entries)  BY <1>4, <4>1 DEF Good
      <4> QED  BY <1>5, <3>1, <4>1, <4>2
    <3>2. CASE d # c  BY <1>1, <1>5, <1>13, <3>2 DEF DriversInv
    <3> QED  BY <3>1, <3>2
  <2> DEFINE l == call'[d]
  <2> HIDE DEF l
  <2>2. Good(l, entries) /\ Alone(l, entries)  BY <2>1 DEF l
  <2>3. Good(call[d], entries)'
    BY <1>1, <2>1 DEF Good, Shape, View, Maker, Fooled, Stopped, Passing, FoundOn
  <2>4. Alone(call[d], entries)'  BY <1>1, <1>6, <2>1 DEF Alone, Maker
  <2> QED  BY <2>3, <2>4
<1>14. ASSUME Maker("nsfocus")  PROVE IdsInv'
  <2>1. IdsInv  BY <1>1, <1>14 DEF DriversInv
  <2>2. \A e \in entries : e.id <= started /\ e.id \in Nat  BY <2>1 DEF IdsInv, DriversInv, DriversTypeOK, Entry
  <2>3. \A d \in Callers : call[d] # Nobody => \A s \in call[d].seen : s.id <= started /\ s.id \in Nat
    BY <1>2, <2>1 DEF IdsInv, Call, Entry
  <2>4. \A e \in entries : e.id <= started'  BY <1>1, <1>2, <2>2
  <2>5. ASSUME NEW d \in Callers, call'[d] # Nobody
        PROVE  /\ \A e \in entries : e.id = call'[d].no => e.ip = call'[d].ip
               /\ \A s \in call'[d].seen : s.id <= started'
               /\ \A s \in call'[d].seen, e \in entries : s.id = e.id => e.ip = call'[d].ip
               /\ \A s \in call'[d].seen, f \in Callers :
                     call'[f] # Nobody /\ s.id = call'[f].no => call'[f].ip = call'[d].ip
    <3>1. CASE d = c  BY <1>2, <1>4, <1>5, <2>2, <3>1
    <3>2. CASE d # c
      <4>1. call'[d] = call[d] /\ call[d] # Nobody  BY <1>5, <2>5, <3>2
      <4>2. \A s \in call[d].seen : s.id <= started' /\ s.id # started + 1  BY <1>1, <1>2, <2>3, <4>1
      <4>3. ASSUME NEW s \in call[d].seen, NEW f \in Callers, call'[f] # Nobody, s.id = call'[f].no
            PROVE  call'[f].ip = call[d].ip
        <5>1. f # c  BY <1>4, <1>5, <4>2, <4>3
        <5> QED  BY <1>5, <2>1, <4>1, <4>3, <5>1 DEF IdsInv
      <4> QED  BY <2>1, <4>1, <4>2, <4>3 DEF IdsInv
    <3> QED  BY <3>1, <3>2
  <2> QED  BY <1>1, <2>1, <2>4, <2>5 DEF IdsInv
<1> QED
  BY <1>1, <1>7, <1>9, <1>10, <1>11, <1>12, <1>13, <1>14 DEF DriversInv, Maker

LEMMA AddDeviceStep ==
    ASSUME NEW f \in Firmwares, DriversInv, AddDevice(f)
    PROVE  DriversInv'
<1>1. entries' = {} /\ \A c \in Callers : call'[c] = Nobody  BY DEF AddDevice, DriversInv
<1>2. DriversTypeOK'  BY DEF AddDevice, DriversInv, DriversTypeOK
<1>3. Single(entries)'  BY <1>1 DEF Single
<1>4. IdsInv'  BY <1>1 DEF IdsInv
<1> QED  BY <1>1, <1>2, <1>3, <1>4 DEF DriversInv, Open

\* The inductive invariant: whatever the calls of the five makes have read of their device,
\* written to it and lost of its answers, each is Good and the entries are Single.
THEOREM DriversInvariant == DriversSpec => []DriversInv
<1>1. DriversInit => DriversInv
  <2> SUFFICES ASSUME DriversInit  PROVE DriversInv
    OBVIOUS
  <2>1. DriversTypeOK  BY DriversAssumption DEF DriversInit, DriversTypeOK
  <2> QED  BY <2>1 DEF DriversInit, DriversInv, Open
<1>2. DriversInv /\ [DriversNext]_driverVars => DriversInv'
  <2> SUFFICES ASSUME DriversInv, [DriversNext]_driverVars  PROVE DriversInv'
    OBVIOUS
  <2>1. ASSUME NEW f \in Firmwares, AddDevice(f)  PROVE DriversInv'  BY <2>1, AddDeviceStep
  <2>2. ASSUME NEW c \in Callers, NEW op \in {"block", "unblock"}, NEW ip \in Addresses, Start(c, op, ip)
        PROVE  DriversInv'
    BY <2>2, StartStep
  <2>3. ASSUME NEW c \in Callers, Ask(c)  PROVE DriversInv'  BY <2>3, AskOutcome, OutcomeKeepsInv
  <2>4. CASE UNCHANGED driverVars
    <3>1. /\ firmware' = firmware /\ entries' = entries /\ call' = call
          /\ started' = started /\ mishaps' = mishaps /\ crossed' = crossed
      BY <2>4 DEF driverVars
    <3>2. DriversTypeOK'  BY <3>1 DEF DriversInv, DriversTypeOK
    <3>3. Maker("nsfocus") /\ IdsInv => IdsInv'  BY <3>1 DEF IdsInv
    <3>4. (\A e \in entries : Fits(e)) => (\A e \in entries : Fits(e))'  BY <3>1 DEF Fits, Maker
    <3>5. Single(entries) => Single(entries)'  BY <3>1 DEF Single
    <3>6. ASSUME NEW c \in Callers, Good(call[c], entries), Alone(call[c], entries)
          PROVE  Good(call[c], entries)' /\ Alone(call[c], entries)'
      BY <3>1, <3>6 DEF Good, Alone, Shape, View, Maker, Fooled, Stopped, Passing, FoundOn
    <3> QED  BY <3>1, <3>2, <3>3, <3>4, <3>5, <3>6 DEF DriversInv, Maker, Open
  <2> QED  BY <2>1, <2>2, <2>3, <2>4 DEF DriversNext
<1> QED  BY <1>1, <1>2, PTL DEF DriversSpec

\* The variables have their types: ids within the calls made, steps of the scripts, no more
\* faults than the bound.
THEOREM DriversTyped == DriversSpec => []DriversTypeOK
<1>1. DriversInv => DriversTypeOK  BY DEF DriversInv
<1> QED  BY <1>1, DriversInvariant, PTL

\* What a call reports as done is done: the devices' scripts return without an error only
\* when the address is stopped, or let through, as was asked (executor.py reports it so).
THEOREM DriversReportTruth == DriversSpec => []SuccessIsTrue
<1>1. ASSUME DriversInv  PROVE SuccessIsTrue
  <2> SUFFICES ASSUME NEW c \in Callers, call[c] # Nobody, firmware # Nobody,
                      call[c].result = "success", ~call[c].met, ~Fooled(call[c])
               PROVE  IF call[c].op = "block" THEN Blocked(call[c].ip) ELSE Free(call[c].ip)
    BY DEF SuccessIsTrue
  <2>1. Good(call[c], entries)  BY <1>1 DEF DriversInv
  <2>2. \A ip : InForce(ip) = Forced(entries, ip)  BY DEF InForce, Of, Forced, EntriesOn
  <2> QED  BY <2>1, <2>2 DEF Good, Stopped, Passing, Maker, Blocked, Free
<1> QED  BY <1>1, DriversInvariant, PTL

\* A call fails only by a fault or by another call's doing: no script gives up on a device
\* that does what it is told, whatever its firmware.
THEOREM QuietCallsGetThrough == DriversSpec => []QuietCallsSucceed
<1>1. ASSUME DriversInv  PROVE QuietCallsSucceed
  <2>1. \A c \in Callers : call[c] # Nobody => firmware # Nobody /\ Good(call[c], entries)  BY <1>1 DEF DriversInv
  <2> QED  BY <2>1 DEF QuietCallsSucceed, Good
<1> QED  BY <1>1, DriversInvariant, PTL

\* Entries do not pile up: what looks before it writes does not write twice.
THEOREM EntriesStaySingle == DriversSpec => []NoDoubleEntries
<1>1. ASSUME DriversInv  PROVE NoDoubleEntries
  <2>1. CASE firmware = Nobody  BY <1>1, <2>1 DEF DriversInv, NoDoubleEntries
  <2>2. CASE firmware # Nobody  BY <1>1, <2>2 DEF DriversInv, Single, NoDoubleEntries
  <2> QED  BY <2>1, <2>2
<1> QED  BY <1>1, DriversInvariant, PTL

-----------------------------------------------------------------------------
(* When blocks begin and end                                               *)

LEMMA CallersChangeForAReason ==
    ASSUME NEW c, Calling(c), Outcome(c), NEW ip \in Addresses
    PROVE  /\ InForce(ip) # {} /\ (InForce(ip))' = {} => Reason(c, ip)
           /\ InForce(ip) = {} /\ (InForce(ip))' # {} => Ground(c, ip)
<1>1. PICK k \in Call, list \in SUBSET Entry : Changes(c, k, list) /\ Allowed(c, list)  BY DEF Outcome
<1>2. InForce(ip) = Forced(entries, ip) /\ (InForce(ip))' = Forced(list, ip)
  BY <1>1 DEF Changes, InForce, Of, Forced, EntriesOn
<1>3. Forced(entries, ip) # {} /\ Forced(list, ip) = {} => Reason(c, ip)  BY <1>1 DEF Allowed
<1>4. ASSUME Forced(entries, ip) = {}, Forced(list, ip) # {}  PROVE Ground(c, ip)
  <2>1. PICK e \in list : e.ip = ip /\ e.status = "block"  BY <1>4 DEF Forced, EntriesOn
  <2>2. e \notin entries  BY <1>4, <2>1 DEF Forced, EntriesOn
  <2> QED  BY <1>1, <1>4, <2>1, <2>2 DEF Allowed, Grounded
<1> QED  BY <1>2, <1>3, <1>4

\* A step that ends the block of an address is an unblock of it, Topsec's replacement of a
\* record, or the rewriting of a group that changed since it was read; one that begins a
\* block is a block of the address or such a rewriting, which brings back what an unblock
\* took out of the group.
THEOREM BlocksChangeOnlyForAReason == DriversSpec => BlocksChangeForAReason
<1> DEFINE Changed ==
       \A ip \in Addresses :
          /\ InForce(ip) # {} /\ (InForce(ip))' = {} =>
                \E c \in Callers :
                    /\ Open(c)
                    /\ \/ call[c].ip = ip /\ call[c].op = "unblock"
                       \/ call[c].ip = ip /\ Stands(c, "topsec", "replace")
                       \/ call[c].met /\ Stands(c, "hillstone", "write")
          /\ InForce(ip) = {} /\ (InForce(ip))' # {} =>
                \E c \in Callers :
                    /\ Open(c)
                    /\ \/ call[c].ip = ip /\ call[c].op = "block"
                       \/ call[c].met /\ Stands(c, "hillstone", "write")
<1>1. ASSUME DriversInv, [DriversNext]_driverVars  PROVE [Changed]_driverVars
  <2>1. ASSUME entries' = entries  PROVE Changed  BY <2>1 DEF InForce, Of
  <2>2. ASSUME NEW f \in Firmwares, AddDevice(f)  PROVE Changed  BY <2>1, <2>2 DEF AddDevice
  <2>3. ASSUME NEW c \in Callers, NEW op \in {"block", "unblock"}, NEW ip \in Addresses, Start(c, op, ip)
        PROVE  Changed
    BY <2>1, <2>3 DEF Start
  <2>4. ASSUME NEW c \in Callers, Ask(c)  PROVE Changed
    <3>1. Calling(c) /\ Outcome(c)  BY <1>1, <2>4, AskOutcome DEF Calling
    <3> QED  BY <3>1, CallersChangeForAReason DEF Reason, Ground, Calling
  <2> QED  BY <1>1, <2>1, <2>2, <2>3, <2>4 DEF DriversNext
<1>2. DriversSpec => [][Changed]_driverVars  BY <1>1, DriversInvariant, PTL DEF DriversSpec
<1> QED  BY <1>2 DEF BlocksChangeForAReason

\* One call at a time: what max_concurrency = 1 would mean (sensemind_device/client.py:3).
OneAtATime == \A c, d \in Callers : Open(c) /\ Open(d) => c = d

\* No call that is under way has met another since it looked.
Unmet == \A c \in Callers : Open(c) => ~call[c].met

LEMMA UnmetStep ==
    ASSUME DriversInv, OneAtATime, Unmet, [DriversNext]_driverVars
    PROVE  Unmet'
<1>1. ASSUME NEW f \in Firmwares, AddDevice(f)  PROVE Unmet'  BY <1>1 DEF AddDevice, Unmet, Open
<1>2. ASSUME NEW c \in Callers, NEW op \in {"block", "unblock"}, NEW ip \in Addresses, Start(c, op, ip)
      PROVE  Unmet'
  BY <1>2 DEF Start, Unmet, Open, DriversInv, DriversTypeOK
<1>3. ASSUME NEW c \in Callers, Ask(c)  PROVE Unmet'
  <2>1. Calling(c) /\ Outcome(c)  BY <1>3, AskOutcome
  <2>2. PICK k \in Call, list \in SUBSET Entry : Changes(c, k, list) /\ After(c, k, list)  BY <2>1 DEF Outcome
  <2>3. ~call[c].met /\ \A d \in Callers : d # c => ~Open(d)  BY <2>1 DEF Calling, Unmet, OneAtATime
  <2>4. ~k.met  BY <2>2, <2>3 DEF After, SameCall
  <2>5. ASSUME NEW d \in Callers, d # c  PROVE ~Open(d)'
    <3>1. CASE call[d] = Nobody  BY <2>2, <2>5, <3>1 DEF Changes, Open
    <3>2. CASE call[d] # Nobody
      <4>1. call[d] \in Call /\ call[d].result # "running"  BY <2>3, <2>5, <3>2 DEF Open, DriversInv, DriversTypeOK
      <4>2. call'[d] = [call[d] EXCEPT !.met = @ \/ list # entries]  BY <2>2, <2>5, <3>2 DEF Changes
      <4>3. call'[d].result = call[d].result  BY <4>1, <4>2 DEF Call
      <4> QED  BY <4>1, <4>3 DEF Open
    <3> QED  BY <3>1, <3>2
  <2>6. call'[c] = k  BY <2>1, <2>2 DEF Changes, Calling
  <2> QED  BY <2>4, <2>5, <2>6 DEF Unmet
<1>4. CASE UNCHANGED driverVars  BY <1>4 DEF driverVars, Unmet, Open
<1> QED  BY <1>1, <1>2, <1>3, <1>4 DEF DriversNext

LEMMA OwnAddressOnly ==
    ASSUME DriversInv, Unmet \/ ~Maker("hillstone"), [DriversNext]_driverVars, NEW ip \in Addresses,
           InForce(ip) # {}, (InForce(ip))' = {}
    PROVE  \E c \in Callers : Open(c) /\ call[c].ip = ip
<1>1. entries' # entries  BY DEF InForce, Of
<1>2. PICK c \in Callers : Ask(c)  BY <1>1 DEF DriversNext, AddDevice, Start, driverVars
<1>3. Calling(c) /\ Outcome(c)  BY <1>2, AskOutcome
<1>4. Reason(c, ip)  BY <1>3, CallersChangeForAReason
<1>5. ~(call[c].met /\ Stands(c, "hillstone", "write"))  BY <1>3 DEF Calling, Unmet, Stands, Maker
<1> QED  BY <1>3, <1>4, <1>5 DEF Reason, Calling

\* As long as the calls to the device do not overlap, no block is undone by a call about
\* another address: what devices_concurrency refutes needs two calls at once.
THEOREM SerialCallsKeepBlocks == DriversSpec /\ []OneAtATime => OthersBlocksStay
<1>1. DriversInit => Unmet  BY DriversAssumption DEF DriversInit, Unmet, Open
<1>2. DriversInv /\ OneAtATime /\ Unmet /\ [DriversNext]_driverVars => Unmet'  BY UnmetStep
<1> DEFINE Own == \A ip \in Addresses :
          InForce(ip) # {} /\ (InForce(ip))' = {} => \E c \in Callers : Open(c) /\ call[c].ip = ip
<1>3. DriversInv /\ Unmet /\ [DriversNext]_driverVars => [Own]_driverVars  BY OwnAddressOnly
<1> HIDE DEF Own
<1>4. DriversSpec /\ []OneAtATime => [][Own]_driverVars  BY <1>1, <1>2, <1>3, DriversInvariant, PTL DEF DriversSpec
<1> QED  BY <1>4 DEF OthersBlocksStay, Own

\* And only Hillstone's group, written back whole, can lose them: on the devices of the other
\* makes no number of calls at once undoes the block of an address none of them is about.
THEOREM OtherMakesKeepBlocks ==
    (\A f \in Firmwares : f.vendor # "hillstone") => (DriversSpec => OthersBlocksStay)
<1> SUFFICES ASSUME \A f \in Firmwares : f.vendor # "hillstone"
             PROVE  DriversSpec => OthersBlocksStay
  OBVIOUS
<1>1. DriversInv => ~Maker("hillstone") \/ firmware = Nobody  BY DEF DriversInv, DriversTypeOK, Maker
<1> DEFINE Own == \A ip \in Addresses :
          InForce(ip) # {} /\ (InForce(ip))' = {} => \E c \in Callers : Open(c) /\ call[c].ip = ip
<1>2. DriversInv /\ [DriversNext]_driverVars => [Own]_driverVars
  <2> SUFFICES ASSUME DriversInv, [DriversNext]_driverVars, NEW ip \in Addresses,
                      InForce(ip) # {}, (InForce(ip))' = {}
               PROVE  \E c \in Callers : Open(c) /\ call[c].ip = ip
    OBVIOUS
  <2>1. firmware # Nobody  BY DEF DriversInv, InForce, Of
  <2> QED  BY <1>1, <2>1, OwnAddressOnly
<1> HIDE DEF Own
<1>3. DriversSpec => [][Own]_driverVars  BY <1>2, DriversInvariant, PTL DEF DriversSpec
<1> QED  BY <1>3 DEF OthersBlocksStay, Own

-----------------------------------------------------------------------------
(* DriverRegistry: what the requests hold                                  *)

\* The steps of a request, and what may be held of it.
HandlerSteps == {"idle", "check", "move", "unlink", "meta", "stage", "replace", "scan", "publish"}
Cache == [Keys -> Driver \cup {Missing}]
Handling == [step: HandlerSteps, op: {"none", "upload", "delete"}, key: Keys \cup {Missing}, script: Scripts \cup {Missing},
             data: Shelf \cup Cache \cup {Missing}, alone: BOOLEAN]

-----------------------------------------------------------------------------
(* Types                                                                   *)

\* What a request holds fits the step it is at.
HandlerFits(h) ==
    /\ ~On(h, "idle") => handling[h].key \in Keys
    /\ On(h, "check") \/ On(h, "move") => handling[h].script \in Scripts
    /\ On(h, "stage") => handling[h].data \in Shelf
    /\ On(h, "publish") => handling[h].data \in Cache

TypeInv ==
    /\ files \in Shelf /\ meta \in Shelf /\ temporary \in Shelf \cup {Missing}
    /\ drivers \in Cache
    /\ handled \in 0..MaxRequests /\ mishap \in 0..MaxMishaps /\ shaken \in BOOLEAN /\ strayed \in BOOLEAN /\ settled \in Keys \cup {Missing}
    /\ handling \in [Requesters -> Handling]
    /\ \A h \in Requesters : HandlerFits(h)

LEMMA Constants ==
    /\ Loop \notin Deleters /\ Missing \notin Scripts \cup Keys \cup Driver
    /\ MaxRequests \in Nat /\ MaxMishaps \in Nat
  BY RegistryAssumption

LEMMA RestingHandles == Resting \in Handling
  BY DEF Resting, Handling, HandlerSteps

LEMMA FromDiskType ==
    ASSUME files \in Shelf, NEW records \in Shelf
    PROVE  FromDisk(records) \in Cache
  BY DEF FromDisk, Cache, Shelf, Driver

LEMMA NoRecordsType == NoRecords \in Shelf
  BY DEF NoRecords, Shelf

LEMMA MishapType ==
    ASSUME TypeInv, UNCHANGED mishap \/ Mishap
    PROVE  mishap' \in 0..MaxMishaps
  BY Constants DEF TypeInv, Mishap

LEMMA InitRegistryType == RegistryInit => TypeInv
  <1> SUFFICES ASSUME RegistryInit PROVE TypeInv
    OBVIOUS
  <1>1. files \in Shelf /\ meta \in Shelf /\ drivers \in Cache
    BY DEF RegistryInit, NoRecords, Shelf, Cache
  <1>2. handling \in [Requesters -> Handling]
    BY RestingHandles DEF RegistryInit
  <1>3. \A h \in Requesters : HandlerFits(h)
    BY DEF RegistryInit, HandlerFits, On, Resting
  <1>4. handled \in 0..MaxRequests /\ mishap \in 0..MaxMishaps
    BY Constants DEF RegistryInit
  <1>5. temporary = Missing /\ shaken = FALSE /\ strayed = FALSE /\ settled = Missing
    BY DEF RegistryInit
  <1>6. QED
    BY <1>1, <1>2, <1>3, <1>4, <1>5 DEF TypeInv

\* A new request of any kind.
LEMMA StartType ==
    ASSUME TypeInv, NEW h \in Requesters, NEW record \in Handling, Starts(h, record),
           record.key \in Keys, record.step = "check" => record.script \in Scripts,
           record.step \in {"check", "unlink"}
    PROVE  TypeInv'
  <1>1. [record EXCEPT !.alone = Busy = {}] \in Handling /\ \A g \in Requesters : [handling[g] EXCEPT !.alone = FALSE] \in Handling
    BY DEF TypeInv, Handling
  <1>2. handling' \in [Requesters -> Handling]
    BY <1>1 DEF Starts, TypeInv
  <1>3. \A g \in Requesters : HandlerFits(g)'
    <2> SUFFICES ASSUME NEW g \in Requesters PROVE HandlerFits(g)'
      OBVIOUS
    <2>1. CASE g = h
      <3>1. /\ handling'[g].step = record.step /\ handling'[g].key = record.key
            /\ handling'[g].script = record.script
        BY <2>1 DEF Starts, Handling
      <3>2. QED
        BY <3>1 DEF HandlerFits, On
    <2>2. CASE g # h
      <3>1. /\ handling'[g].step = handling[g].step /\ handling'[g].key = handling[g].key
            /\ handling'[g].script = handling[g].script /\ handling'[g].data = handling[g].data
        BY <2>2 DEF Starts, TypeInv, Handling
      <3>2. QED
        BY <3>1 DEF HandlerFits, On, TypeInv
    <2>3. QED
      BY <2>1, <2>2
  <1>4. handled' \in 0..MaxRequests
    BY Constants DEF Starts, TypeInv
  <1>5. QED
    BY <1>2, <1>3, <1>4 DEF Starts, TypeInv

\* A step of one request.
LEMMA StepType ==
    ASSUME TypeInv, NEW h \in Requesters, NEW r \in Handling, handling' = [handling EXCEPT ![h] = r],
           r.step # "idle" => r.key \in Keys,
           r.step \in {"check", "move"} => r.script \in Scripts,
           r.step = "stage" => r.data \in Shelf,
           r.step = "publish" => r.data \in Cache
    PROVE  handling' \in [Requesters -> Handling] /\ \A g \in Requesters : HandlerFits(g)'
  <1>1. handling' \in [Requesters -> Handling]
    BY DEF TypeInv
  <1>2. ASSUME NEW g \in Requesters PROVE HandlerFits(g)'
    BY DEF TypeInv, HandlerFits, On
  <1>3. QED
    BY <1>1, <1>2

\* A request goes on to another step, or breaks off.
LEMMA GotoType ==
    ASSUME TypeInv, NEW h \in Requesters, NEW step \in HandlerSteps, Goto(h, step), ~On(h, "idle"),
           step = "move" => On(h, "check"), step \notin {"check", "stage", "publish"}
    PROVE  handling' \in [Requesters -> Handling] /\ \A g \in Requesters : HandlerFits(g)'
  <1> DEFINE r == [handling[h] EXCEPT !.step = step]
  <1>1. handling[h] \in Handling /\ HandlerFits(h)
    BY DEF TypeInv
  <1>2. r \in Handling /\ r.step = step /\ r.key = handling[h].key /\ r.script = handling[h].script
    BY <1>1 DEF Handling
  <1>3. handling' = [handling EXCEPT ![h] = r]
    BY DEF Goto
  <1>4. handling[h].key \in Keys /\ (step = "move" => handling[h].script \in Scripts)
    BY <1>1 DEF HandlerFits
  <1> HIDE DEF r
  <1>5. QED
    BY <1>2, <1>3, <1>4, StepType

LEMMA RestType ==
    ASSUME TypeInv, NEW h \in Requesters, handling' = [handling EXCEPT ![h] = Resting]
    PROVE  handling' \in [Requesters -> Handling] /\ \A g \in Requesters : HandlerFits(g)'
  <1>1. Resting.step = "idle"
    BY DEF Resting
  <1>2. QED
    BY <1>1, RestingHandles, StepType

LEMMA NextRegistryType == TypeInv /\ [RegistryNext]_registryVars => TypeInv'
  <1> SUFFICES ASSUME TypeInv, [RegistryNext]_registryVars PROVE TypeInv'
    OBVIOUS
  <1>0. Loop \in Requesters /\ \A h \in Deleters : h \in Requesters
    BY DEF Requesters
  <1>1. ASSUME NEW key \in Keys, NEW script \in Scripts, NEW overwrite \in BOOLEAN, Upload(key, script, overwrite)
        PROVE  TypeInv'
    <2> DEFINE record == [Resting EXCEPT !.step = "check", !.op = "upload", !.key = key, !.script = script]
    <2>1. record \in Handling /\ record.key = key /\ record.script = script /\ record.step = "check"
      BY DEF Resting, Handling, HandlerSteps
    <2>2. Starts(Loop, record)
      BY <1>1 DEF Upload
    <2> HIDE DEF record
    <2>3. QED
      BY <1>0, <2>1, <2>2, StartType
  <1>2. ASSUME NEW h \in Deleters, NEW key \in Keys, Delete(h, key)
        PROVE  TypeInv'
    <2> DEFINE record == [Resting EXCEPT !.step = "unlink", !.op = "delete", !.key = key]
    <2>1. record \in Handling /\ record.key = key /\ record.step = "unlink"
      BY DEF Resting, Handling, HandlerSteps
    <2>2. Starts(h, record)
      BY <1>2 DEF Delete
    <2> HIDE DEF record
    <2>3. QED
      BY <1>0, <2>1, <2>2, StartType
  <1>3. CASE CheckDisplayName
    <2>1. handling' \in [Requesters -> Handling] /\ \A g \in Requesters : HandlerFits(g)'
      BY <1>0, <1>3, GotoType, RestType DEF CheckDisplayName, Quits, On, HandlerSteps
    <2>2. QED
      BY <1>3, <2>1 DEF CheckDisplayName, TypeInv
  <1>4. CASE Move
    <2>1. handling' \in [Requesters -> Handling] /\ \A g \in Requesters : HandlerFits(g)'
      BY <1>0, <1>4, GotoType, RestType DEF Move, Quits, On, HandlerSteps
    <2>2. handling[Loop].script \in Scripts
      BY <1>0, <1>4 DEF Move, TypeInv, HandlerFits
    <2>3. files' \in Shelf
      BY <1>4, <2>2 DEF Move, TypeInv, Shelf
    <2>4. mishap' \in 0..MaxMishaps
      BY <1>4, MishapType DEF Move
    <2>5. QED
      BY <1>4, <2>1, <2>3, <2>4 DEF Move, TypeInv
  <1>5. ASSUME NEW h \in Requesters, Unlink(h) PROVE TypeInv'
    <2>1. handling' \in [Requesters -> Handling] /\ \A g \in Requesters : HandlerFits(g)'
      BY <1>5, GotoType, RestType DEF Unlink, Quits, On, HandlerSteps
    <2>2. files' \in Shelf
      BY <1>5 DEF Unlink, TypeInv, Shelf
    <2>3. QED
      BY <1>5, <2>1, <2>2 DEF Unlink, TypeInv
  <1>6. ASSUME NEW h \in Requesters, ReadMeta(h) PROVE TypeInv'
    <2>1. PICK records \in {meta, NoRecords} :
            /\ Reads(records)
            /\ handling' = [handling EXCEPT
                 ![h].data = [records EXCEPT ![handling[h].key] = handling[h].script],
                 ![h].step = IF handling[h].op = "delete" /\ records[handling[h].key] = Missing THEN "scan" ELSE "stage",
                 ![h].alone = handling[h].alone /\ records = meta]
      BY <1>6 DEF ReadMeta
    <2> DEFINE data == [records EXCEPT ![handling[h].key] = handling[h].script]
               step == IF handling[h].op = "delete" /\ records[handling[h].key] = Missing THEN "scan" ELSE "stage"
               alone == handling[h].alone /\ records = meta
               r == [handling[h] EXCEPT !.data = data, !.step = step, !.alone = alone]
    <2>2. handling[h] \in Handling /\ handling[h].key \in Keys /\ records \in Shelf
      BY <1>6, NoRecordsType DEF ReadMeta, On, TypeInv, HandlerFits
    <2>3. data \in Shelf
      BY <2>2 DEF Shelf, Handling
    <2>4. alone \in BOOLEAN /\ step \in {"scan", "stage"}
      BY <2>2 DEF Handling
    <2>5. handling' = [handling EXCEPT ![h] = r]
      BY <2>1
    <2> HIDE DEF data, alone, step
    <2>6. r \in Handling /\ r.step \in {"scan", "stage"} /\ r.key = handling[h].key /\ r.data = data
      BY <2>2, <2>3, <2>4 DEF Handling, HandlerSteps
    <2> HIDE DEF r
    <2>7. handling' \in [Requesters -> Handling] /\ \A g \in Requesters : HandlerFits(g)'
      BY <2>2, <2>3, <2>5, <2>6, StepType
    <2>8. mishap' \in 0..MaxMishaps
      BY <2>1, MishapType DEF Reads
    <2>9. QED
      BY <1>6, <2>7, <2>8 DEF ReadMeta, TypeInv
  <1>7. ASSUME NEW h \in Requesters, StageMeta(h) PROVE TypeInv'
    <2>1. handling' \in [Requesters -> Handling] /\ \A g \in Requesters : HandlerFits(g)'
      BY <1>7, GotoType, RestType DEF StageMeta, BreaksOff, Quits, On, HandlerSteps
    <2>2. handling[h].data \in Shelf
      BY <1>7 DEF StageMeta, TypeInv, HandlerFits
    <2>3. mishap' \in 0..MaxMishaps
      BY <1>7, MishapType DEF StageMeta
    <2>4. temporary' \in Shelf \cup {Missing} /\ shaken' \in BOOLEAN
      BY <1>7, <2>2 DEF StageMeta, BreaksOff, TypeInv
    <2>5. QED
      BY <1>7, <2>1, <2>3, <2>4 DEF StageMeta, TypeInv
  <1>8. ASSUME NEW h \in Requesters, ReplaceMeta(h) PROVE TypeInv'
    <2>1. handling' \in [Requesters -> Handling] /\ \A g \in Requesters : HandlerFits(g)'
      BY <1>8, GotoType, RestType DEF ReplaceMeta, BreaksOff, Quits, On, HandlerSteps
    <2>2. mishap' \in 0..MaxMishaps
      BY <1>8, MishapType DEF ReplaceMeta
    <2>3. meta' \in Shelf /\ temporary' \in Shelf \cup {Missing} /\ shaken' \in BOOLEAN
      BY <1>8 DEF ReplaceMeta, BreaksOff, TypeInv
    <2>4. QED
      BY <1>8, <2>1, <2>2, <2>3 DEF ReplaceMeta, TypeInv
  <1>9. ASSUME NEW h \in Requesters, Scan(h) PROVE TypeInv'
    <2>1. PICK records \in {meta, NoRecords} :
            /\ Reads(records)
            /\ handling' = [handling EXCEPT ![h].data = FromDisk(records), ![h].step = "publish",
                                            ![h].alone = handling[h].alone /\ records = meta]
      BY <1>9 DEF Scan
    <2> DEFINE alone == handling[h].alone /\ records = meta
               r == [handling[h] EXCEPT !.data = FromDisk(records), !.step = "publish", !.alone = alone]
    <2>2. handling[h] \in Handling /\ handling[h].key \in Keys /\ records \in Shelf
      BY <1>9, NoRecordsType DEF Scan, On, TypeInv, HandlerFits
    <2>3. FromDisk(records) \in Cache
      BY <2>2, FromDiskType DEF TypeInv
    <2>4. alone \in BOOLEAN
      BY <2>2 DEF Handling
    <2>5. handling' = [handling EXCEPT ![h] = r]
      BY <2>1
    <2> HIDE DEF alone
    <2>6. r \in Handling /\ r.step = "publish" /\ r.key = handling[h].key /\ r.data = FromDisk(records)
      BY <2>2, <2>3, <2>4 DEF Handling, HandlerSteps
    <2> HIDE DEF r
    <2>7. handling' \in [Requesters -> Handling] /\ \A g \in Requesters : HandlerFits(g)'
      BY <2>2, <2>3, <2>5, <2>6, StepType
    <2>8. mishap' \in 0..MaxMishaps
      BY <2>1, MishapType DEF Reads
    <2>9. QED
      BY <1>9, <2>7, <2>8 DEF Scan, TypeInv
  <1>10. ASSUME NEW h \in Requesters, Publish(h) PROVE TypeInv'
    <2>1. handling' \in [Requesters -> Handling] /\ \A g \in Requesters : HandlerFits(g)'
      BY <1>10, RestType DEF Publish, Quits
    <2>2. handling[h].data \in Cache /\ handling[h].key \in Keys
      BY <1>10 DEF Publish, TypeInv, HandlerFits, On
    <2>3. QED
      BY <1>10, <2>1, <2>2 DEF Publish, TypeInv
  <1>11. CASE RestartResponder
    <2>1. Registered \in Cache
      BY FromDiskType DEF Registered, TypeInv
    <2>2. handling' \in [Requesters -> Handling] /\ \A g \in Requesters : HandlerFits(g)'
      BY <1>11, RestingHandles DEF RestartResponder, HandlerFits, On, Resting
    <2>3. mishap' \in 0..MaxMishaps
      BY <1>11, MishapType DEF RestartResponder
    <2>4. QED
      BY <1>11, <2>1, <2>2, <2>3 DEF RestartResponder, TypeInv
  <1>12. CASE UNCHANGED registryVars
    BY <1>12 DEF registryVars, TypeInv, HandlerFits, On
  <1>13. QED
    BY <1>1, <1>2, <1>3, <1>4, <1>5, <1>6, <1>7, <1>8, <1>9, <1>10, <1>11, <1>12 DEF RegistryNext

\* Types; and what a request holds fits the step it is at (registry.py install_script,
\* uninstall_script).
THEOREM RegistryTyped == RegistrySpec => []TypeInv
  BY InitRegistryType, NextRegistryType, PTL DEF RegistrySpec

\* The files, the table of drivers and the requests have their types, and a request that
\* has started is about a key (registry.py install_script, uninstall_script).
THEOREM RegistryTypesHold == RegistrySpec => []RegistryTypeOK
  <1>1. TypeInv => RegistryTypeOK
    BY DEF TypeInv, RegistryTypeOK, Handling, HandlerSteps, HandlerFits, Cache
  <1> QED  BY <1>1, RegistryTyped, PTL

-----------------------------------------------------------------------------
(* What a request leaves behind                                            *)

\* How far a request has come that no other has overlapped with, and that could read the records.
Progress(h) ==
    LET r == handling[h]
    IN  /\ r.step = "unlink" \/ r.op = "delete" => r.script = Missing
        /\ r.step \in {"meta", "stage", "replace", "scan", "publish"} => files[r.key] = r.script
        /\ r.step = "stage" => r.data[r.key] = r.script
        /\ r.step = "replace" /\ temporary # Missing => temporary[r.key] = r.script
        /\ r.step \in {"scan", "publish"} => meta[r.key] = r.script
        /\ r.step = "publish" => r.data = Registered

\* Inductive, whatever went wrong before.
TruthInv ==
    /\ \A h \in Requesters : handling[h].alone =>
          /\ handling[h].step # "idle"
          /\ \A g \in Requesters \ {h} : handling[g].step = "idle"
          /\ Progress(h)
    /\ settled # Missing => (\A h \in Requesters : handling[h].step = "idle") /\ RequestLeavesTruth

LEMMA InitTruth == RegistryInit => TruthInv
  BY DEF RegistryInit, TruthInv, Resting

LEMMA StartTruth ==
    ASSUME TypeInv, NEW h \in Requesters, NEW record \in Handling, Starts(h, record),
           record.step \in {"check", "unlink"},
           record.step = "unlink" \/ record.op = "delete" => record.script = Missing
    PROVE  TruthInv'
  <1>1. /\ settled' = Missing
        /\ \A g \in Requesters \ {h} : handling'[g].alone = FALSE /\ handling'[g].step = handling[g].step
        /\ handling'[h].alone = (Busy = {}) /\ handling'[h].step = record.step
        /\ handling'[h].script = record.script /\ handling'[h].op = record.op
    BY DEF Starts, TypeInv, Handling
  <1>2. Busy = {} => \A g \in Requesters : handling[g].step = "idle"
    BY DEF Busy, On
  <1>3. Progress(h)'
    BY <1>1 DEF Progress
  <1>4. QED
    BY <1>1, <1>2, <1>3 DEF TruthInv

\* A step of one request, which then knows as much as it should or is over.
LEMMA StepTruth ==
    ASSUME TypeInv, TruthInv, NEW h \in Requesters, ~On(h, "idle"), NEW r \in Handling,
           handling' = [handling EXCEPT ![h] = r], r.alone => handling[h].alone, r.alone => r.step # "idle",
           r.alone => Progress(h)', settled' = settled
    PROVE  TruthInv'
  <1>1. handling'[h] = r /\ \A g \in Requesters \ {h} : handling'[g] = handling[g]
    BY DEF TypeInv
  <1>2. settled = Missing
    BY DEF TruthInv, On
  <1>3. ASSUME NEW g \in Requesters, handling'[g].alone
        PROVE  /\ handling'[g].step # "idle" /\ Progress(g)'
               /\ \A k \in Requesters \ {g} : handling'[k].step = "idle"
    <2>1. CASE g = h
      BY <1>1, <1>3, <2>1 DEF TruthInv
    <2>2. CASE g # h
      BY <1>1, <1>3, <2>2 DEF TruthInv, On
    <2>3. QED
      BY <2>1, <2>2
  <1>4. QED
    BY <1>2, <1>3 DEF TruthInv

LEMMA NextTruth == TypeInv /\ TruthInv /\ [RegistryNext]_registryVars => TruthInv'
  <1> SUFFICES ASSUME TypeInv, TruthInv, [RegistryNext]_registryVars PROVE TruthInv'
    OBVIOUS
  <1>0. Loop \in Requesters /\ \A h \in Deleters : h \in Requesters
    BY DEF Requesters
  <1>1. TypeInv'
    BY NextRegistryType
  <1>2. ASSUME NEW key \in Keys, NEW script \in Scripts, NEW overwrite \in BOOLEAN, Upload(key, script, overwrite)
        PROVE  TruthInv'
    <2> DEFINE record == [Resting EXCEPT !.step = "check", !.op = "upload", !.key = key, !.script = script]
    <2>1. record \in Handling /\ record.step = "check" /\ record.op = "upload"
      BY DEF Resting, Handling, HandlerSteps
    <2>2. Starts(Loop, record)
      BY <1>2 DEF Upload
    <2> HIDE DEF record
    <2>3. QED
      BY <1>0, <2>1, <2>2, StartTruth
  <1>3. ASSUME NEW h \in Deleters, NEW key \in Keys, Delete(h, key)
        PROVE  TruthInv'
    <2> DEFINE record == [Resting EXCEPT !.step = "unlink", !.op = "delete", !.key = key]
    <2>1. record \in Handling /\ record.step = "unlink" /\ record.script = Missing
      BY DEF Resting, Handling, HandlerSteps
    <2>2. Starts(h, record)
      BY <1>3 DEF Delete
    <2> HIDE DEF record
    <2>3. QED
      BY <1>0, <2>1, <2>2, StartTruth
  <1>4. ASSUME NEW h \in Requesters, Quits(h), ~On(h, "idle"), settled' = settled
        PROVE  TruthInv'
    <2>1. Resting \in Handling /\ ~Resting.alone /\ handling' = [handling EXCEPT ![h] = Resting]
      BY <1>4, RestingHandles DEF Quits, Resting
    <2>2. QED
      BY <1>4, <2>1, StepTruth
  <1>5. ASSUME NEW h \in Requesters, NEW step \in HandlerSteps \ {"idle"}, Goto(h, step), ~On(h, "idle"), settled' = settled,
               handling[h].alone /\ Progress(h) => Progress(h)'
        PROVE  TruthInv'
    <2> DEFINE r == [handling[h] EXCEPT !.step = step]
    <2>1. r \in Handling /\ r.alone = handling[h].alone /\ r.step = step
      BY <1>5 DEF TypeInv, Handling
    <2>2. handling' = [handling EXCEPT ![h] = r]
      BY <1>5 DEF Goto
    <2>3. handling[h].alone => Progress(h)'
      BY <1>5 DEF TruthInv
    <2> HIDE DEF r
    <2>4. QED
      BY <1>5, <2>1, <2>2, <2>3, StepTruth
  <1>6. CASE CheckDisplayName
    <2>1. ~On(Loop, "idle") /\ On(Loop, "check") /\ UNCHANGED <<files, meta, temporary, settled>>
      BY <1>6 DEF CheckDisplayName, On
    <2>2. CASE Quits(Loop)
      BY <1>0, <1>4, <2>1, <2>2
    <2>3. CASE Goto(Loop, "move")
      <3>1. Progress(Loop) => Progress(Loop)'
        BY <1>0, <2>3 DEF Goto, TypeInv, Handling, Progress
      <3>2. QED
        BY <1>0, <1>5, <2>1, <2>3, <3>1 DEF HandlerSteps
    <2>4. QED
      BY <1>6, <2>2, <2>3 DEF CheckDisplayName
  <1>7. CASE Move
    <2>1. ~On(Loop, "idle") /\ On(Loop, "move") /\ settled' = settled
      BY <1>7 DEF Move, On
    <2>2. CASE files' = [files EXCEPT ![handling[Loop].key] = handling[Loop].script] /\ Goto(Loop, "meta")
      <3>1. handling[Loop].key \in Keys
        BY <1>0, <2>1 DEF TypeInv, HandlerFits
      <3>2. /\ handling'[Loop].step = "meta" /\ handling'[Loop].key = handling[Loop].key
            /\ handling'[Loop].script = handling[Loop].script /\ handling'[Loop].op = handling[Loop].op
        BY <1>0, <2>2 DEF Goto, TypeInv, Handling
      <3>3. Progress(Loop) => Progress(Loop)'
        BY <2>2, <3>1, <3>2 DEF TypeInv, Shelf, Progress
      <3>4. QED
        BY <1>0, <1>5, <2>1, <2>2, <3>3 DEF HandlerSteps
    <2>3. QED
      BY <1>0, <1>4, <1>7, <2>1, <2>2 DEF Move
  <1>8. ASSUME NEW h \in Requesters, Unlink(h) PROVE TruthInv'
    <2>1. ~On(h, "idle") /\ On(h, "unlink") /\ settled' = settled
      BY <1>8 DEF Unlink, On
    <2>2. CASE files' = [files EXCEPT ![handling[h].key] = Missing] /\ Goto(h, "meta")
      <3>1. handling[h].key \in Keys
        BY <2>1 DEF TypeInv, HandlerFits
      <3>2. /\ handling'[h].step = "meta" /\ handling'[h].key = handling[h].key
            /\ handling'[h].script = handling[h].script /\ handling'[h].op = handling[h].op
        BY <2>2 DEF Goto, TypeInv, Handling
      <3>3. Progress(h) => Progress(h)'
        BY <2>1, <2>2, <3>1, <3>2 DEF TypeInv, Shelf, Progress, On
      <3>4. QED
        BY <1>5, <2>1, <2>2, <3>3 DEF HandlerSteps
    <2>3. QED
      BY <1>4, <1>8, <2>1, <2>2 DEF Unlink
  <1>9. ASSUME NEW h \in Requesters, ReadMeta(h) PROVE TruthInv'
    <2> DEFINE r == handling'[h]
    <2>1. ~On(h, "idle") /\ On(h, "meta") /\ UNCHANGED <<files, meta, temporary, settled>>
      BY <1>9 DEF ReadMeta, On
    <2>2. r \in Handling /\ handling' = [handling EXCEPT ![h] = r]
      BY <1>1, <1>9 DEF ReadMeta, TypeInv
    <2>3. PICK records \in {meta, NoRecords} :
            /\ r.key = handling[h].key /\ r.script = handling[h].script /\ r.op = handling[h].op
            /\ r.alone = (handling[h].alone /\ records = meta)
            /\ r.data = [records EXCEPT ![r.key] = r.script]
            /\ r.step = IF handling[h].op = "delete" /\ records[r.key] = Missing THEN "scan" ELSE "stage"
      BY <1>9 DEF ReadMeta, TypeInv, Handling
    <2>4. r.key \in Keys
      BY <2>1, <2>3 DEF TypeInv, HandlerFits
    <2>5. r.alone => handling[h].alone /\ records = meta
      BY <2>3
    <2>6. ASSUME r.alone PROVE Progress(h)'
      <3>1. Progress(h) /\ records = meta
        BY <2>5, <2>6 DEF TruthInv
      <3>2. files[r.key] = r.script /\ (handling[h].op = "delete" => r.script = Missing)
        BY <2>1, <2>3, <3>1 DEF Progress, On
      <3>3. r.data[r.key] = r.script
        BY <2>3, <2>4, <3>1 DEF TypeInv, Shelf
      <3>4. QED
        BY <2>1, <2>3, <3>1, <3>2, <3>3 DEF Progress
    <2>7. r.step # "idle"
      BY <2>3
    <2> HIDE DEF r
    <2>8. QED
      BY <2>1, <2>2, <2>5, <2>6, <2>7, StepTruth
  <1>10. ASSUME NEW h \in Requesters, StageMeta(h) PROVE TruthInv'
    <2>1. ~On(h, "idle") /\ On(h, "stage") /\ UNCHANGED <<files, meta, settled>>
      BY <1>10 DEF StageMeta, On
    <2>2. CASE temporary' = handling[h].data /\ Goto(h, "replace")
      <3>1. Progress(h) => Progress(h)'
        BY <2>1, <2>2 DEF Goto, TypeInv, Handling, Progress, On
      <3>2. QED
        BY <1>5, <2>1, <2>2, <3>1 DEF HandlerSteps
    <2>3. QED
      BY <1>4, <1>10, <2>1, <2>2 DEF StageMeta, BreaksOff
  <1>11. ASSUME NEW h \in Requesters, ReplaceMeta(h) PROVE TruthInv'
    <2>1. ~On(h, "idle") /\ On(h, "replace") /\ UNCHANGED <<files, settled>>
      BY <1>11 DEF ReplaceMeta, On
    <2>2. CASE temporary # Missing /\ meta' = temporary /\ Goto(h, "scan")
      <3>1. Progress(h) => Progress(h)'
        BY <2>1, <2>2 DEF Goto, TypeInv, Handling, Progress, On
      <3>2. QED
        BY <1>5, <2>1, <2>2, <3>1 DEF HandlerSteps
    <2>3. QED
      BY <1>4, <1>11, <2>1, <2>2 DEF ReplaceMeta, BreaksOff
  <1>12. ASSUME NEW h \in Requesters, Scan(h) PROVE TruthInv'
    <2> DEFINE r == handling'[h]
    <2>1. ~On(h, "idle") /\ On(h, "scan") /\ UNCHANGED <<files, meta, temporary, settled>>
      BY <1>12 DEF Scan, On
    <2>2. r \in Handling /\ handling' = [handling EXCEPT ![h] = r]
      BY <1>1, <1>12 DEF Scan, TypeInv
    <2>3. PICK records \in {meta, NoRecords} :
            /\ r.key = handling[h].key /\ r.script = handling[h].script /\ r.op = handling[h].op
            /\ r.alone = (handling[h].alone /\ records = meta)
            /\ r.data = FromDisk(records) /\ r.step = "publish"
      BY <1>12 DEF Scan, TypeInv, Handling
    <2>4. r.alone => handling[h].alone /\ records = meta
      BY <2>3
    <2>5. ASSUME r.alone PROVE Progress(h)'
      <3>1. Progress(h) /\ records = meta
        BY <2>4, <2>5 DEF TruthInv
      <3>2. r.data = Registered'
        BY <2>1, <2>3, <3>1 DEF Registered, FromDisk
      <3>3. QED
        BY <2>1, <2>3, <3>1, <3>2 DEF Progress, On
    <2>6. r.step # "idle"
      BY <2>3
    <2> HIDE DEF r
    <2>7. QED
      BY <2>1, <2>2, <2>4, <2>5, <2>6, StepTruth
  <1>13. ASSUME NEW h \in Requesters, Publish(h) PROVE TruthInv'
    <2>1. /\ On(h, "publish") /\ UNCHANGED <<files, meta>> /\ drivers' = handling[h].data
          /\ handling' = [handling EXCEPT ![h] = Resting]
          /\ settled' = IF handling[h].alone THEN handling[h].key ELSE Missing
      BY <1>13 DEF Publish, Quits
    <2>2. handling'[h].step = "idle" /\ ~handling'[h].alone /\ \A g \in Requesters \ {h} : handling'[g] = handling[g]
      BY <2>1 DEF TypeInv, Resting
    <2>3. \A g \in Requesters : ~handling'[g].alone
      BY <2>1, <2>2 DEF TruthInv, On
    <2>4. ASSUME settled' # Missing
          PROVE  (\A g \in Requesters : handling'[g].step = "idle") /\ RequestLeavesTruth'
      <3>1. handling[h].alone /\ settled' = handling[h].key
        BY <2>1, <2>4
      <3>2. Progress(h) /\ \A g \in Requesters \ {h} : handling[g].step = "idle"
        BY <3>1 DEF TruthInv
      <3>3. /\ files[handling[h].key] = handling[h].script /\ meta[handling[h].key] = handling[h].script
            /\ handling[h].data = Registered
        BY <2>1, <3>2 DEF Progress, On
      <3>4. Registered' = Registered
        BY <2>1 DEF Registered, FromDisk
      <3>5. RequestLeavesTruth'
        BY <2>1, <3>1, <3>3, <3>4 DEF RequestLeavesTruth
      <3>6. QED
        BY <2>2, <3>2, <3>5
    <2>5. QED
      BY <2>3, <2>4 DEF TruthInv
  <1>14. CASE RestartResponder
    <2>1. settled' = Missing /\ \A g \in Requesters : ~handling'[g].alone
      BY <1>14 DEF RestartResponder, Resting
    <2>2. QED
      BY <2>1 DEF TruthInv
  <1>15. CASE UNCHANGED registryVars
    BY <1>15 DEF registryVars, TruthInv, Progress, RequestLeavesTruth, Registered, FromDisk
  <1>16. QED
    BY <1>2, <1>3, <1>6, <1>7, <1>8, <1>9, <1>10, <1>11, <1>12, <1>13, <1>14, <1>15 DEF RegistryNext

\* A request that ran alone and could read the records leaves cache, records and disk
\* in agreement, whatever went wrong before it (registry.py install_script, uninstall_script).
THEOREM RequestsRepair == RegistrySpec => []RequestLeavesTruth
  <1>1. RegistryInit => TypeInv /\ TruthInv
    BY InitRegistryType, InitTruth
  <1>2. TypeInv /\ TruthInv /\ [RegistryNext]_registryVars => (TypeInv /\ TruthInv)'
    BY NextRegistryType, NextTruth
  <1>3. TruthInv => RequestLeavesTruth
    BY DEF TruthInv, RequestLeavesTruth
  <1>4. QED
    BY <1>1, <1>2, <1>3, PTL DEF RegistrySpec

-----------------------------------------------------------------------------
(* Display names                                                           *)

\* A table of drivers shows the scripts on disk.
Agrees(table) ==
    \A k \in Keys : IF files[k] = Missing THEN table[k] = Missing
                    ELSE table[k] # Missing /\ table[k].script = files[k]

\* Inductive: as long as no upload has been checked while the cache was shaken, names on
\* disk differ and a script about to be moved has a name that is not on disk.  While the
\* cache is not shaken it lags behind the disk only between the change of a script and the
\* publication of the next scan.
Apart == \A g, h \in Requesters : ~On(g, "idle") /\ ~On(h, "idle") => g = h
Untouched(h) == On(h, "idle") \/ On(h, "check") \/ On(h, "move") \/ On(h, "unlink")
TrueNames(key) == BuiltinNames \cup {files[k].name : k \in {l \in Keys \ {key} : files[l] # Missing}}
MoveIsSafe == On(Loop, "move") => handling[Loop].script.name \notin TrueNames(handling[Loop].key)
CacheInv ==
    ~shaken =>
      /\ Apart
      /\ \A h \in Requesters : On(h, "publish") => Agrees(handling[h].data)
      /\ (\A h \in Requesters : Untouched(h)) => Agrees(drivers)
NamesInv == NamesDiffer /\ (~strayed => MoveIsSafe)

LEMMA FromDiskAgrees ==
    ASSUME TypeInv, NEW records \in Shelf
    PROVE  Agrees(FromDisk(records))
  <1> SUFFICES ASSUME NEW k \in Keys
               PROVE  IF files[k] = Missing THEN FromDisk(records)[k] = Missing
                      ELSE FromDisk(records)[k] # Missing /\ FromDisk(records)[k].script = files[k]
    BY DEF Agrees
  <1>1. CASE files[k] = Missing
    BY <1>1 DEF FromDisk
  <1>2. CASE files[k] # Missing
    <2>1. files[k] \in Scripts /\ records[k] \in Scripts \cup {Missing}
      BY <1>2 DEF TypeInv, Shelf
    <2>2. FromDisk(records)[k] = [script |-> files[k], meta |-> records[k]]
      BY <1>2 DEF FromDisk
    <2>3. FromDisk(records)[k] \in Driver
      BY <2>1, <2>2 DEF Driver
    <2>4. QED
      BY <1>2, <2>2, <2>3, Constants
  <1>3. QED
    BY <1>1, <1>2

LEMMA InitNames == RegistryInit => CacheInv /\ NamesInv
  <1> SUFFICES ASSUME RegistryInit PROVE CacheInv /\ NamesInv
    OBVIOUS
  <1>1. \A h \in Requesters : handling[h].step = "idle"
    BY DEF RegistryInit, Resting
  <1>2. Loop \in Requesters
    BY DEF Requesters
  <1>3. Agrees(drivers) /\ NamesDiffer
    BY DEF RegistryInit, NoRecords, Agrees, NamesDiffer
  <1>4. QED
    BY <1>1, <1>2, <1>3 DEF NamesInv, CacheInv, MoveIsSafe, Apart, On

\* A step of a request that changes neither scripts nor cache, and goes on.
LEMMA QuietCache ==
    ASSUME TypeInv, CacheInv, ~shaken, UNCHANGED <<files, drivers>>,
           NEW h \in Requesters, ~On(h, "idle"), NEW r \in Handling, handling' = [handling EXCEPT ![h] = r],
           r.step \in {"stage", "replace", "scan", "publish"},
           r.step = "publish" => Agrees(r.data)
    PROVE  CacheInv'
  <1>1. /\ \A g \in Requesters \ {h} : handling'[g] = handling[g] /\ handling[g].step = "idle"
        /\ handling'[h] = r
    BY DEF TypeInv, CacheInv, Apart, On
  <1>2. Apart' /\ ~Untouched(h)'
    BY <1>1 DEF Apart, On, Untouched
  <1>3. \A g \in Requesters : On(g, "publish")' => Agrees(handling[g].data)'
    BY <1>1 DEF On, Agrees
  <1>4. QED
    BY <1>2, <1>3 DEF CacheInv

LEMMA StartCache ==
    ASSUME TypeInv, CacheInv, NEW h \in Requesters, NEW record \in Handling, Starts(h, record), ~shaken',
           record.step \in {"check", "unlink"}
    PROVE  CacheInv'
  <1>1. ~shaken /\ Busy = {} /\ UNCHANGED <<files, drivers>>
    BY DEF Starts
  <1>2. \A g \in Requesters : handling[g].step = "idle"
    BY <1>1 DEF Busy, On
  <1>3. /\ \A g \in Requesters \ {h} : handling'[g].step = "idle"
        /\ handling'[h].step = record.step
    BY <1>2 DEF Starts, TypeInv, Handling
  <1>4. Agrees(drivers)
    BY <1>1, <1>2 DEF CacheInv, Untouched, On
  <1>5. Agrees(drivers)'
    BY <1>1, <1>4 DEF Agrees
  <1>6. QED
    BY <1>3, <1>5 DEF CacheInv, Apart, On

\* A request that gives up before it has changed anything.
LEMMA QuitCache ==
    ASSUME TypeInv, CacheInv, ~shaken, UNCHANGED <<files, drivers>>, NEW h \in Requesters, ~On(h, "idle"), Untouched(h), Quits(h)
    PROVE  CacheInv'
  <1>1. \A g \in Requesters : handling'[g].step = "idle"
    BY DEF TypeInv, CacheInv, Apart, On, Quits, Resting
  <1>2. \A g \in Requesters : Untouched(g)
    BY DEF CacheInv, Apart, Untouched
  <1>3. Agrees(drivers)'
    BY <1>2 DEF CacheInv, Agrees
  <1>4. QED
    BY <1>1, <1>3 DEF CacheInv, Apart, On

LEMMA NextCache == TypeInv /\ TruthInv /\ CacheInv /\ [RegistryNext]_registryVars => CacheInv'
  <1> SUFFICES ASSUME TypeInv, TruthInv, CacheInv, [RegistryNext]_registryVars, ~shaken' PROVE CacheInv'
    BY DEF CacheInv
  <1>0. Loop \in Requesters /\ \A h \in Deleters : h \in Requesters
    BY DEF Requesters
  <1>1. ASSUME NEW key \in Keys, NEW script \in Scripts, NEW overwrite \in BOOLEAN, Upload(key, script, overwrite)
        PROVE  CacheInv'
    <2> DEFINE record == [Resting EXCEPT !.step = "check", !.op = "upload", !.key = key, !.script = script]
    <2>1. record \in Handling /\ record.step = "check"
      BY DEF Resting, Handling, HandlerSteps
    <2>2. Starts(Loop, record)
      BY <1>1 DEF Upload
    <2> HIDE DEF record
    <2>3. QED
      BY <1>0, <2>1, <2>2, StartCache
  <1>2. ASSUME NEW h \in Deleters, NEW key \in Keys, Delete(h, key)
        PROVE  CacheInv'
    <2> DEFINE record == [Resting EXCEPT !.step = "unlink", !.op = "delete", !.key = key]
    <2>1. record \in Handling /\ record.step = "unlink"
      BY DEF Resting, Handling, HandlerSteps
    <2>2. Starts(h, record)
      BY <1>2 DEF Delete
    <2> HIDE DEF record
    <2>3. QED
      BY <1>0, <2>1, <2>2, StartCache
  <1>3. CASE CheckDisplayName
    <2>1. ~shaken /\ On(Loop, "check") /\ UNCHANGED <<files, drivers>>
      BY <1>3 DEF CheckDisplayName
    <2>2. CASE Quits(Loop)
      BY <1>0, <2>1, <2>2, QuitCache DEF Untouched, On
    <2>3. CASE Goto(Loop, "move")
      <3>1. \A g \in Requesters \ {Loop} : handling'[g] = handling[g] /\ handling[g].step = "idle"
        BY <1>0, <2>1, <2>3 DEF Goto, TypeInv, CacheInv, Apart, On
      <3>2. handling'[Loop].step = "move"
        BY <1>0, <2>3 DEF Goto, TypeInv, Handling
      <3>3. Agrees(drivers)
        BY <2>1, <3>1 DEF CacheInv, Untouched, On
      <3>4. Agrees(drivers)'
        BY <2>1, <3>3 DEF Agrees
      <3>5. QED
        BY <3>1, <3>2, <3>4 DEF CacheInv, Apart, On
    <2>4. QED
      BY <1>3, <2>2, <2>3 DEF CheckDisplayName
  <1>4. CASE Move
    <2>1. ~shaken /\ On(Loop, "move") /\ drivers' = drivers
      BY <1>4 DEF Move
    <2>2. CASE Quits(Loop) /\ UNCHANGED files
      BY <1>0, <2>1, <2>2, QuitCache DEF Untouched, On
    <2>3. CASE Goto(Loop, "meta")
      <3>1. /\ \A g \in Requesters \ {Loop} : handling'[g] = handling[g] /\ handling[g].step = "idle"
            /\ handling'[Loop].step = "meta"
        BY <1>0, <2>1, <2>3 DEF Goto, TypeInv, Handling, CacheInv, Apart, On
      <3>2. QED
        BY <1>0, <3>1 DEF CacheInv, Apart, Untouched, On
    <2>4. QED
      BY <1>4, <2>2, <2>3 DEF Move
  <1>5. ASSUME NEW h \in Requesters, Unlink(h) PROVE CacheInv'
    <2>1. ~shaken /\ On(h, "unlink") /\ drivers' = drivers
      BY <1>5 DEF Unlink
    <2>2. CASE Quits(h) /\ UNCHANGED files
      BY <2>1, <2>2, QuitCache DEF Untouched, On
    <2>3. CASE Goto(h, "meta")
      <3>1. /\ \A g \in Requesters \ {h} : handling'[g] = handling[g] /\ handling[g].step = "idle"
            /\ handling'[h].step = "meta"
        BY <2>1, <2>3 DEF Goto, TypeInv, Handling, CacheInv, Apart, On
      <3>2. QED
        BY <3>1 DEF CacheInv, Apart, Untouched, On
    <2>4. QED
      BY <1>5, <2>2, <2>3 DEF Unlink
  <1>6. ASSUME NEW h \in Requesters, ReadMeta(h) \/ StageMeta(h) \/ ReplaceMeta(h)
        PROVE  CacheInv'
    <2> DEFINE r == handling'[h]
    <2>1. /\ ~shaken /\ UNCHANGED <<files, drivers>>
          /\ On(h, "meta") \/ On(h, "stage") \/ On(h, "replace")
      BY <1>6 DEF ReadMeta, StageMeta, ReplaceMeta, BreaksOff
    <2>2. ~On(h, "idle")
      BY <2>1 DEF On
    <2>3. r \in Handling
      BY NextRegistryType DEF TypeInv
    <2>4. handling' = [handling EXCEPT ![h] = r]
      BY <1>6 DEF ReadMeta, StageMeta, ReplaceMeta, Goto, BreaksOff, TypeInv
    <2>5. r.step \in {"stage", "replace", "scan"}
      BY <1>6 DEF ReadMeta, StageMeta, ReplaceMeta, Goto, BreaksOff, TypeInv, Handling
    <2> HIDE DEF r
    <2>6. QED
      BY <2>1, <2>2, <2>3, <2>4, <2>5, QuietCache
  <1>7. ASSUME NEW h \in Requesters, Scan(h) PROVE CacheInv'
    <2> DEFINE r == handling'[h]
    <2>1. ~shaken /\ UNCHANGED <<files, drivers>> /\ ~On(h, "idle")
      BY <1>7 DEF Scan, On
    <2>2. r \in Handling
      BY NextRegistryType DEF TypeInv
    <2>3. handling' = [handling EXCEPT ![h] = r]
      BY <1>7 DEF Scan, TypeInv
    <2>4. PICK records \in {meta, NoRecords} : r.step = "publish" /\ r.data = FromDisk(records)
      BY <1>7 DEF Scan, TypeInv, Handling
    <2>5. Agrees(r.data)
      BY <2>4, FromDiskAgrees, NoRecordsType DEF TypeInv
    <2> HIDE DEF r
    <2>6. QED
      BY <2>1, <2>2, <2>3, <2>4, <2>5, QuietCache
  <1>8. ASSUME NEW h \in Requesters, Publish(h) PROVE CacheInv'
    <2>1. /\ On(h, "publish") /\ files' = files /\ drivers' = handling[h].data
          /\ handling' = [handling EXCEPT ![h] = Resting]
          /\ ~shaken \/ handling[h].alone
      BY <1>8 DEF Publish, Quits
    <2>2. Agrees(handling[h].data) /\ \A g \in Requesters \ {h} : handling[g].step = "idle"
      <3>1. CASE ~shaken
        BY <2>1, <3>1 DEF CacheInv, Apart, On
      <3>2. CASE handling[h].alone
        <4>1. handling[h].data = FromDisk(meta)
          BY <2>1, <3>2 DEF TruthInv, Progress, Registered, On
        <4>2. Agrees(handling[h].data)
          BY <4>1, FromDiskAgrees DEF TypeInv
        <4>3. QED
          BY <3>2, <4>2 DEF TruthInv
      <3>3. QED
        BY <2>1, <3>1, <3>2
    <2>3. \A g \in Requesters : handling'[g].step = "idle"
      BY <2>1, <2>2 DEF TypeInv, Resting
    <2>4. Agrees(drivers)'
      BY <2>1, <2>2 DEF Agrees
    <2>5. QED
      BY <2>3, <2>4 DEF CacheInv, Apart, On
  <1>9. CASE RestartResponder
    <2>1. files' = files /\ drivers' = FromDisk(meta) /\ \A g \in Requesters : handling'[g].step = "idle"
      BY <1>9 DEF RestartResponder, Registered, Resting
    <2>2. Agrees(FromDisk(meta))
      BY FromDiskAgrees DEF TypeInv
    <2>3. Agrees(drivers)'
      BY <2>1, <2>2 DEF Agrees
    <2>4. QED
      BY <2>1, <2>3 DEF CacheInv, Apart, On
  <1>10. CASE UNCHANGED registryVars
    BY <1>10 DEF registryVars, CacheInv, Apart, Agrees, Untouched, On
  <1>11. QED
    BY <1>1, <1>2, <1>3, <1>4, <1>5, <1>6, <1>7, <1>8, <1>9, <1>10 DEF RegistryNext

\* A step that adds no script leaves names different, and a move safe that was.
LEMMA FewerNames ==
    ASSUME TypeInv, NamesInv, strayed' = strayed, \A k \in Keys : files'[k] = files[k] \/ files'[k] = Missing,
           On(Loop, "move")' => /\ On(Loop, "move") /\ handling'[Loop].key = handling[Loop].key
                               /\ handling'[Loop].script = handling[Loop].script
    PROVE  NamesInv'
  <1>1. NamesDiffer'
    BY DEF NamesInv, NamesDiffer
  <1>2. ASSUME ~strayed', On(Loop, "move")'
        PROVE  handling'[Loop].script.name \notin TrueNames(handling[Loop].key)'
    <2>1. handling[Loop].script.name \notin TrueNames(handling[Loop].key)
      BY <1>2 DEF NamesInv, MoveIsSafe
    <2>2. TrueNames(handling[Loop].key)' \subseteq TrueNames(handling[Loop].key)
      BY <1>2 DEF TrueNames
    <2>3. QED
      BY <1>2, <2>1, <2>2
  <1>3. QED
    BY <1>1, <1>2 DEF NamesInv, MoveIsSafe

LEMMA NextNames == TypeInv /\ CacheInv /\ NamesInv /\ [RegistryNext]_registryVars => NamesInv'
  <1> SUFFICES ASSUME TypeInv, CacheInv, NamesInv, [RegistryNext]_registryVars PROVE NamesInv'
    OBVIOUS
  <1>0. Loop \in Requesters /\ (\A h \in Deleters : h \in Requesters /\ h # Loop)
    BY RegistryAssumption DEF Requesters
  <1>1. ASSUME NEW h \in Requesters, NEW record \in Handling, Starts(h, record), record.step \in {"check", "unlink"}
        PROVE  NamesInv'
    <2>1. files' = files /\ strayed' = strayed
      BY <1>1 DEF Starts
    <2>2. handling'[h].step = record.step
      BY <1>1 DEF Starts, Handling
    <2>3. h # Loop => /\ handling'[Loop].step = handling[Loop].step /\ handling'[Loop].key = handling[Loop].key
                      /\ handling'[Loop].script = handling[Loop].script
      BY <1>0, <1>1 DEF Starts, TypeInv, Handling
    <2>4. QED
      BY <1>1, <2>1, <2>2, <2>3, FewerNames DEF On
  <1>2. ASSUME NEW key \in Keys, NEW script \in Scripts, NEW overwrite \in BOOLEAN, Upload(key, script, overwrite)
        PROVE  NamesInv'
    <2> DEFINE record == [Resting EXCEPT !.step = "check", !.op = "upload", !.key = key, !.script = script]
    <2>1. record \in Handling /\ record.step = "check"
      BY DEF Resting, Handling, HandlerSteps
    <2>2. Starts(Loop, record)
      BY <1>2 DEF Upload
    <2> HIDE DEF record
    <2>3. QED
      BY <1>0, <1>1, <2>1, <2>2
  <1>3. ASSUME NEW h \in Deleters, NEW key \in Keys, Delete(h, key)
        PROVE  NamesInv'
    <2> DEFINE record == [Resting EXCEPT !.step = "unlink", !.op = "delete", !.key = key]
    <2>1. record \in Handling /\ record.step = "unlink"
      BY DEF Resting, Handling, HandlerSteps
    <2>2. Starts(h, record)
      BY <1>3 DEF Delete
    <2> HIDE DEF record
    <2>3. QED
      BY <1>0, <1>1, <2>1, <2>2
  <1>4. CASE CheckDisplayName
    <2>1. On(Loop, "check") /\ UNCHANGED <<files, drivers>>
      BY <1>4 DEF CheckDisplayName
    <2>2. CASE Quits(Loop) /\ UNCHANGED strayed
      <3>1. ~On(Loop, "move")'
        BY <1>0, <2>2 DEF Quits, On, TypeInv, Resting
      <3>2. QED
        BY <2>1, <2>2, <3>1, FewerNames
    <2>3. CASE /\ Goto(Loop, "move") /\ strayed' = (strayed \/ shaken)
               /\ handling[Loop].script.name \notin NamesInUse(handling[Loop].key)
      <3>1. handling'[Loop].key = handling[Loop].key /\ handling'[Loop].script = handling[Loop].script
        BY <1>0, <2>3 DEF Goto, TypeInv, Handling
      <3>2. NamesDiffer'
        BY <2>1, <2>3 DEF NamesInv, NamesDiffer
      <3>3. ASSUME ~strayed' PROVE MoveIsSafe'
        <4>1. ~shaken
          BY <2>3, <3>3
        <4>2. \A h \in Requesters : Untouched(h)
          BY <1>0, <2>1, <4>1 DEF CacheInv, Apart, Untouched, On
        <4>3. Agrees(drivers)
          BY <4>1, <4>2 DEF CacheInv
        <4>4. TrueNames(handling[Loop].key) \subseteq NamesInUse(handling[Loop].key)
          BY <4>3 DEF Agrees, TrueNames, NamesInUse
        <4>5. handling'[Loop].script.name \notin TrueNames(handling[Loop].key)'
          BY <2>1, <2>3, <3>1, <4>4 DEF TrueNames
        <4>6. QED
          BY <4>5 DEF MoveIsSafe
      <3>4. QED
        BY <3>2, <3>3 DEF NamesInv
    <2>4. QED
      BY <1>4, <2>2, <2>3 DEF CheckDisplayName
  <1>5. CASE Move
    <2> DEFINE key == handling[Loop].key
               script == handling[Loop].script
    <2>1. On(Loop, "move") /\ strayed' = strayed
      BY <1>5 DEF Move
    <2>2. CASE Quits(Loop) /\ UNCHANGED files
      <3>1. ~On(Loop, "move")'
        BY <1>0, <2>2 DEF Quits, On, TypeInv, Resting
      <3>2. QED
        BY <2>1, <2>2, <3>1, FewerNames
    <2>3. CASE files' = [files EXCEPT ![key] = script] /\ Goto(Loop, "meta")
      <3>1. ~On(Loop, "move")'
        BY <1>0, <2>3 DEF Goto, On, TypeInv, Handling
      <3>2. key \in Keys /\ script \in Scripts /\ files \in Shelf
        BY <1>0, <2>1 DEF TypeInv, HandlerFits, On
      <3>3. ~strayed => script.name \notin TrueNames(key)
        BY <2>1 DEF NamesInv, MoveIsSafe
      <3> HIDE DEF key, script
      <3>4. /\ files'[key] = script /\ \A l \in Keys \ {key} : files'[l] = files[l]
        BY <2>3, <3>2 DEF Shelf
      <3>5. \A l \in Keys \ {key} : files[l] # Missing => files[l].name \in TrueNames(key)
        BY DEF TrueNames
      <3>6. BuiltinNames \subseteq TrueNames(key)
        BY DEF TrueNames
      <3>7. ASSUME ~strayed, NEW k \in Keys, files'[k] # Missing
            PROVE  /\ files'[k].name \notin BuiltinNames
                   /\ \A l \in Keys \ {k} : files'[l] # Missing => files'[l].name # files'[k].name
        <4>1. CASE k = key
          BY <3>3, <3>4, <3>5, <3>6, <3>7, <4>1
        <4>2. CASE k # key
          <5>1. files[k].name \notin BuiltinNames /\ files[k].name \in TrueNames(key)
            BY <3>4, <3>5, <3>7, <4>2 DEF NamesInv, NamesDiffer
          <5>2. ASSUME NEW l \in Keys \ {k}, files'[l] # Missing PROVE files'[l].name # files'[k].name
            <6>1. CASE l = key
              BY <3>3, <3>4, <3>7, <4>2, <5>1, <6>1
            <6>2. CASE l # key
              BY <3>4, <3>7, <4>2, <5>2, <6>2 DEF NamesInv, NamesDiffer
            <6>3. QED
              BY <6>1, <6>2
          <5>3. QED
            BY <3>4, <4>2, <5>1, <5>2
        <4>3. QED
          BY <4>1, <4>2
      <3>8. NamesDiffer'
        BY <2>1, <3>7 DEF NamesDiffer
      <3>9. QED
        BY <3>1, <3>8 DEF NamesInv, MoveIsSafe
    <2>4. QED
      BY <1>5, <2>2, <2>3 DEF Move
  <1>6. ASSUME NEW h \in Requesters, Unlink(h) PROVE NamesInv'
    <2>1. strayed' = strayed /\ On(h, "unlink")
      BY <1>6 DEF Unlink
    <2>2. \A k \in Keys : files'[k] = files[k] \/ files'[k] = Missing
      BY <1>6 DEF Unlink, TypeInv, Shelf
    <2>3. h # Loop => handling'[Loop] = handling[Loop]
      BY <1>0, <1>6 DEF Unlink, Quits, Goto, TypeInv
    <2>4. h = Loop => ~On(Loop, "move")'
      BY <1>0, <1>6 DEF Unlink, Quits, Goto, TypeInv, Handling, Resting, On
    <2>5. QED
      BY <2>1, <2>2, <2>3, <2>4, FewerNames DEF On
  <1>7. ASSUME NEW h \in Requesters, ReadMeta(h) \/ StageMeta(h) \/ ReplaceMeta(h) \/ Scan(h) \/ Publish(h)
        PROVE  NamesInv'
    <2>1. strayed' = strayed /\ files' = files
      BY <1>7 DEF ReadMeta, StageMeta, ReplaceMeta, Scan, Publish
    <2>2. h # Loop => handling'[Loop] = handling[Loop]
      BY <1>0, <1>7 DEF ReadMeta, StageMeta, ReplaceMeta, Scan, Publish, BreaksOff, Quits, Goto, TypeInv
    <2>3. h = Loop => ~On(Loop, "move")'
      BY <1>0, <1>7 DEF ReadMeta, StageMeta, ReplaceMeta, Scan, Publish, BreaksOff, Quits, Goto, TypeInv, Handling, Resting, On
    <2>4. QED
      BY <2>1, <2>2, <2>3, FewerNames DEF On
  <1>8. CASE RestartResponder
    <2>1. strayed' = strayed /\ files' = files /\ ~On(Loop, "move")'
      BY <1>0, <1>8 DEF RestartResponder, On, Resting
    <2>2. QED
      BY <2>1, FewerNames
  <1>9. CASE UNCHANGED registryVars
    BY <1>9, FewerNames DEF registryVars, On
  <1>10. QED
    BY <1>2, <1>3, <1>4, <1>5, <1>6, <1>7, <1>8, <1>9 DEF RegistryNext

\* Over uploads, replacements, deletions, requests that break off and restarts display names
\* stay unique, unless an upload was checked while overlapping or broken-off requests had left
\* the cache behind the disk (registry.py _check_display_name).
THEOREM NamesStayDifferent == RegistrySpec => []NamesDiffer
  <1>1. RegistryInit => TypeInv /\ TruthInv /\ CacheInv /\ NamesInv
    BY InitRegistryType, InitTruth, InitNames
  <1>2. TypeInv /\ TruthInv /\ CacheInv /\ NamesInv /\ [RegistryNext]_registryVars => (TypeInv /\ TruthInv /\ CacheInv /\ NamesInv)'
    BY NextRegistryType, NextTruth, NextCache, NextNames
  <1>3. NamesInv => NamesDiffer
    BY DEF NamesInv
  <1>4. QED
    BY <1>1, <1>2, <1>3, PTL DEF RegistrySpec

-----------------------------------------------------------------------------
(* The configuration of a device                                           *)


\* What the row has of a field is what was last entered of it ...
Faithful ==
    \A f \in Fields : IF meant[f] = Blank THEN device.config[f] = Blank
                      ELSE device.config[f] \in Stored /\ device.config[f].value = meant[f]
\* ... and the row knows of every value that was entered as a secret.
Guarded == \A f \in secretly : meant[f] # Blank /\ f \in device.secrets

\* Inductive: a deleted device leaves nothing behind to be taken over.
StoreInv ==
    /\ StoreTypeOK
    /\ meant \in [Fields -> Inputs \cup {Blank}] /\ secretly \subseteq Fields
    /\ device = Blank => meant = [f \in Fields |-> Blank] /\ secretly = {}
    /\ device # Blank => Faithful /\ Guarded

LEMMA InitStore == StoreInit => StoreInv
  BY StoreAssumption DEF StoreInit, StoreInv, StoreTypeOK

\* A field as it is saved is what it is meant to be.
LEMMA SealIsMeant ==
    ASSUME StoreInv, schema \in Schemas, NEW payload \in [Fields -> Inputs \cup {Blank}], NEW f \in Fields,
           NEW value, value = IF payload[f] = Blank /\ f \in schema.secret THEN meant[f] ELSE payload[f]
    PROVE  IF value = Blank THEN Seal(payload, f) = Blank ELSE Seal(payload, f) \in Stored /\ Seal(payload, f).value = value
  <1>1. CASE payload[f] # Blank
    <2>1. Seal(payload, f) = [sealed |-> f \in schema.secret, value |-> payload[f]]
      BY <1>1 DEF Seal
    <2>2. payload[f] \in Inputs /\ value = payload[f]
      BY <1>1
    <2>3. QED
      BY <1>1, <2>1, <2>2 DEF Stored
  <1>2. CASE payload[f] = Blank /\ f \in schema.secret
    <2>1. Seal(payload, f) = Existing(f) /\ value = meant[f]
      BY <1>2 DEF Seal
    <2>2. CASE device = Blank
      BY <2>1, <2>2 DEF Existing, StoreInv
    <2>3. CASE device # Blank
      BY <2>1, <2>3 DEF Existing, StoreInv, Faithful
    <2>4. QED
      BY <2>2, <2>3
  <1>3. CASE payload[f] = Blank /\ f \notin schema.secret
    BY <1>3 DEF Seal
  <1>4. QED
    BY <1>1, <1>2, <1>3

LEMMA SaveKeepsStore ==
    ASSUME StoreInv, NEW payload \in [Fields -> Inputs \cup {Blank}], Save(payload)
    PROVE  StoreInv'
  <1> DEFINE config == [f \in Fields |-> Seal(payload, f)]
             keeps(f) == payload[f] = Blank /\ f \in schema.secret
  <1>1. /\ schema \in Schemas /\ schema' = schema /\ saves' = saves + 1 /\ saves < MaxSaves
        /\ device' = [config |-> config, secrets |-> SecretFields(config, payload)]
        /\ meant' = [f \in Fields |-> IF keeps(f) THEN meant[f] ELSE payload[f]]
        /\ secretly' = {f \in Fields : IF keeps(f) THEN f \in secretly ELSE payload[f] # Blank /\ f \in schema.secret}
    BY DEF Save, StoreInv, StoreTypeOK
  <1>2. meant' \in [Fields -> Inputs \cup {Blank}] /\ secretly' \subseteq Fields
    BY <1>1 DEF StoreInv
  <1>3. \A f \in Fields : IF meant'[f] = Blank THEN config[f] = Blank ELSE config[f] \in Stored /\ config[f].value = meant'[f]
    <2> SUFFICES ASSUME NEW f \in Fields
                 PROVE  IF meant'[f] = Blank THEN config[f] = Blank ELSE config[f] \in Stored /\ config[f].value = meant'[f]
      OBVIOUS
    <2>1. meant'[f] = IF keeps(f) THEN meant[f] ELSE payload[f]
      BY <1>1
    <2>2. config[f] = Seal(payload, f)
      OBVIOUS
    <2>3. QED
      BY <1>1, <2>1, <2>2, SealIsMeant
  <1>4. config \in [Fields -> Stored \cup {Blank}]
    BY <1>3
  <1>5. device' \in Row /\ device' # Blank /\ device'.config = config /\ device'.secrets = SecretFields(config, payload)
    <2>1. SecretFields(config, payload) \subseteq Fields
      BY <1>1, StoreAssumption DEF SecretFields
    <2>2. QED
      BY <1>1, <1>4, <2>1, StoreAssumption DEF Row
  <1>6. Guarded'
    <2> SUFFICES ASSUME NEW f \in secretly' PROVE meant'[f] # Blank /\ f \in device'.secrets
      BY DEF Guarded
    <2>1. f \in schema.secret /\ meant'[f] # Blank
      <3>1. CASE keeps(f)
        <4>1. f \in secretly /\ f \in schema.secret /\ meant'[f] = meant[f]
          BY <1>1, <1>2, <3>1
        <4>2. QED
          BY <4>1 DEF StoreInv, Guarded
      <3>2. CASE ~keeps(f)
        BY <1>1, <1>2, <3>2
      <3>3. QED
        BY <3>1, <3>2
    <2>2. config[f] # Blank
      BY <1>2, <1>3, <2>1, StoreAssumption
    <2>3. QED
      BY <1>5, <2>1, <2>2 DEF SecretFields
  <1>7. StoreTypeOK'
    BY <1>1, <1>5, StoreAssumption DEF StoreInv, StoreTypeOK
  <1>8. Faithful'
    BY <1>3, <1>5 DEF Faithful
  <1>9. QED
    BY <1>2, <1>5, <1>6, <1>7, <1>8 DEF StoreInv

LEMMA NextStore == StoreInv /\ [StoreNext]_storeVars => StoreInv'
  <1> SUFFICES ASSUME StoreInv, [StoreNext]_storeVars PROVE StoreInv'
    OBVIOUS
  <1>1. ASSUME NEW payload \in [Fields -> Inputs \cup {Blank}], Save(payload) PROVE StoreInv'
    BY <1>1, SaveKeepsStore
  <1>2. CASE ChangeScript
    BY <1>2 DEF ChangeScript, StoreInv, StoreTypeOK, Faithful, Guarded
  <1>3. CASE DeleteDevice
    BY <1>3, StoreAssumption DEF DeleteDevice, StoreInv, StoreTypeOK
  <1>4. CASE UNCHANGED storeVars
    BY <1>4 DEF storeVars, StoreInv, StoreTypeOK, Faithful, Guarded
  <1>5. QED
    BY <1>1, <1>2, <1>3, <1>4 DEF StoreNext

\* The invariant of the proofs holds throughout: what is stored opens to what was meant,
\* and what was entered as a secret is stored sealed (store.py seal_config).
THEOREM StoreIsConsistent == StoreSpec => []StoreInv
  BY InitStore, NextStore, PTL DEF StoreSpec

\* The stored device has the type of a row (store.py save).
THEOREM StoreTyped == StoreSpec => []StoreTypeOK
  BY StoreIsConsistent, PTL DEF StoreInv

\* Whatever the script's fields become between two edits, the script gets what was last
\* entered of each field (store.py seal_config, runtime_config).
THEOREM ScriptGetsIt == StoreSpec => []ScriptGetsWhatWasSaved
  <1>1. StoreInv => ScriptGetsWhatWasSaved
    <2> SUFFICES ASSUME StoreInv, device # Blank, NEW f \in Fields
                 PROVE  /\ Opened(device.config[f]) \in {meant[f], "error"}
                        /\ Opened(device.config[f]) = "error" => meant[f] \in Lookalikes
      BY DEF ScriptGetsWhatWasSaved
    <2>1. CASE meant[f] = Blank
      <3>1. device.config[f] = Blank
        BY <2>1 DEF StoreInv, Faithful
      <3>2. QED
        BY <2>1, <3>1, StoreAssumption DEF Opened
    <2>2. CASE meant[f] # Blank
      <3>1. device.config[f] \in Stored /\ device.config[f].value = meant[f] /\ meant[f] \in Inputs
        BY <2>2 DEF StoreInv, Faithful
      <3>2. device.config[f] # Blank
        BY <3>1, StoreAssumption
      <3>3. QED
        BY <3>1, <3>2, StoreAssumption DEF Opened
    <2>3. QED
      BY <2>1, <2>2
  <1>2. QED
    BY <1>1, StoreIsConsistent, PTL

\* What was entered as a secret is never in what the read interface shows
\* (store.py public_config).
THEOREM SecretsHidden == StoreSpec => []SecretsStayHidden
  <1>1. StoreInv => SecretsStayHidden
    BY DEF StoreInv, Guarded, SecretsStayHidden, Shown
  <1>2. QED
    BY <1>1, StoreIsConsistent, PTL

=============================================================================
