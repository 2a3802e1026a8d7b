------------------------------ MODULE MailOutbox ------------------------------
(***************************************************************************)
(* Realtime alert mail.  The analyzer inserts one row per alert and        *)
(* matching watch into alert_mail_outbox, trying three times; the responder*)
(* takes due rows in rounds, tries each three times over SMTP and deletes  *)
(* it or puts it off.  A round locks its rows, but the first commit lets go*)
(* of all locks and expires all rows, so that from then on deleting a      *)
(* preset, which takes its outbox rows along, runs under the round's feet. *)
(***************************************************************************)
EXTENDS Integers, FiniteSets, Functions

CONSTANTS
    Watches,        \* ids of alert_mail_watches
    Alerts,         \* analysed alerts (event ids)
    None,           \* no value
    BATCH,          \* LIMIT of a round
    TRIES,          \* attempts to enqueue an alert, and to send a mail in a round
    MaxRows,        \* bound: rows inserted over a behaviour
    MaxFaults       \* bound: failures over a behaviour, a refusing SMTP server aside

RowIds == 1..MaxRows
Row == [watch: Watches, alert: Alerts, due: BOOLEAN]
\* The item a round is at: a copy of the row, which may be gone meanwhile.
Item == [row: RowIds, watch: Watches, alert: Alerts, tries: 0..TRIES, sent: BOOLEAN]
Removal == [rows: SUBSET RowIds, watches: SUBSET Watches]

ASSUME MailAssumption ==
    /\ None \notin Item \cup Removal
    /\ BATCH \in Nat \ {0} /\ TRIES \in Nat \ {0}
    /\ MaxRows \in Nat /\ MaxFaults \in Nat

VARIABLES
    watches,    \* "realtime" (and its preset enabled), "other", or "gone"
    enqueue,    \* of each alert: failed tries so far, and whether it is over
    outbox,     \* rows by id
    lastRow,    \* the highest id given out
    batch,      \* rows the round has still to handle
    held,       \* rows the round has locked
    item,       \* the row being sent, None between rows
    removal,    \* what an open delete_preset transaction deletes, or None
    smtp,       \* whether the mail server takes mail
    faults,
    mails       \* history: mails delivered per watch and alert

round == <<batch, held, item>>
vars == <<watches, enqueue, outbox, lastRow, round, removal, smtp, faults, mails>>

Init ==
    /\ watches \in [Watches -> {"realtime", "other"}]
    /\ enqueue = [a \in Alerts |-> [tries |-> 0, over |-> FALSE]]
    /\ outbox = << >> /\ lastRow = 0
    /\ batch = {} /\ held = {} /\ item = None
    /\ removal = None
    /\ smtp \in BOOLEAN
    /\ faults = 0
    /\ mails = [m \in Watches \X Alerts |-> 0]

Removing(r) == removal # None /\ r \in removal.rows

Fault == faults < MaxFaults /\ faults' = faults + 1

-----------------------------------------------------------------------------
(* The analyzer                                                            *)

\* ON CONFLICT (event_id, watch_id) DO NOTHING
Fresh(a, w) == \A r \in DOMAIN outbox : ~(outbox[r].watch = w /\ outbox[r].alert = a)

\* One transaction; it waits for a removal that holds a conflicting row.
Insert(a, hits) ==
    LET new == {w \in hits : watches[w] = "realtime" /\ Fresh(a, w)}
    IN  /\ \A r \in DOMAIN outbox :
              ~(outbox[r].alert = a /\ outbox[r].watch \in hits /\ Removing(r))
        /\ \E n \in lastRow..MaxRows : \E owner \in Bijection((lastRow + 1)..n, new) :
              /\ lastRow' = n
              /\ outbox' = [r \in DOMAIN outbox \cup (lastRow + 1)..n |->
                              IF r \in DOMAIN outbox THEN outbox[r]
                              ELSE [watch |-> owner[r], alert |-> a, due |-> TRUE]]

\* `hits' are the watches the percolator returned, stale ones included.
Enqueue(a, hits) ==
    /\ ~enqueue[a].over
    /\ Insert(a, hits)
    /\ enqueue' = [enqueue EXCEPT ![a].over = TRUE]
    /\ UNCHANGED <<watches, round, removal, smtp, faults, mails>>

\* A try fails, before the commit or with the commit's answer lost.
EnqueueFails(a, hits) ==
    /\ ~enqueue[a].over
    /\ Fault
    /\ Insert(a, hits) \/ UNCHANGED <<outbox, lastRow>>
    /\ enqueue' = [enqueue EXCEPT ![a].tries = @ + 1,
                                  ![a].over = (enqueue[a].tries + 1 = TRIES)]
    /\ UNCHANGED <<watches, round, removal, smtp, mails>>

-----------------------------------------------------------------------------
(* The responder: _process_realtime_outbox, one round at a time.           *)

\* Mutation: rows of watches that are not realtime any more are passed over.
SelectableActive(r) == outbox[r].due /\ ~Removing(r) /\ watches[outbox[r].watch] = "realtime"
\* FOR UPDATE SKIP LOCKED
Selectable(r) == outbox[r].due /\ ~Removing(r)

StartRound ==
    LET rows == {r \in DOMAIN outbox : Selectable(r)}
    IN  /\ batch = {} /\ rows # {}
        /\ batch' = {r \in rows : Cardinality({q \in rows : q < r}) < BATCH}
        /\ held' = batch'
        /\ UNCHANGED <<watches, enqueue, outbox, lastRow, item, removal, smtp, faults, mails>>

\* Mutation: a round that ends early keeps its transaction open.
EndRoundHeld == batch' = {} /\ held' = held /\ item' = None
EndRound == batch' = {} /\ held' = {} /\ item' = None

\* The row is read again after the first commit: a deleted one ends the round.
Load ==
    /\ item = None
    /\ \E r \in batch :
          /\ \A q \in batch : r <= q
          /\ IF r \in DOMAIN outbox
               THEN /\ item' = [row |-> r, watch |-> outbox[r].watch, alert |-> outbox[r].alert,
                                tries |-> 0, sent |-> FALSE]
                    /\ UNCHANGED <<batch, held>>
               ELSE EndRound
    /\ UNCHANGED <<watches, enqueue, outbox, lastRow, removal, smtp, faults, mails>>

\* Mutation: the attempts go on after one that succeeded.
SendingOn == item # None /\ item.tries < TRIES
Sending == item # None /\ ~item.sent /\ item.tries < TRIES

Deliver ==
    /\ Sending /\ smtp
    /\ mails' = [mails EXCEPT ![<<item.watch, item.alert>>] = @ + 1]
    /\ item' = [item EXCEPT !.sent = TRUE]
    /\ UNCHANGED <<watches, enqueue, outbox, lastRow, batch, held, removal, smtp, faults>>

Refuse ==
    /\ Sending /\ ~smtp
    /\ item' = [item EXCEPT !.tries = @ + 1]
    /\ UNCHANGED <<watches, enqueue, outbox, lastRow, batch, held, removal, smtp, faults, mails>>

\* The server takes the mail and its answer is lost.
AnswerLost ==
    /\ Sending /\ smtp
    /\ Fault
    /\ mails' = [mails EXCEPT ![<<item.watch, item.alert>>] = @ + 1]
    /\ item' = [item EXCEPT !.tries = @ + 1]
    /\ UNCHANGED <<watches, enqueue, outbox, lastRow, batch, held, removal, smtp>>

\* Mutation: a mail that could not be sent is dropped.
DoneTried(i) == i.sent \/ i.tries = TRIES
Done(i) == i.sent

Next1(r) == batch' = batch \ {r} /\ held' = {} /\ item' = None

\* The commit waits for an open removal of the row.  Deleting a row that is
\* gone goes unnoticed, putting it off fails (StaleDataError).
CommitItem ==
    LET r == item.row
    IN  /\ item # None /\ ~Sending /\ ~Removing(r)
        /\ \/ /\ Done(item)
              /\ outbox' = [q \in DOMAIN outbox \ {r} |-> outbox[q]]
              /\ Next1(r)
           \/ /\ ~Done(item)
              /\ IF r \in DOMAIN outbox
                   THEN outbox' = [outbox EXCEPT ![r].due = FALSE] /\ Next1(r)
                   ELSE UNCHANGED outbox /\ EndRound
        /\ UNCHANGED <<watches, enqueue, lastRow, removal, smtp, faults, mails>>

\* A crash of the responder, or a database error on any of the round's calls.
RoundFails ==
    /\ batch # {}
    /\ Fault
    /\ EndRound
    /\ UNCHANGED <<watches, enqueue, outbox, lastRow, removal, smtp, mails>>

\* next_attempt_at has passed.
BecomeDue(r) ==
    /\ r \in DOMAIN outbox /\ ~outbox[r].due /\ ~Removing(r)
    /\ outbox' = [outbox EXCEPT ![r].due = TRUE]
    /\ UNCHANGED <<watches, enqueue, lastRow, round, removal, smtp, faults, mails>>

-----------------------------------------------------------------------------
(* People, and the mail server                                             *)

\* A watch or its preset is switched, or the watch deleted: its rows stay.
ChangeWatch(w, state) ==
    /\ watches[w] # "gone"
    /\ removal # None => w \notin removal.watches
    /\ watches' = [watches EXCEPT ![w] = state]
    /\ UNCHANGED <<enqueue, outbox, lastRow, round, removal, smtp, faults, mails>>

\* delete_preset deletes the rows it sees, waiting for those a round holds ...
DeletePreset(W) ==
    LET rows == {r \in DOMAIN outbox : outbox[r].watch \in W}
    IN  /\ removal = None
        /\ \A w \in W : watches[w] # "gone"
        /\ rows \cap held = {}
        /\ removal' = [rows |-> rows, watches |-> W]
        /\ UNCHANGED <<watches, enqueue, outbox, lastRow, round, smtp, faults, mails>>

\* ... and commits; rows inserted in between stay.
CommitRemoval ==
    /\ removal # None
    /\ outbox' = [r \in DOMAIN outbox \ removal.rows |-> outbox[r]]
    /\ watches' = [w \in Watches |-> IF w \in removal.watches THEN "gone" ELSE watches[w]]
    /\ removal' = None
    /\ UNCHANGED <<enqueue, lastRow, round, smtp, faults, mails>>

Smtp ==
    /\ smtp' = ~smtp
    /\ UNCHANGED <<watches, enqueue, outbox, lastRow, round, removal, faults, mails>>

-----------------------------------------------------------------------------
RoundNext == StartRound \/ Load \/ Deliver \/ Refuse \/ CommitItem

Next ==
    \/ \E a \in Alerts, hits \in SUBSET Watches : Enqueue(a, hits) \/ EnqueueFails(a, hits)
    \/ RoundNext \/ AnswerLost \/ RoundFails
    \/ \E r \in RowIds : BecomeDue(r)
    \/ \E w \in Watches, state \in {"realtime", "other", "gone"} : ChangeWatch(w, state)
    \/ \E W \in (SUBSET Watches) \ {{}} : DeletePreset(W)
    \/ CommitRemoval
    \/ Smtp

Spec == Init /\ [][Next]_vars

\* The 2-second job runs (its SMTP calls time out), time passes, and an open
\* transaction ends.  Nothing is assumed of people, the mail server or faults.
Fairness ==
    /\ WF_vars(RoundNext)
    /\ WF_vars(CommitRemoval)
    /\ \A r \in RowIds : WF_vars(BecomeDue(r))

FairSpec == Spec /\ Fairness

-----------------------------------------------------------------------------
(* Properties                                                              *)

\* Types; the round locks only rows it has still to handle, and is at one of
\* its rows.
TypeOK ==
    /\ watches \in [Watches -> {"realtime", "other", "gone"}]
    /\ enqueue \in [Alerts -> [tries: 0..TRIES, over: BOOLEAN]]
    /\ DOMAIN outbox \subseteq 1..lastRow /\ outbox \in [DOMAIN outbox -> Row]
    /\ lastRow \in 0..MaxRows
    /\ batch \subseteq 1..lastRow
    /\ held \subseteq batch /\ held \subseteq DOMAIN outbox
    /\ item \in Item \cup {None}
    /\ item # None => item.row \in batch
    /\ removal \in Removal \cup {None}
    /\ removal # None => removal.rows \subseteq DOMAIN outbox \ held
    /\ smtp \in BOOLEAN
    /\ faults \in 0..MaxFaults
    /\ mails \in [Watches \X Alerts -> Nat]

\* A row leaves the outbox only when its mail was delivered or its watch was
\* deleted together with the preset: neither refusals, nor failures, nor a
\* row that vanishes in the middle of a round lose another row's mail.
NoMailLost ==
    [][\A r \in DOMAIN outbox : r \notin DOMAIN outbox' =>
          \/ mails[<<outbox[r].watch, outbox[r].alert>>] > 0
          \/ watches'[outbox[r].watch] = "gone"]_vars

\* Nobody gets the same alert twice for one watch, unless a failure fell
\* between a delivery, or an insertion, and what should have followed it.
MailsBounded == \A m \in DOMAIN mails : mails[m] <= 1 + faults

\* Once the mail server keeps taking mail every row leaves the outbox, those
\* of watches switched off or deleted meanwhile included.
OutboxDrains == <>[]smtp => \A r \in RowIds : r \in DOMAIN outbox ~> r \notin DOMAIN outbox
=============================================================================
