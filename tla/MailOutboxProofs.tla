--------------------------- MODULE MailOutboxProofs ---------------------------
(* Theorems about MailOutbox, for every value of its constants.            *)
EXTENDS MailOutbox, TLAPS

LEMMA MailConstants ==
    /\ None \notin Item /\ None \notin Removal
    /\ BATCH \in Nat \ {0} /\ TRIES \in Nat \ {0} /\ MaxRows \in Nat /\ MaxFaults \in Nat
  BY MailAssumption

-----------------------------------------------------------------------------
(* Types                                                                   *)

\* An alert that may be tried again has a try left.
TriesLeft == \A a \in Alerts : ~enqueue[a].over => enqueue[a].tries < TRIES
TypeInv == TypeOK /\ TriesLeft

LEMMA InitType == Init => TypeInv
  <1> SUFFICES ASSUME Init PROVE TypeInv
    OBVIOUS
  <1>1. DOMAIN outbox = {} /\ outbox \in [DOMAIN outbox -> Row] /\ lastRow = 0
    BY DEF Init
  <1>2. enqueue \in [Alerts -> [tries: 0..TRIES, over: BOOLEAN]]
    BY MailConstants DEF Init
  <1>3. watches \in [Watches -> {"realtime", "other", "gone"}] /\ mails \in [Watches \X Alerts -> Nat]
    BY DEF Init
  <1>4. TypeOK
    BY <1>1, <1>2, <1>3, MailConstants DEF Init, TypeOK
  <1>5. TriesLeft
    BY MailConstants DEF Init, TriesLeft
  <1>6. QED
    BY <1>4, <1>5 DEF TypeInv

\* What an insertion adds.
LEMMA Inserted ==
    ASSUME TypeOK, NEW a \in Alerts, NEW hits \in SUBSET Watches, Insert(a, hits)
    PROVE  /\ lastRow' \in lastRow..MaxRows
           /\ DOMAIN outbox' = DOMAIN outbox \cup (lastRow + 1)..lastRow'
           /\ \A r \in DOMAIN outbox : outbox'[r] = outbox[r]
           /\ \A r \in (lastRow + 1)..lastRow' :
                 /\ r \notin DOMAIN outbox /\ outbox'[r] \in Row /\ outbox'[r].alert = a
                 /\ watches[outbox'[r].watch] = "realtime" /\ Fresh(a, outbox'[r].watch)
           /\ \A r, q \in (lastRow + 1)..lastRow' : r # q => outbox'[r].watch # outbox'[q].watch
           /\ outbox' \in [DOMAIN outbox' -> Row]
  <1> DEFINE new == {w \in hits : watches[w] = "realtime" /\ Fresh(a, w)}
  <1>0. PICK n \in lastRow..MaxRows : \E owner \in Bijection((lastRow + 1)..n, new) :
              /\ lastRow' = n
              /\ outbox' = [r \in DOMAIN outbox \cup (lastRow + 1)..n |->
                              IF r \in DOMAIN outbox THEN outbox[r]
                              ELSE [watch |-> owner[r], alert |-> a, due |-> TRUE]]
    BY DEF Insert
  <1>1. PICK owner \in Bijection((lastRow + 1)..n, new) :
              /\ lastRow' = n
              /\ outbox' = [r \in DOMAIN outbox \cup (lastRow + 1)..n |->
                              IF r \in DOMAIN outbox THEN outbox[r]
                              ELSE [watch |-> owner[r], alert |-> a, due |-> TRUE]]
    BY <1>0
  <1>2. /\ owner \in [(lastRow + 1)..n -> new]
        /\ \A r, q \in (lastRow + 1)..n : owner[r] = owner[q] => r = q
    BY DEF Bijection, Injection, IsInjective
  <1>3. \A r \in (lastRow + 1)..n : r \notin DOMAIN outbox
    BY MailConstants DEF TypeOK
  <1>4. \A r \in (lastRow + 1)..n : outbox'[r] = [watch |-> owner[r], alert |-> a, due |-> TRUE] /\ owner[r] \in new
    BY <1>1, <1>2, <1>3
  <1>5. \A w \in new : w \in Watches /\ watches[w] = "realtime" /\ Fresh(a, w)
    OBVIOUS
  <1>6. \A r \in DOMAIN outbox : outbox'[r] = outbox[r] /\ outbox[r] \in Row
    BY <1>1 DEF TypeOK
  <1> HIDE DEF new
  <1>7. \A r \in (lastRow + 1)..n : outbox'[r] \in Row
    <2> SUFFICES ASSUME NEW r \in (lastRow + 1)..n PROVE outbox'[r] \in Row
      OBVIOUS
    <2>1. outbox'[r] = [watch |-> owner[r], alert |-> a, due |-> TRUE] /\ owner[r] \in Watches
      BY <1>4, <1>5
    <2>2. QED
      BY <2>1 DEF Row
  <1>8. DOMAIN outbox' = DOMAIN outbox \cup (lastRow + 1)..n
    BY <1>1
  <1>9. outbox' \in [DOMAIN outbox' -> Row]
    BY <1>1, <1>6, <1>7, <1>8
  <1>10. QED
    BY <1>1, <1>2, <1>3, <1>4, <1>5, <1>6, <1>7, <1>8, <1>9

LEMMA InsertType ==
    ASSUME TypeOK, NEW a \in Alerts, NEW hits \in SUBSET Watches,
           Insert(a, hits) \/ UNCHANGED <<outbox, lastRow>>,
           enqueue' \in [Alerts -> [tries: 0..TRIES, over: BOOLEAN]], faults' \in 0..MaxFaults,
           UNCHANGED <<watches, round, removal, smtp, mails>>
    PROVE  TypeOK'
  <1>1. CASE UNCHANGED <<outbox, lastRow>>
    BY <1>1 DEF TypeOK, round
  <1>2. CASE Insert(a, hits)
    <2>1. /\ lastRow' \in 0..MaxRows /\ lastRow <= lastRow' /\ lastRow \in Nat
          /\ DOMAIN outbox \subseteq DOMAIN outbox' /\ DOMAIN outbox' \subseteq 1..lastRow'
      BY <1>2, Inserted, MailConstants DEF TypeOK
    <2>2. outbox' \in [DOMAIN outbox' -> Row]
      BY <1>2, Inserted
    <2>3. batch \subseteq 1..lastRow'
      BY <2>1 DEF TypeOK
    <2>4. /\ held \subseteq DOMAIN outbox'
          /\ removal # None => removal.rows \subseteq DOMAIN outbox' \ held
      BY <2>1 DEF TypeOK
    <2>5. QED
      BY <2>1, <2>2, <2>3, <2>4 DEF TypeOK, round
  <1>3. QED
    BY <1>1, <1>2

LEMMA EnqueueType ==
    ASSUME TypeInv, NEW a \in Alerts, NEW hits \in SUBSET Watches, Enqueue(a, hits) \/ EnqueueFails(a, hits)
    PROVE  TypeInv'
  <1>0. TypeOK /\ TriesLeft
    BY DEF TypeInv
  <1>1. enqueue[a] \in [tries: 0..TRIES, over: BOOLEAN]
    BY <1>0 DEF TypeOK
  <1>2. CASE Enqueue(a, hits)
    <2>1. [enqueue[a] EXCEPT !.over = TRUE] \in [tries: 0..TRIES, over: BOOLEAN]
      BY <1>1
    <2>2. enqueue' \in [Alerts -> [tries: 0..TRIES, over: BOOLEAN]]
      BY <1>0, <1>2, <2>1 DEF Enqueue, TypeOK
    <2>3. TriesLeft'
      BY <1>0, <1>2 DEF Enqueue, TypeOK, TriesLeft
    <2>4. TypeOK'
      BY <1>0, <1>2, <2>2, InsertType DEF Enqueue, TypeOK
    <2>5. QED
      BY <2>3, <2>4 DEF TypeInv
  <1>3. CASE EnqueueFails(a, hits)
    <2> DEFINE e == [enqueue[a] EXCEPT !.tries = @ + 1, !.over = (enqueue[a].tries + 1 = TRIES)]
    <2>1. enqueue[a].tries + 1 \in 0..TRIES
      BY <1>0, <1>1, <1>3, MailConstants DEF EnqueueFails, TriesLeft
    <2>2. e \in [tries: 0..TRIES, over: BOOLEAN] /\ e.tries = enqueue[a].tries + 1 /\ e.over = (e.tries = TRIES)
      BY <1>1, <2>1
    <2>3. enqueue' = [enqueue EXCEPT ![a] = e]
      BY <1>3 DEF EnqueueFails
    <2> HIDE DEF e
    <2>4. enqueue' \in [Alerts -> [tries: 0..TRIES, over: BOOLEAN]]
      BY <1>0, <2>2, <2>3 DEF TypeOK
    <2>5. ~e.over => e.tries < TRIES
      BY <2>2, MailConstants
    <2>6. TriesLeft'
      BY <1>0, <2>3, <2>5 DEF TypeOK, TriesLeft
    <2>7. faults' \in 0..MaxFaults
      BY <1>0, <1>3, MailConstants DEF EnqueueFails, Fault, TypeOK
    <2>8. TypeOK'
      BY <1>0, <1>3, <2>4, <2>7, InsertType DEF EnqueueFails
    <2>9. QED
      BY <2>6, <2>8 DEF TypeInv
  <1>4. QED
    BY <1>2, <1>3

\* Steps of the round.
LEMMA RoundType ==
    ASSUME TypeOK, RoundNext \/ AnswerLost \/ RoundFails
    PROVE  TypeOK'
  <1>1. CASE StartRound
    <2>1. \A r \in DOMAIN outbox : Selectable(r) => ~Removing(r)
      BY DEF Selectable
    <2>2. batch' \subseteq DOMAIN outbox /\ held' = batch' /\ \A r \in batch' : ~Removing(r)
      BY <1>1, <2>1 DEF StartRound
    <2>3. item = None
      BY <1>1 DEF StartRound, TypeOK
    <2>4. removal # None => removal.rows \subseteq DOMAIN outbox \ held'
      BY <2>2 DEF TypeOK, Removing
    <2>5. batch' \subseteq 1..lastRow
      BY <2>2 DEF TypeOK
    <2>6. QED
      BY <1>1, <2>2, <2>3, <2>4, <2>5 DEF StartRound, TypeOK
  <1>2. CASE Load
    <2>1. PICK r \in batch :
            IF r \in DOMAIN outbox
              THEN /\ item' = [row |-> r, watch |-> outbox[r].watch, alert |-> outbox[r].alert, tries |-> 0, sent |-> FALSE]
                   /\ UNCHANGED <<batch, held>>
              ELSE EndRound
      BY <1>2 DEF Load
    <2>2. CASE r \notin DOMAIN outbox
      BY <1>2, <2>1, <2>2 DEF Load, EndRound, TypeOK
    <2>3. CASE r \in DOMAIN outbox
      <3>1. r \in RowIds /\ outbox[r] \in Row
        BY <2>3, MailConstants DEF TypeOK, RowIds
      <3>2. outbox[r].watch \in Watches /\ outbox[r].alert \in Alerts /\ 0 \in 0..TRIES
        BY <3>1, MailConstants DEF Row
      <3>3. item' = [row |-> r, watch |-> outbox[r].watch, alert |-> outbox[r].alert, tries |-> 0, sent |-> FALSE]
        BY <2>1, <2>3
      <3>4. item' \in Item /\ item'.row = r
        BY <3>1, <3>2, <3>3 DEF Item
      <3>5. QED
        BY <1>2, <2>1, <2>3, <3>4 DEF Load, TypeOK
    <2>4. QED
      BY <2>2, <2>3
  <1>3. CASE Deliver \/ Refuse \/ AnswerLost
    <2>1. item \in Item /\ item.tries + 1 \in 0..TRIES /\ item.row \in batch
      BY <1>3, MailConstants DEF Deliver, Refuse, AnswerLost, Sending, TypeOK, Item
    <2>2. item' \in Item /\ item'.row = item.row
      <3>1. CASE item' = [item EXCEPT !.sent = TRUE]
        BY <2>1, <3>1 DEF Item
      <3>2. CASE item' = [item EXCEPT !.tries = @ + 1]
        BY <2>1, <3>2 DEF Item
      <3>3. QED
        BY <1>3, <3>1, <3>2 DEF Deliver, Refuse, AnswerLost
    <2>3. mails' \in [Watches \X Alerts -> Nat]
      <3>1. <<item.watch, item.alert>> \in Watches \X Alerts /\ mails \in [Watches \X Alerts -> Nat]
        BY <2>1 DEF Item, TypeOK
      <3>2. CASE mails' = mails
        BY <3>1, <3>2
      <3>3. CASE mails' = [mails EXCEPT ![<<item.watch, item.alert>>] = @ + 1]
        <4>1. mails[<<item.watch, item.alert>>] + 1 \in Nat
          BY <3>1
        <4>2. QED
          BY <3>1, <3>3, <4>1
      <3>4. QED
        BY <1>3, <3>2, <3>3 DEF Deliver, Refuse, AnswerLost
    <2>4. faults' \in 0..MaxFaults
      BY <1>3, MailConstants DEF Deliver, Refuse, AnswerLost, Fault, TypeOK
    <2>5. QED
      BY <1>3, <2>1, <2>2, <2>3, <2>4 DEF Deliver, Refuse, AnswerLost, TypeOK
  <1>4. CASE CommitItem
    <2>1. item \in Item /\ item.row \in batch /\ ~Removing(item.row)
      BY <1>4 DEF CommitItem, TypeOK
    <2>2. UNCHANGED <<watches, enqueue, lastRow, removal, smtp, faults, mails>>
      BY <1>4 DEF CommitItem
    <2>3. /\ item' = None /\ held' = {} /\ batch' \subseteq batch
      BY <1>4 DEF CommitItem, Next1, EndRound
    <2>4. /\ DOMAIN outbox \ {item.row} \subseteq DOMAIN outbox' /\ DOMAIN outbox' \subseteq DOMAIN outbox
          /\ outbox' \in [DOMAIN outbox' -> Row]
      <3>1. CASE outbox' = [q \in DOMAIN outbox \ {item.row} |-> outbox[q]]
        BY <3>1 DEF TypeOK
      <3>2. CASE item.row \in DOMAIN outbox /\ outbox' = [outbox EXCEPT ![item.row].due = FALSE]
        <4>1. [outbox[item.row] EXCEPT !.due = FALSE] \in Row
          BY <3>2 DEF TypeOK, Row
        <4>2. QED
          BY <3>2, <4>1 DEF TypeOK
      <3>3. CASE outbox' = outbox
        BY <3>3 DEF TypeOK
      <3>4. QED
        BY <1>4, <3>1, <3>2, <3>3 DEF CommitItem
    <2>5. removal # None => removal.rows \subseteq DOMAIN outbox'
      BY <2>1, <2>4 DEF TypeOK, Removing
    <2>6. QED
      BY <2>2, <2>3, <2>4, <2>5 DEF TypeOK
  <1>5. CASE RoundFails
    <2>1. faults' \in 0..MaxFaults
      BY <1>5, MailConstants DEF RoundFails, Fault, TypeOK
    <2>2. QED
      BY <1>5, <2>1 DEF RoundFails, EndRound, TypeOK
  <1>6. QED
    BY <1>1, <1>2, <1>3, <1>4, <1>5 DEF RoundNext

\* Time, people and the mail server.
LEMMA OthersType ==
    ASSUME TypeOK,
           \/ \E r \in RowIds : BecomeDue(r)
           \/ \E w \in Watches, state \in {"realtime", "other", "gone"} : ChangeWatch(w, state)
           \/ \E W \in (SUBSET Watches) \ {{}} : DeletePreset(W)
           \/ CommitRemoval \/ Smtp
    PROVE  TypeOK'
  <1>1. ASSUME NEW r \in RowIds, BecomeDue(r) PROVE TypeOK'
    <2>1. r \in DOMAIN outbox /\ [outbox[r] EXCEPT !.due = TRUE] \in Row
      BY <1>1 DEF BecomeDue, TypeOK, Row
    <2>2. DOMAIN outbox' = DOMAIN outbox /\ outbox' \in [DOMAIN outbox -> Row]
      BY <1>1, <2>1 DEF BecomeDue, TypeOK
    <2>3. QED
      BY <1>1, <2>2 DEF BecomeDue, TypeOK, round
  <1>2. ASSUME NEW w \in Watches, NEW state \in {"realtime", "other", "gone"}, ChangeWatch(w, state) PROVE TypeOK'
    BY <1>2 DEF ChangeWatch, TypeOK, round
  <1>3. ASSUME NEW W \in (SUBSET Watches) \ {{}}, DeletePreset(W) PROVE TypeOK'
    <2> DEFINE rows == {r \in DOMAIN outbox : outbox[r].watch \in W}
    <2>1. removal' = [rows |-> rows, watches |-> W] /\ rows \cap held = {}
      BY <1>3 DEF DeletePreset
    <2>2. rows \subseteq DOMAIN outbox /\ rows \in SUBSET RowIds
      BY MailConstants DEF TypeOK, RowIds
    <2> HIDE DEF rows
    <2>3. removal' \in Removal /\ removal'.rows \subseteq DOMAIN outbox \ held
      BY <2>1, <2>2 DEF Removal
    <2>4. QED
      BY <1>3, <2>3 DEF DeletePreset, TypeOK, round
  <1>4. CASE CommitRemoval
    <2>1. /\ DOMAIN outbox' \subseteq DOMAIN outbox /\ held \subseteq DOMAIN outbox'
          /\ outbox' \in [DOMAIN outbox' -> Row]
      BY <1>4 DEF CommitRemoval, TypeOK
    <2>2. watches' \in [Watches -> {"realtime", "other", "gone"}]
      BY <1>4 DEF CommitRemoval, TypeOK
    <2>3. QED
      BY <1>4, <2>1, <2>2 DEF CommitRemoval, TypeOK, round
  <1>5. CASE Smtp
    BY <1>5 DEF Smtp, TypeOK, round
  <1>6. QED
    BY <1>1, <1>2, <1>3, <1>4, <1>5

LEMMA NextType == TypeInv /\ [Next]_vars => TypeInv'
  <1> SUFFICES ASSUME TypeInv, [Next]_vars PROVE TypeInv'
    OBVIOUS
  <1>1. ASSUME NEW a \in Alerts, NEW hits \in SUBSET Watches, Enqueue(a, hits) \/ EnqueueFails(a, hits)
        PROVE  TypeInv'
    BY <1>1, EnqueueType
  <1>2. CASE RoundNext \/ AnswerLost \/ RoundFails
    <2>1. enqueue' = enqueue
      BY <1>2 DEF RoundNext, StartRound, Load, Deliver, Refuse, CommitItem, AnswerLost, RoundFails
    <2>2. QED
      BY <1>2, <2>1, RoundType DEF TypeInv, TriesLeft
  <1>3. CASE \/ \E r \in RowIds : BecomeDue(r)
             \/ \E w \in Watches, state \in {"realtime", "other", "gone"} : ChangeWatch(w, state)
             \/ \E W \in (SUBSET Watches) \ {{}} : DeletePreset(W)
             \/ CommitRemoval \/ Smtp
    <2>1. enqueue' = enqueue
      BY <1>3 DEF BecomeDue, ChangeWatch, DeletePreset, CommitRemoval, Smtp
    <2>2. QED
      BY <1>3, <2>1, OthersType DEF TypeInv, TriesLeft
  <1>4. CASE UNCHANGED vars
    BY <1>4 DEF vars, round, TypeInv, TypeOK, TriesLeft
  <1>5. QED
    BY <1>1, <1>2, <1>3, <1>4 DEF Next

\* Types: the round locks only rows it has still to handle, and no open deletion of a
\* preset holds one of them (mail_watches.py _process_realtime_outbox).
THEOREM OutboxTyped == Spec => []TypeOK
  <1>1. TypeInv => TypeOK
    BY DEF TypeInv
  <1>2. QED
    BY <1>1, InitType, NextType, PTL DEF Spec

-----------------------------------------------------------------------------
(* Rows, items and removals agree                                          *)

About(r, w, a) == outbox[r].watch = w /\ outbox[r].alert = a

\* One row for a watch and an alert;
OneRow == \A r, q \in DOMAIN outbox : About(r, outbox[q].watch, outbox[q].alert) => r = q
\* a round carries its row, or one that went with its watch; what it has sent is counted;
Carried ==
    item # None =>
        /\ IF item.row \in DOMAIN outbox THEN About(item.row, item.watch, item.alert)
           ELSE watches[item.watch] = "gone" /\ \A r \in DOMAIN outbox : ~About(r, item.watch, item.alert)
        /\ item.sent => mails[<<item.watch, item.alert>>] > 0
\* and an open removal has rows of its watches.
Doomed == removal # None => \A r \in removal.rows : outbox[r].watch \in removal.watches

RowsInv == TypeInv /\ OneRow /\ Carried /\ Doomed

LEMMA InitRows == Init => RowsInv
  <1> SUFFICES ASSUME Init PROVE RowsInv
    OBVIOUS
  <1>1. DOMAIN outbox = {} /\ item = None /\ removal = None
    BY DEF Init
  <1>2. QED
    BY <1>1, InitType DEF RowsInv, OneRow, Carried, Doomed

LEMMA InsertRows ==
    ASSUME RowsInv, NEW a \in Alerts, NEW hits \in SUBSET Watches,
           Insert(a, hits) \/ UNCHANGED <<outbox, lastRow>>, UNCHANGED <<watches, round, removal, mails>>
    PROVE  OneRow' /\ Carried' /\ Doomed'
  <1>0. TypeOK
    BY DEF RowsInv, TypeInv
  <1>1. CASE UNCHANGED <<outbox, lastRow>>
    BY <1>1 DEF RowsInv, OneRow, Carried, Doomed, About, round
  <1>2. CASE Insert(a, hits)
    <2> DEFINE fresh == (lastRow + 1)..lastRow'
    <2>1. /\ DOMAIN outbox' = DOMAIN outbox \cup fresh
          /\ \A r \in DOMAIN outbox : outbox'[r] = outbox[r] /\ r \notin fresh
          /\ \A r \in fresh : /\ outbox'[r].alert = a /\ watches[outbox'[r].watch] = "realtime"
                              /\ Fresh(a, outbox'[r].watch)
          /\ \A r, q \in fresh : r # q => outbox'[r].watch # outbox'[q].watch
      BY <1>0, <1>2, Inserted
    <2>2. item # None => item.row \notin fresh
      BY <1>0, MailConstants DEF TypeOK
    <2>3. item' = item /\ removal' = removal /\ watches' = watches /\ mails' = mails
      BY DEF round
    <2> HIDE DEF fresh
    <2>4. OneRow'
      <3> SUFFICES ASSUME NEW r \in DOMAIN outbox', NEW q \in DOMAIN outbox',
                          outbox'[r].watch = outbox'[q].watch, outbox'[r].alert = outbox'[q].alert
                   PROVE  r = q
        BY DEF OneRow, About
      <3>1. CASE r \in DOMAIN outbox /\ q \in DOMAIN outbox
        BY <2>1, <3>1 DEF RowsInv, OneRow, About
      <3>2. CASE r \in fresh /\ q \in fresh
        BY <2>1, <3>2
      <3>3. CASE r \in DOMAIN outbox /\ q \in fresh
        BY <2>1, <3>3 DEF Fresh
      <3>4. CASE r \in fresh /\ q \in DOMAIN outbox
        BY <2>1, <3>4 DEF Fresh
      <3>5. QED
        BY <2>1, <3>1, <3>2, <3>3, <3>4
    <2>5. Carried'
      <3>1. CASE item # None /\ item.row \in DOMAIN outbox
        BY <2>1, <2>3, <3>1 DEF RowsInv, Carried, About
      <3>2. CASE item # None /\ item.row \notin DOMAIN outbox
        <4>1. /\ watches[item.watch] = "gone" /\ item.row \notin DOMAIN outbox'
              /\ \A r \in DOMAIN outbox : ~About(r, item.watch, item.alert)
          BY <2>1, <2>2, <3>2 DEF RowsInv, Carried
        <4>2. \A r \in DOMAIN outbox' : ~(outbox'[r].watch = item.watch /\ outbox'[r].alert = item.alert)
          BY <2>1, <4>1 DEF About
        <4>3. QED
          BY <2>3, <3>2, <4>1, <4>2 DEF RowsInv, Carried, About
      <3>3. QED
        BY <2>3, <3>1, <3>2 DEF Carried
    <2>6. Doomed'
      BY <1>0, <2>1, <2>3 DEF RowsInv, Doomed, TypeOK
    <2>7. QED
      BY <2>4, <2>5, <2>6
  <1>3. QED
    BY <1>1, <1>2

\* Rows may be put off or on, and others go.
LEMMA FewerRows ==
    ASSUME OneRow, DOMAIN outbox' \subseteq DOMAIN outbox,
           \A r \in DOMAIN outbox' : outbox'[r].watch = outbox[r].watch /\ outbox'[r].alert = outbox[r].alert
    PROVE  OneRow'
  BY DEF OneRow, About

LEMMA RoundRows ==
    ASSUME RowsInv, RoundNext \/ AnswerLost \/ RoundFails
    PROVE  OneRow' /\ Carried' /\ Doomed'
  <1>0. TypeOK
    BY DEF RowsInv, TypeInv
  <1>1. CASE StartRound
    BY <1>1 DEF StartRound, RowsInv, OneRow, Carried, Doomed, About
  <1>2. CASE Load
    <2>1. UNCHANGED <<watches, outbox, removal, mails>>
      BY <1>2 DEF Load
    <2>2. OneRow' /\ Doomed'
      BY <2>1 DEF RowsInv, OneRow, Doomed, About
    <2>3. \/ item' = None
          \/ \E r \in DOMAIN outbox :
                item' = [row |-> r, watch |-> outbox[r].watch, alert |-> outbox[r].alert, tries |-> 0, sent |-> FALSE]
      BY <1>2 DEF Load, EndRound
    <2>4. Carried'
      BY <2>1, <2>3 DEF Carried, About
    <2>5. QED
      BY <2>2, <2>4
  <1>3. CASE Deliver \/ Refuse \/ AnswerLost
    <2>1. UNCHANGED <<watches, outbox, removal>> /\ item # None /\ item \in Item /\ ~item.sent
      BY <1>0, <1>3 DEF Deliver, Refuse, AnswerLost, Sending, TypeOK
    <2>2. OneRow' /\ Doomed'
      BY <2>1 DEF RowsInv, OneRow, Doomed, About
    <2>3. item'.row = item.row /\ item'.watch = item.watch /\ item'.alert = item.alert
      BY <1>3, <2>1 DEF Deliver, Refuse, AnswerLost, Item
    <2>4. item'.sent => mails'[<<item.watch, item.alert>>] > 0
      <3>1. CASE Deliver
        <4>1. mails[<<item.watch, item.alert>>] \in Nat /\ <<item.watch, item.alert>> \in DOMAIN mails
          BY <1>0, <2>1 DEF TypeOK, Item
        <4>2. mails'[<<item.watch, item.alert>>] = mails[<<item.watch, item.alert>>] + 1
          BY <3>1, <4>1 DEF Deliver
        <4>3. QED
          BY <4>1, <4>2
      <3>2. CASE Refuse \/ AnswerLost
        BY <2>1, <3>2 DEF Refuse, AnswerLost, Item
      <3>3. QED
        BY <1>3, <3>1, <3>2
    <2>5. Carried'
      BY <2>1, <2>3, <2>4 DEF RowsInv, Carried, About
    <2>6. QED
      BY <2>2, <2>5
  <1>4. CASE CommitItem \/ RoundFails
    <2>1. item' = None /\ removal' = removal
      BY <1>4 DEF CommitItem, RoundFails, Next1, EndRound
    <2>2. /\ DOMAIN outbox' \subseteq DOMAIN outbox
          /\ \A r \in DOMAIN outbox' : outbox'[r].watch = outbox[r].watch /\ outbox'[r].alert = outbox[r].alert
      <3>1. CASE outbox' = outbox \/ outbox' = [q \in DOMAIN outbox \ {item.row} |-> outbox[q]]
        BY <3>1
      <3>2. CASE outbox' = [outbox EXCEPT ![item.row].due = FALSE]
        BY <1>0, <3>2 DEF TypeOK, Row
      <3>3. QED
        BY <1>4, <3>1, <3>2 DEF CommitItem, RoundFails
    <2>3. removal # None => removal.rows \subseteq DOMAIN outbox'
      <3>1. CASE CommitItem
        BY <1>0, <3>1, RoundType DEF CommitItem, RoundNext, TypeOK
      <3>2. CASE RoundFails
        BY <1>0, <3>2 DEF RoundFails, TypeOK
      <3>3. QED
        BY <1>4, <3>1, <3>2
    <2>4. OneRow' /\ Carried' /\ Doomed'
      BY <2>1, <2>2, <2>3, FewerRows DEF RowsInv, Carried, Doomed
    <2>5. QED
      BY <2>4
  <1>5. QED
    BY <1>1, <1>2, <1>3, <1>4 DEF RoundNext

LEMMA OthersRows ==
    ASSUME RowsInv,
           \/ \E r \in RowIds : BecomeDue(r)
           \/ \E w \in Watches, state \in {"realtime", "other", "gone"} : ChangeWatch(w, state)
           \/ \E W \in (SUBSET Watches) \ {{}} : DeletePreset(W)
           \/ CommitRemoval \/ Smtp
    PROVE  OneRow' /\ Carried' /\ Doomed'
  <1>0. TypeOK
    BY DEF RowsInv, TypeInv
  <1>1. ASSUME NEW r \in RowIds, BecomeDue(r) PROVE OneRow' /\ Carried' /\ Doomed'
    <2>1. /\ DOMAIN outbox' = DOMAIN outbox /\ UNCHANGED <<watches, item, removal, mails>>
          /\ \A q \in DOMAIN outbox : outbox'[q].watch = outbox[q].watch /\ outbox'[q].alert = outbox[q].alert
      BY <1>0, <1>1 DEF BecomeDue, TypeOK, Row, round
    <2>2. QED
      BY <1>0, <2>1, FewerRows DEF RowsInv, Carried, Doomed, About, TypeOK
  <1>2. ASSUME NEW w \in Watches, NEW state \in {"realtime", "other", "gone"}, ChangeWatch(w, state)
        PROVE  OneRow' /\ Carried' /\ Doomed'
    <2>1. UNCHANGED <<outbox, item, removal, mails>>
      BY <1>2 DEF ChangeWatch, round
    <2>2. \A v \in Watches : watches[v] = "gone" => watches'[v] = "gone"
      BY <1>0, <1>2 DEF ChangeWatch, TypeOK
    <2>3. item # None => item.watch \in Watches
      BY <1>0 DEF TypeOK, Item
    <2>4. QED
      BY <2>1, <2>2, <2>3 DEF RowsInv, OneRow, Carried, Doomed, About
  <1>3. ASSUME NEW W \in (SUBSET Watches) \ {{}}, DeletePreset(W) PROVE OneRow' /\ Carried' /\ Doomed'
    BY <1>3 DEF DeletePreset, round, RowsInv, OneRow, Carried, Doomed, About
  <1>4. CASE CommitRemoval
    <2>1. /\ removal # None /\ removal' = None /\ UNCHANGED <<item, mails>>
          /\ outbox' = [r \in DOMAIN outbox \ removal.rows |-> outbox[r]]
      BY <1>4 DEF CommitRemoval, round
    <2>2. \A v \in Watches : watches[v] = "gone" \/ v \in removal.watches => watches'[v] = "gone"
      BY <1>4 DEF CommitRemoval
    <2>3. OneRow'
      BY <2>1, FewerRows DEF RowsInv
    <2>4. item # None => item.watch \in Watches
      BY <1>0 DEF TypeOK, Item
    <2>5. Carried'
      <3>1. CASE item # None /\ item.row \in DOMAIN outbox \ removal.rows
        BY <2>1, <3>1 DEF RowsInv, Carried, About
      <3>2. CASE item # None /\ item.row \in DOMAIN outbox /\ item.row \in removal.rows
        <4>1. About(item.row, item.watch, item.alert) /\ item.watch \in removal.watches
          BY <2>1, <3>2 DEF RowsInv, Carried, Doomed, About
        <4>2. \A r \in DOMAIN outbox' : ~(outbox'[r].watch = item.watch /\ outbox'[r].alert = item.alert)
          BY <2>1, <3>2, <4>1 DEF RowsInv, OneRow, About
        <4>3. QED
          BY <2>1, <2>2, <2>4, <3>2, <4>1, <4>2 DEF RowsInv, Carried, About
      <3>3. CASE item # None /\ item.row \notin DOMAIN outbox
        BY <2>1, <2>2, <2>4, <3>3 DEF RowsInv, Carried, About
      <3>4. QED
        BY <2>1, <3>1, <3>2, <3>3 DEF Carried
    <2>6. QED
      BY <2>1, <2>3, <2>5 DEF Doomed
  <1>5. CASE Smtp
    BY <1>5 DEF Smtp, round, RowsInv, OneRow, Carried, Doomed, About
  <1>6. QED
    BY <1>1, <1>2, <1>3, <1>4, <1>5

LEMMA NextRows == RowsInv /\ [Next]_vars => RowsInv'
  <1> SUFFICES ASSUME RowsInv, [Next]_vars PROVE RowsInv'
    OBVIOUS
  <1>1. TypeInv'
    BY NextType DEF RowsInv
  <1>2. ASSUME NEW a \in Alerts, NEW hits \in SUBSET Watches, Enqueue(a, hits) \/ EnqueueFails(a, hits)
        PROVE  OneRow' /\ Carried' /\ Doomed'
    BY <1>2, InsertRows DEF Enqueue, EnqueueFails
  <1>3. CASE UNCHANGED vars
    <2>1. UNCHANGED <<watches, outbox, item, removal, mails>>
      BY <1>3 DEF vars, round
    <2>2. OneRow'
      BY <2>1 DEF RowsInv, OneRow, About
    <2>3. Carried'
      BY <2>1 DEF RowsInv, Carried, About
    <2>4. Doomed'
      BY <2>1 DEF RowsInv, Doomed
    <2>5. QED
      BY <1>1, <2>2, <2>3, <2>4 DEF RowsInv
  <1>4. QED
    BY <1>1, <1>2, <1>3, RoundRows, OthersRows DEF Next, RowsInv

\* A step takes a row away only after its mail was delivered or with its watch.
LEMMA StepLosesNoMail ==
    ASSUME RowsInv, [Next]_vars, NEW r \in DOMAIN outbox, r \notin DOMAIN outbox'
    PROVE  mails[<<outbox[r].watch, outbox[r].alert>>] > 0 \/ watches'[outbox[r].watch] = "gone"
  <1>0. TypeOK
    BY DEF RowsInv, TypeInv
  <1>1. ASSUME NEW a \in Alerts, NEW hits \in SUBSET Watches, Insert(a, hits) PROVE FALSE
    BY <1>0, <1>1, Inserted
  <1>2. CASE CommitItem
    <2>1. r = item.row /\ item # None /\ item.sent
      BY <1>2 DEF CommitItem, Done
    <2>2. QED
      BY <2>1 DEF RowsInv, Carried, About
  <1>3. CASE CommitRemoval
    BY <1>0, <1>3 DEF CommitRemoval, RowsInv, Doomed, TypeOK, Row
  <1>4. ASSUME NEW q \in RowIds, BecomeDue(q) PROVE FALSE
    BY <1>4 DEF BecomeDue
  <1>5. CASE outbox' = outbox
    BY <1>5
  <1>6. QED
    BY <1>1, <1>2, <1>3, <1>4, <1>5
       DEF Next, Enqueue, EnqueueFails, RoundNext, StartRound, Load, Deliver, Refuse, AnswerLost, RoundFails,
           ChangeWatch, DeletePreset, Smtp, vars

\* No mail is lost, whatever refuses, fails or vanishes in the middle of a round
\* (mail_watches.py _process_realtime_outbox, alert_search_preset.py delete_preset).
THEOREM NoneLost == Spec => NoMailLost
  <1>1. RowsInv /\ [Next]_vars =>
          [\A r \in DOMAIN outbox : r \notin DOMAIN outbox' =>
             \/ mails[<<outbox[r].watch, outbox[r].alert>>] > 0
             \/ watches'[outbox[r].watch] = "gone"]_vars
    BY StepLosesNoMail
  <1>2. QED
    BY <1>1, InitRows, NextRows, PTL DEF Spec, NoMailLost

-----------------------------------------------------------------------------
(* How many mails                                                          *)

\* A mail for this watch and alert may still go out without anything failing: a row waits
\* whose mail the round has not sent, or the round carries an unsent item of a row that went.
Pending(w, a) ==
    \/ \E r \in DOMAIN outbox : About(r, w, a) /\ ~(item # None /\ item.row = r /\ item.sent)
    \/ item # None /\ item.watch = w /\ item.alert = a /\ ~item.sent

\* What has gone out, what is pending and what the analyzer may still enqueue: each is worth
\* one mail, and together they exceed the one that is due by no more than the faults so far.
Account(w, a) ==
    /\ mails[<<w, a>>] <= 1 + faults
    /\ Pending(w, a) \/ ~enqueue[a].over => mails[<<w, a>>] <= faults
    /\ Pending(w, a) /\ ~enqueue[a].over => mails[<<w, a>>] + 1 <= faults
Accounts == \A w \in Watches, a \in Alerts : Account(w, a)

LEMMA InitAccounts == Init => Accounts
  <1> SUFFICES ASSUME Init, NEW w \in Watches, NEW a \in Alerts PROVE Account(w, a)
    BY DEF Accounts
  <1>1. ~Pending(w, a)
    BY DEF Init, Pending
  <1>2. mails[<<w, a>>] = 0 /\ faults = 0
    BY DEF Init
  <1>3. QED
    BY <1>1, <1>2 DEF Account

LEMMA Numbers ==
    ASSUME TypeOK, NEW w \in Watches, NEW a \in Alerts
    PROVE  mails[<<w, a>>] \in Nat /\ faults \in Nat /\ <<w, a>> \in DOMAIN mails
  BY MailConstants DEF TypeOK

\* A step without a fault that gives this pair no more to send.
LEMMA QuietAccount ==
    ASSUME NEW w \in Watches, NEW a \in Alerts, Account(w, a),
           mails'[<<w, a>>] = mails[<<w, a>>], faults' = faults,
           Pending(w, a)' => Pending(w, a), enqueue[a].over => enqueue'[a].over
    PROVE  Account(w, a)'
  BY DEF Account

\* A fault pays for one mail more.
LEMMA FaultAccount ==
    ASSUME TypeOK, NEW w \in Watches, NEW a \in Alerts, Account(w, a),
           mails'[<<w, a>>] = mails[<<w, a>>], faults' = faults + 1, enqueue[a].over => enqueue'[a].over
    PROVE  Account(w, a)'
  <1>1. mails[<<w, a>>] \in Nat /\ faults \in Nat
    BY Numbers
  <1>2. mails'[<<w, a>>] <= 1 + faults' /\ mails'[<<w, a>>] <= faults'
    BY <1>1 DEF Account
  <1>3. ~enqueue'[a].over => mails'[<<w, a>>] + 1 <= faults'
    BY <1>1 DEF Account
  <1>4. QED
    BY <1>2, <1>3 DEF Account

\* Only a round that sends, or loses what it has sent, and an insertion change what is pending.
LEMMA PendingKept ==
    ASSUME NEW w, NEW a, item' = item, DOMAIN outbox' \subseteq DOMAIN outbox,
           \A r \in DOMAIN outbox' : outbox'[r].watch = outbox[r].watch /\ outbox'[r].alert = outbox[r].alert,
           Pending(w, a)'
    PROVE  Pending(w, a)
  BY DEF Pending, About

LEMMA EnqueueAccounts ==
    ASSUME RowsInv, Accounts, NEW a \in Alerts, NEW hits \in SUBSET Watches,
           Enqueue(a, hits) \/ EnqueueFails(a, hits)
    PROVE  Accounts'
  <1>0. TypeOK
    BY DEF RowsInv, TypeInv
  <1> SUFFICES ASSUME NEW w \in Watches, NEW b \in Alerts PROVE Account(w, b)'
    BY DEF Accounts
  <1>1. Account(w, b) /\ mails' = mails
    BY DEF Accounts, Enqueue, EnqueueFails
  <1>2. CASE EnqueueFails(a, hits)
    <2>1. enqueue[b].over => enqueue'[b].over
      BY <1>0, <1>2 DEF EnqueueFails, TypeOK
    <2>2. faults' = faults + 1
      BY <1>2 DEF EnqueueFails, Fault
    <2>3. QED
      BY <1>0, <1>1, <2>1, <2>2, FaultAccount
  <1>3. CASE Enqueue(a, hits) /\ a = b
    <2>1. ~enqueue[b].over /\ enqueue'[b].over /\ faults' = faults
      BY <1>0, <1>3 DEF Enqueue, TypeOK
    <2>2. QED
      BY <1>0, <1>1, <2>1, Numbers DEF Account
  <1>4. CASE Enqueue(a, hits) /\ a # b
    <2>1. enqueue'[b] = enqueue[b] /\ faults' = faults /\ item' = item /\ Insert(a, hits)
      BY <1>0, <1>4 DEF Enqueue, TypeOK, round
    <2>2. \A r \in DOMAIN outbox' : outbox'[r].alert = b => r \in DOMAIN outbox /\ outbox'[r] = outbox[r]
      BY <1>0, <1>4, <2>1, Inserted
    <2>3. Pending(w, b)' => Pending(w, b)
      BY <2>1, <2>2 DEF Pending, About
    <2>4. QED
      BY <1>1, <2>1, <2>3, QuietAccount
  <1>5. QED
    BY <1>2, <1>3, <1>4

LEMMA RoundAccounts ==
    ASSUME RowsInv, Accounts, RoundNext \/ AnswerLost \/ RoundFails
    PROVE  Accounts'
  <1>0. TypeOK
    BY DEF RowsInv, TypeInv
  <1> SUFFICES ASSUME NEW w \in Watches, NEW a \in Alerts PROVE Account(w, a)'
    BY DEF Accounts
  <1>1. Account(w, a) /\ enqueue' = enqueue
    BY DEF Accounts, RoundNext, StartRound, Load, Deliver, Refuse, CommitItem, AnswerLost, RoundFails
  <1>2. mails[<<w, a>>] \in Nat /\ faults \in Nat /\ <<w, a>> \in DOMAIN mails
    BY <1>0, Numbers
  <1>3. CASE StartRound
    <2>1. UNCHANGED <<outbox, item, faults, mails>>
      BY <1>3 DEF StartRound
    <2>2. QED
      BY <1>1, <2>1, PendingKept, QuietAccount
  <1>4. CASE Load
    <2>1. UNCHANGED <<outbox, faults, mails>> /\ item = None
      BY <1>4 DEF Load
    <2>2. \/ item' = None
          \/ \E r \in DOMAIN outbox :
                item' = [row |-> r, watch |-> outbox[r].watch, alert |-> outbox[r].alert, tries |-> 0, sent |-> FALSE]
      BY <1>4 DEF Load, EndRound
    <2>3. Pending(w, a)' => Pending(w, a)
      BY <2>1, <2>2 DEF Pending, About
    <2>4. QED
      BY <1>1, <2>1, <2>3, QuietAccount
  <1>5. CASE Refuse
    <2>1. /\ UNCHANGED <<outbox, faults, mails>> /\ item # None /\ item \in Item /\ ~item.sent
          /\ item' = [item EXCEPT !.tries = @ + 1]
      BY <1>0, <1>5 DEF Refuse, Sending, TypeOK
    <2>2. item'.row = item.row /\ item'.watch = item.watch /\ item'.alert = item.alert /\ ~item'.sent
      BY <2>1 DEF Item
    <2>3. Pending(w, a)' => Pending(w, a)
      BY <2>1, <2>2 DEF Pending, About
    <2>4. QED
      BY <1>1, <2>1, <2>3, QuietAccount
  <1>6. CASE (Deliver \/ AnswerLost) /\ ~(item.watch = w /\ item.alert = a)
    <2>1. mails'[<<w, a>>] = mails[<<w, a>>]
      BY <1>0, <1>2, <1>6 DEF Deliver, AnswerLost, TypeOK
    <2>2. CASE AnswerLost
      BY <1>0, <1>1, <2>1, <2>2, FaultAccount DEF AnswerLost, Fault
    <2>3. CASE Deliver
      <3>1. UNCHANGED <<outbox, faults>> /\ item # None /\ item \in Item /\ item' = [item EXCEPT !.sent = TRUE]
        BY <1>0, <2>3 DEF Deliver, Sending, TypeOK
      <3>2. item'.row = item.row /\ item'.watch = item.watch /\ item'.alert = item.alert
        BY <3>1 DEF Item
      <3>3. Pending(w, a)' => Pending(w, a)
        BY <1>6, <3>1, <3>2 DEF Pending, About, RowsInv, Carried
      <3>4. QED
        BY <1>1, <2>1, <3>1, <3>3, QuietAccount
    <2>4. QED
      BY <1>6, <2>2, <2>3
  <1>7. CASE (Deliver \/ AnswerLost) /\ item.watch = w /\ item.alert = a
    <2>1. item # None /\ item \in Item /\ ~item.sent /\ outbox' = outbox
      BY <1>0, <1>7 DEF Deliver, AnswerLost, Sending, TypeOK
    <2>2. Pending(w, a)
      BY <1>7, <2>1 DEF Pending
    <2>3. mails'[<<w, a>>] = mails[<<w, a>>] + 1
      BY <1>2, <1>7 DEF Deliver, AnswerLost
    <2>4. CASE AnswerLost
      <3>1. faults' = faults + 1
        BY <2>4 DEF AnswerLost, Fault
      <3>2. QED
        BY <1>1, <1>2, <2>2, <2>3, <3>1 DEF Account
    <2>5. CASE Deliver
      <3>1. faults' = faults /\ item' = [item EXCEPT !.sent = TRUE]
        BY <2>5 DEF Deliver
      <3>2. item'.row = item.row /\ item'.sent /\ item' # None
        BY <2>1, <3>1, MailConstants DEF Item
      <3>3. \A r \in DOMAIN outbox : About(r, w, a) => r = item.row
        BY <1>7, <2>1 DEF RowsInv, OneRow, Carried, About
      <3>4. ~Pending(w, a)'
        BY <2>1, <3>2, <3>3 DEF Pending, About
      <3>5. QED
        BY <1>1, <1>2, <2>2, <2>3, <3>1, <3>4 DEF Account
    <2>6. QED
      BY <1>7, <2>4, <2>5
  <1>8. CASE CommitItem
    <2>1. item # None /\ item' = None /\ faults' = faults /\ mails' = mails
      BY <1>8 DEF CommitItem, Next1, EndRound
    <2>2. /\ DOMAIN outbox' \subseteq DOMAIN outbox
          /\ \A r \in DOMAIN outbox' : outbox'[r].watch = outbox[r].watch /\ outbox'[r].alert = outbox[r].alert
      <3>1. CASE outbox' = outbox \/ outbox' = [q \in DOMAIN outbox \ {item.row} |-> outbox[q]]
        BY <3>1
      <3>2. CASE outbox' = [outbox EXCEPT ![item.row].due = FALSE]
        BY <1>0, <3>2 DEF TypeOK, Row
      <3>3. QED
        BY <1>8, <3>1, <3>2 DEF CommitItem
    <2>3. item.sent => item.row \notin DOMAIN outbox'
      BY <1>8 DEF CommitItem, Done
    <2>4. Pending(w, a)' => Pending(w, a)
      BY <2>1, <2>2, <2>3 DEF Pending, About
    <2>5. QED
      BY <1>1, <2>1, <2>4, QuietAccount
  <1>9. CASE RoundFails
    BY <1>0, <1>1, <1>9, FaultAccount DEF RoundFails, Fault
  <1>10. QED
    BY <1>3, <1>4, <1>5, <1>6, <1>7, <1>8, <1>9 DEF RoundNext

LEMMA OthersAccounts ==
    ASSUME RowsInv, Accounts,
           \/ \E r \in RowIds : BecomeDue(r)
           \/ \E w \in Watches, state \in {"realtime", "other", "gone"} : ChangeWatch(w, state)
           \/ \E W \in (SUBSET Watches) \ {{}} : DeletePreset(W)
           \/ CommitRemoval \/ Smtp
    PROVE  Accounts'
  <1>0. TypeOK
    BY DEF RowsInv, TypeInv
  <1> SUFFICES ASSUME NEW w \in Watches, NEW a \in Alerts PROVE Account(w, a)'
    BY DEF Accounts
  <1>1. Account(w, a) /\ UNCHANGED <<enqueue, faults, mails, item>>
    BY DEF Accounts, BecomeDue, ChangeWatch, DeletePreset, CommitRemoval, Smtp, round
  <1>2. /\ DOMAIN outbox' \subseteq DOMAIN outbox
        /\ \A r \in DOMAIN outbox' : outbox'[r].watch = outbox[r].watch /\ outbox'[r].alert = outbox[r].alert
    <2>1. ASSUME NEW r \in RowIds, BecomeDue(r)
          PROVE  /\ DOMAIN outbox' = DOMAIN outbox
                 /\ \A q \in DOMAIN outbox : outbox'[q].watch = outbox[q].watch /\ outbox'[q].alert = outbox[q].alert
      BY <1>0, <2>1 DEF BecomeDue, TypeOK, Row
    <2>2. CASE CommitRemoval
      BY <2>2 DEF CommitRemoval
    <2>3. CASE outbox' = outbox
      BY <2>3
    <2>4. QED
      BY <2>1, <2>2, <2>3 DEF ChangeWatch, DeletePreset, Smtp
  <1>3. QED
    BY <1>1, <1>2, PendingKept, QuietAccount

\* Nobody is told twice without a fault (mail_percolator.py, mail_watches.py
\* _process_realtime_outbox): a fault costs at most one mail too many.
THEOREM FewMails == Spec => []MailsBounded
  <1>1. RowsInv /\ Accounts /\ [Next]_vars => Accounts'
    <2> SUFFICES ASSUME RowsInv, Accounts, [Next]_vars PROVE Accounts'
      OBVIOUS
    <2>1. CASE UNCHANGED vars
      BY <2>1 DEF vars, round, Accounts, Account, Pending, About
    <2>2. QED
      BY <2>1, EnqueueAccounts, RoundAccounts, OthersAccounts DEF Next
  <1>2. RowsInv /\ Accounts => MailsBounded
    BY DEF RowsInv, TypeInv, TypeOK, Accounts, Account, MailsBounded
  <1>3. QED
    BY <1>1, <1>2, InitRows, NextRows, InitAccounts, PTL DEF Spec
=============================================================================
