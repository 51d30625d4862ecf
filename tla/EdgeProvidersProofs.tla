------------------------ MODULE EdgeProvidersProofs ------------------------
(***************************************************************************)
(* What the webhook receivers, the suppression list, the publishing of      *)
(* posts and the connected accounts keep true in every scene of theirs: an  *)
(* inductive invariant for each component, and one lemma per action or      *)
(* group of actions.                                                        *)
(***************************************************************************)
EXTENDS EdgeProviders, TLAPS

\* The leaves are first-order reasoning about sets and functions unless they say SMT.
USE Zenon

-----------------------------------------------------------------------------
\* The webhook receivers and the suppression list.

(***************************************************************************)
(* Webhooks.  What a provider is told depends on what the other open       *)
(* transactions do before this one commits.  The invariant says of each    *)
(* open transaction that every event it will acknowledge is stored, in its *)
(* own rows or still to do (Carried); that the rows it holds are nobody    *)
(* else's (Apart), which is what the waits on the unique index give; and   *)
(* that a row which must suppress an address has done so, or is about to.  *)
(* That a row records an event of its key, and not another with the same   *)
(* key, is what EventIdsAssumption gives for the events with their own id. *)
(***************************************************************************)
LowerCase == {a \in Addresses : lower[a] = a}

\* A row of analytic_event and an open transaction of a receiver.
EventRow == [id : Nat, kind : STRING, who : Addresses \cup {NoOne}, by : {"uniform", "legacy"}]
Delivery ==
  [kind : {"uniform", "legacy"}, batch : Batches, todo : Seq(Reported), rows : SUBSET EventRow,
   first : Nat, muted : SUBSET LowerCase, mute : Addresses \cup {NoOne}]
Trail == [valid : BOOLEAN, batch : Batches, mapped : Nat]

\* The types of the variables.
WebhookTypes ==
  /\ events \subseteq EventRow
  /\ raw \in Seq(Trail)
  /\ suppressed \subseteq LowerCase
  /\ tx \in [Sessions -> Delivery \cup {W!Idle}]

IdsOf(some) == {e.id : e \in some}
KeysOf(some) == {W!Key(r) : r \in some}
In(r, q) == \E i \in DOMAIN q : q[i] = r

\* A row that puts its address on the suppression list.
Suppressing(e) == e.by = "legacy" /\ W!SuppressionReasonFor(e.kind) /\ e.who # NoOne

\* What an open transaction carries when ids are stored and list is suppressed.
Carried(t, ids, list) ==
  /\ \A r \in W!Reports(t.batch) : W!Key(r) \in ids \cup IdsOf(t.rows) \/ In(r, t.todo)
  /\ \A r : In(r, t.todo) => In(r, t.batch)
  /\ \A e \in t.rows : \E r \in W!Reports(t.batch) : W!Records(e, r)
  /\ IdsOf(t.rows) \cap ids = {}
  /\ t.first \in {0} \cup IdsOf(t.rows)
  /\ \A e \in t.rows :
       Suppressing(e) => lower[e.who] \in list \cup t.muted \/ t.mute = e.who

AllCarried == \A s \in Sessions : tx[s] # W!Idle => Carried(tx[s], W!Ids, suppressed)

\* No two open transactions hold rows of the same event.
Apart ==
  \A s, t \in Sessions :
    s # t /\ tx[s] # W!Idle /\ tx[t] # W!Idle => IdsOf(tx[s].rows) \cap IdsOf(tx[t].rows) = {}

\* A loaded batch goes to nobody who was on the list when the batch was begun.
MailSound ==
  /\ mail = W!NoMail \/ mail.phase \in {"begun", "loaded"}
  /\ mail # W!NoMail => mail.known \subseteq suppressed
  /\ mail.phase = "loaded" => \A a \in mail.to : a \in Addresses /\ lower[a] \notin mail.known

\* A row of analytic_event is about an event of some body, and so is what a provider
\* was told is received, whose key is in the table.
Sent(r) == \E b \in Batches : In(r, b)
Genuine == \A e \in events : \E r : Sent(r) /\ W!Records(e, r)
Stored == \A r \in acked : Sent(r) /\ W!Key(r) \in W!Ids
Kept == Genuine /\ Stored /\ W!StoredMeansSuppressed

\* The inductive invariant.
WebhookInv ==
  /\ WebhookTypes /\ AllCarried /\ Apart /\ MailSound
  /\ Kept /\ W!RawAccounts

\* Nothing was delivered yet.
LEMMA WebhookInit == ASSUME W!Init PROVE WebhookInv
<1>1. WebhookTypes
  BY SMT DEF W!Init, WebhookTypes
<1>2. AllCarried /\ Apart
  BY DEF W!Init, AllCarried, Apart
<1>3. MailSound
  BY SMT DEF W!Init, MailSound, W!NoMail
<1>4. Kept
  BY DEF W!Init, Kept, Genuine, Stored, W!StoredMeansSuppressed
<1>5. W!RawAccounts
  BY SMT DEF W!Init, W!RawAccounts
<1> QED
  BY <1>1, <1>2, <1>3, <1>4, <1>5 DEF WebhookInv

\* A transaction is idle or a delivery.
LEMMA Delivering ==
  ASSUME WebhookTypes, NEW s \in Sessions
  PROVE  /\ tx[s] \in Delivery \cup {W!Idle}
         /\ tx[s].kind # "none" <=> tx[s] # W!Idle
         /\ tx[s] # W!Idle => tx[s] \in Delivery
<1>1. tx[s] \in Delivery \cup {W!Idle}
  BY DEF WebhookTypes
<1>2. \A t \in Delivery : t.kind # "none"
  BY SMT DEF Delivery
<1>3. W!Idle.kind = "none"
  BY SMT DEF W!Idle
<1> QED
  BY <1>1, <1>2, <1>3

\* A write to one session's transaction.
LEMMA OneDelivery ==
  ASSUME WebhookTypes, NEW s \in Sessions, NEW v, tx' = [tx EXCEPT ![s] = v]
  PROVE  /\ tx'[s] = v
         /\ \A t \in Sessions : t # s => tx'[t] = tx[t]
         /\ v \in Delivery \cup {W!Idle} => tx' \in [Sessions -> Delivery \cup {W!Idle}]
<1> DEFINE T == Delivery \cup {W!Idle}
<1>1. tx \in [Sessions -> T]
  BY DEF WebhookTypes
<1> HIDE DEF T
<1>2. /\ tx'[s] = v
      /\ \A t \in Sessions : t # s => tx'[t] = tx[t]
      /\ v \in T => tx' \in [Sessions -> T]
  BY <1>1
<1> QED
  BY <1>2 DEF T

\* Commits of others add rows that are not ours, and suppress more.
LEMMA CarriedGrows ==
  ASSUME NEW t, NEW ids, NEW list, NEW more, NEW longer,
         Carried(t, ids, list), IdsOf(t.rows) \cap more = {}, list \subseteq longer
  PROVE  Carried(t, ids \cup more, longer)
  BY DEF Carried

\* The head of what is to do, and the rest.
LEMMA HeadAndRest ==
  ASSUME NEW T, NEW q \in Seq(T), q # <<>>
  PROVE  /\ Head(q) \in T /\ Tail(q) \in Seq(T) /\ In(Head(q), q)
         /\ \A r : In(r, q) => r = Head(q) \/ In(r, Tail(q))
         /\ \A r : In(r, Tail(q)) => In(r, q)
<1>1. Head(q) \in T /\ Tail(q) \in Seq(T) /\ Head(q) = q[1] /\ 1 \in DOMAIN q
  BY SMT
<1>2. ASSUME NEW i \in DOMAIN q PROVE q[i] = Head(q) \/ \E j \in DOMAIN Tail(q) : Tail(q)[j] = q[i]
  <2>1. CASE i = 1
    BY <1>1, <2>1
  <2>2. CASE i # 1
    <3>1. i - 1 \in DOMAIN Tail(q) /\ Tail(q)[i - 1] = q[i]
      BY <1>2, <2>2, SMT
    <3> QED
      BY <3>1
  <2> QED
    BY <2>1, <2>2
<1>3. ASSUME NEW i \in DOMAIN Tail(q) PROVE i + 1 \in DOMAIN q /\ q[i + 1] = Tail(q)[i]
  BY <1>3, SMT
<1> QED
  BY <1>1, <1>2, <1>3 DEF In

\* Fields of a delivery rewritten.
LEMMA RewrittenDelivery ==
  ASSUME NEW t \in Delivery, NEW todo \in Seq(Reported), NEW held \in SUBSET EventRow,
         NEW first \in Nat, NEW muted \in SUBSET LowerCase, NEW mute \in Addresses \cup {NoOne}
  PROVE  /\ [t EXCEPT !.todo = todo] \in Delivery
         /\ [t EXCEPT !.todo = todo, !.rows = held, !.first = first, !.mute = mute] \in Delivery
         /\ [t EXCEPT !.muted = muted, !.mute = mute] \in Delivery
<1> DEFINE Todo == Seq(Reported)  Held == SUBSET EventRow  Muted == SUBSET LowerCase
           Mute == Addresses \cup {NoOne}
<1>1. Delivery = [kind : {"uniform", "legacy"}, batch : Batches, todo : Todo, rows : Held,
                  first : Nat, muted : Muted, mute : Mute]
  BY DEF Delivery
<1>2. todo \in Todo /\ held \in Held /\ muted \in Muted /\ mute \in Mute
  OBVIOUS
<1> HIDE DEF Todo, Held, Muted, Mute
<1>3. [t EXCEPT !.todo = todo] \in Delivery
  BY <1>1, <1>2, SMT
<1>4. [t EXCEPT !.todo = todo, !.rows = held, !.first = first, !.mute = mute] \in Delivery
  BY <1>1, <1>2
<1>5. [t EXCEPT !.muted = muted, !.mute = mute] \in Delivery
  BY <1>1, <1>2
<1> QED
  BY <1>3, <1>4, <1>5

\* An event that is new to the table and to the transaction gets a row; the older
\* receiver is then about to suppress its recipient.
LEMMA CarriedInserted ==
  ASSUME NEW t \in Delivery, NEW ids, NEW list, Carried(t, ids, list),
         t.todo # <<>>, t.mute = NoOne, NEW r, r = Head(t.todo),
         W!Parsed(r), W!Mapped(r), W!Key(r) \notin ids \cup IdsOf(t.rows)
  PROVE  /\ W!Inserted(t, r) \in Delivery
         /\ IdsOf(W!Inserted(t, r).rows) = IdsOf(t.rows) \cup {W!Key(r)}
         /\ Carried(W!Inserted(t, r), ids, list)
<1> DEFINE item == [id |-> W!Key(r), kind |-> r.kind, who |-> r.who, by |-> t.kind]
           silenced == IF t.kind = "legacy" /\ W!SuppressionReasonFor(r.kind) THEN r.who ELSE NoOne
<1>1. r \in Reported /\ Tail(t.todo) \in Seq(Reported)
      /\ In(r, t.todo) /\ (\A x : In(x, Tail(t.todo)) => In(x, t.todo))
      /\ \A x : In(x, t.todo) => x = r \/ In(x, Tail(t.todo))
  <2>1. t.todo \in Seq(Reported)
    BY SMT DEF Delivery
  <2> QED
    BY <2>1, HeadAndRest
<1>2. PICK u : u = W!Inserted(t, r)
  OBVIOUS
<1>3. /\ u.kind = t.kind /\ u.batch = t.batch /\ u.todo = Tail(t.todo)
      /\ u.rows = t.rows \cup {item} /\ u.first = (IF t.first = 0 THEN W!Key(r) ELSE t.first)
      /\ u.muted = t.muted /\ u.mute = silenced
  BY <1>2, SMT DEF W!Inserted, Delivery
<1>4. /\ item \in EventRow /\ item.id = W!Key(r) /\ item.kind = r.kind /\ item.who = r.who
      /\ item.by = t.kind /\ W!Key(r) \in Nat
  BY <1>1, SMT DEF EventRow, Reported, Delivery, W!Key
<1>5. u \in Delivery
  <2>1. (IF t.first = 0 THEN W!Key(r) ELSE t.first) \in Nat /\ silenced \in Addresses \cup {NoOne}
    BY <1>1, <1>4, SMT DEF Delivery, Reported
  <2>2. t.rows \cup {item} \in SUBSET EventRow
    BY <1>4, SMT DEF Delivery
  <2>3. Tail(t.todo) \in Seq(Reported)
    BY <1>1
  <2>4. u = [t EXCEPT !.todo = Tail(t.todo), !.rows = t.rows \cup {item},
                      !.first = IF t.first = 0 THEN W!Key(r) ELSE t.first, !.mute = silenced]
    BY <1>2 DEF W!Inserted
  <2> HIDE DEF item, silenced
  <2> QED
    BY <2>1, <2>2, <2>3, <2>4, RewrittenDelivery
<1> HIDE DEF item, silenced
<1>6. IdsOf(u.rows) = IdsOf(t.rows) \cup {W!Key(r)}
  BY <1>3, <1>4 DEF IdsOf
<1>7. Carried(u, ids, list)
  <2>0. r \in W!Reports(t.batch)
    <3>1. In(r, t.batch)
      BY <1>1 DEF Carried
    <3> QED
      BY <3>1 DEF W!Reports, In
  <2>1. ASSUME NEW x \in W!Reports(u.batch)
        PROVE  W!Key(x) \in ids \cup IdsOf(u.rows) \/ In(x, u.todo)
    <3>1. W!Key(x) \in ids \cup IdsOf(t.rows) \/ In(x, t.todo)
      BY <1>3 DEF Carried
    <3>2. In(x, t.todo) => x = r \/ In(x, u.todo)
      BY <1>1, <1>3
    <3> QED
      BY <1>6, <3>1, <3>2
  <2>5. \A x : In(x, u.todo) => In(x, u.batch)
    BY <1>1, <1>3 DEF Carried
  <2>2. IdsOf(u.rows) \cap ids = {}
    BY <1>6 DEF Carried
  <2>6. \A e \in u.rows : \E x \in W!Reports(u.batch) : W!Records(e, x)
    <3>1. W!Records(item, r)
      BY <1>4 DEF W!Records
    <3> QED
      BY <2>0, <1>3, <3>1 DEF Carried
  <2>3. u.first \in {0} \cup IdsOf(u.rows)
    BY <1>3, <1>6 DEF Carried
  <2>4. ASSUME NEW e \in u.rows, Suppressing(e)
        PROVE  lower[e.who] \in list \cup u.muted \/ u.mute = e.who
    <3>1. CASE e \in t.rows
      <4>1. e.who # NoOne
        BY <2>4 DEF Suppressing
      <4> QED
        BY <1>3, <2>4, <3>1, <4>1 DEF Carried
    <3>2. CASE e = item
      BY <1>3, <1>4, <2>4, <3>2 DEF Suppressing, silenced
    <3> QED
      BY <1>3, <3>1, <3>2
  <2> QED
    BY <2>1, <2>2, <2>3, <2>4, <2>5, <2>6 DEF Carried
<1> QED
  BY <1>2, <1>5, <1>6, <1>7

\* An event that is not to be written, or already is, is passed over.
LEMMA CarriedSkipped ==
  ASSUME NEW t \in Delivery, NEW ids, NEW list, Carried(t, ids, list), t.todo # <<>>,
         NEW r, r = Head(t.todo),
         W!Parsed(r) /\ W!Mapped(r) => W!Key(r) \in ids \cup IdsOf(t.rows)
  PROVE  /\ [t EXCEPT !.todo = Tail(t.todo)] \in Delivery
         /\ [t EXCEPT !.todo = Tail(t.todo)].rows = t.rows
         /\ Carried([t EXCEPT !.todo = Tail(t.todo)], ids, list)
<1>1. Tail(t.todo) \in Seq(Reported) /\ (\A x : In(x, Tail(t.todo)) => In(x, t.todo))
      /\ \A x : In(x, t.todo) => x = r \/ In(x, Tail(t.todo))
  <2>1. t.todo \in Seq(Reported)
    BY SMT DEF Delivery
  <2> QED
    BY <2>1, HeadAndRest
<1>2. PICK u : u = [t EXCEPT !.todo = Tail(t.todo)]
  OBVIOUS
<1>3. /\ u.batch = t.batch /\ u.todo = Tail(t.todo) /\ u.rows = t.rows /\ u.first = t.first
      /\ u.muted = t.muted /\ u.mute = t.mute
  BY <1>2, SMT DEF Delivery
<1>4. u \in Delivery
  <2> t.rows \in SUBSET EventRow /\ t.first \in Nat /\ t.muted \in SUBSET LowerCase
      /\ t.mute \in Addresses \cup {NoOne}
    BY SMT DEF Delivery
  <2> QED
    BY <1>1, <1>2, RewrittenDelivery
<1>5. \A x \in W!Reports(t.batch) : x = r => W!Key(x) \in ids \cup IdsOf(t.rows)
  BY DEF W!Reports
<1>6. Carried(u, ids, list)
  BY <1>1, <1>3, <1>5 DEF Carried
<1> QED
  BY <1>2, <1>3, <1>4, <1>6

\* The older receiver suppresses the recipient of the row it wrote last.
LEMMA CarriedMuted ==
  ASSUME NEW t \in Delivery, NEW ids, NEW list, Carried(t, ids, list), t.mute \in Addresses,
         NEW muted \in SUBSET LowerCase,
         t.muted \subseteq muted, lower[t.mute] \in list \cup muted
  PROVE  /\ [t EXCEPT !.muted = muted, !.mute = NoOne] \in Delivery
         /\ [t EXCEPT !.muted = muted, !.mute = NoOne].rows = t.rows
         /\ Carried([t EXCEPT !.muted = muted, !.mute = NoOne], ids, list)
<1>1. PICK u : u = [t EXCEPT !.muted = muted, !.mute = NoOne]
  OBVIOUS
<1>2. /\ u.batch = t.batch /\ u.todo = t.todo /\ u.rows = t.rows /\ u.first = t.first
      /\ u.muted = muted
  BY <1>1, SMT DEF Delivery
<1>3. u \in Delivery
  <2> t.todo \in Seq(Reported) /\ t.rows \in SUBSET EventRow /\ t.first \in Nat
    BY SMT DEF Delivery
  <2> NoOne \in Addresses \cup {NoOne}
    OBVIOUS
  <2> QED
    BY <1>1, RewrittenDelivery
<1>4. \A e \in t.rows : Suppressing(e) => lower[e.who] \in list \cup muted
  BY DEF Carried
<1>5. Carried(u, ids, list)
  BY <1>2, <1>4 DEF Carried
<1> QED
  BY <1>1, <1>2, <1>3, <1>5

\* The parts of the invariant that only tables and the mail matter to.
WebhookRest == MailSound /\ Kept /\ W!RawAccounts

\* A step of one session that changes no table.
LEMMA PrivateStep ==
  ASSUME WebhookInv, NEW s \in Sessions, NEW v, tx' = [tx EXCEPT ![s] = v],
         UNCHANGED <<events, raw, suppressed, acked, mail>>,
         v # W!Idle => /\ v \in Delivery /\ Carried(v, W!Ids, suppressed)
                       /\ \A t \in Sessions :
                            t # s /\ tx[t] # W!Idle => IdsOf(v.rows) \cap IdsOf(tx[t].rows) = {}
  PROVE  WebhookInv'
<1>0. WebhookTypes /\ AllCarried /\ Apart /\ WebhookRest
  BY DEF WebhookInv, WebhookRest
<1>1. /\ tx'[s] = v /\ \A t \in Sessions : t # s => tx'[t] = tx[t]
      /\ tx' \in [Sessions -> Delivery \cup {W!Idle}]
  BY <1>0, OneDelivery
<1>2. W!Ids' = W!Ids
  BY DEF W!Ids
<1>3. WebhookTypes'
  BY <1>0, <1>1 DEF WebhookTypes
<1>4. AllCarried'
  BY <1>0, <1>1, <1>2 DEF AllCarried
<1>5. Apart'
  BY <1>0, <1>1 DEF Apart
<1>6. WebhookRest'
  BY <1>0, <1>2
  DEF WebhookRest, MailSound, Kept, Genuine, Stored, W!RawAccounts, W!StoredMeansSuppressed
<1> QED
  BY <1>3, <1>4, <1>5, <1>6 DEF WebhookInv, WebhookRest

\* A receiver begins with a body: all of it is to do.
LEMMA ReceiveStep ==
  ASSUME WebhookInv, NEW s \in Sessions, NEW kind \in {"uniform", "legacy"}, NEW batch \in Batches,
         W!Receive(s, kind, batch)
  PROVE  WebhookInv'
<1>1. PICK v : v = [kind |-> kind, batch |-> batch, todo |-> batch, rows |-> {},
                    first |-> 0, muted |-> {}, mute |-> NoOne]
  OBVIOUS
<1>2. batch \in Seq(Reported)
  BY BatchesAssumption
<1>3. v \in Delivery
  BY <1>1, <1>2, SMT DEF Delivery
<1>4. v.batch = batch /\ v.todo = batch /\ v.rows = {} /\ v.first = 0
  BY <1>1, SMT
<1>5. IdsOf(v.rows) = {}
  BY <1>4 DEF IdsOf
<1>6. Carried(v, W!Ids, suppressed)
  BY <1>4, <1>5 DEF Carried, W!Reports, In
<1>7. tx' = [tx EXCEPT ![s] = v] /\ UNCHANGED <<events, raw, suppressed, acked, mail>>
  BY <1>1 DEF W!Receive
<1> QED
  BY <1>3, <1>5, <1>6, <1>7, PrivateStep

\* One turn of a receiver's loop: nobody else holds the event it writes.
LEMMA InsertEventStep ==
  ASSUME WebhookInv, NEW s \in Sessions, W!InsertEvent(s)
  PROVE  WebhookInv'
<1> DEFINE t == tx[s]
           r == Head(t.todo)
           wanted == W!Parsed(r) /\ W!Mapped(r)
           old == W!Key(r) \in W!Ids \cup IdsOf(t.rows)
<1>0. WebhookTypes /\ AllCarried /\ Apart
  BY DEF WebhookInv
<1>1. t # W!Idle /\ t \in Delivery /\ t.todo # <<>> /\ t.mute = NoOne
  BY <1>0, Delivering DEF W!InsertEvent
<1>2. Carried(t, W!Ids, suppressed)
  BY <1>0, <1>1 DEF AllCarried
<1>3. UNCHANGED <<events, raw, suppressed, acked, mail>>
  BY DEF W!InsertEvent
<1>4. CASE wanted /\ ~old
  <2>1. tx' = [tx EXCEPT ![s] = W!Inserted(t, r)] /\ ~W!EventHeld(s, W!Key(r))
    BY <1>4 DEF W!InsertEvent, IdsOf
  <2>2. /\ W!Inserted(t, r) \in Delivery
        /\ IdsOf(W!Inserted(t, r).rows) = IdsOf(t.rows) \cup {W!Key(r)}
        /\ Carried(W!Inserted(t, r), W!Ids, suppressed)
    BY <1>1, <1>2, <1>4, CarriedInserted
  <2>3. \A u \in Sessions : u # s /\ tx[u] # W!Idle => W!Key(r) \notin IdsOf(tx[u].rows)
    BY <1>0, <2>1, Delivering DEF W!EventHeld, IdsOf
  <2>4. \A u \in Sessions : u # s /\ tx[u] # W!Idle => IdsOf(t.rows) \cap IdsOf(tx[u].rows) = {}
    BY <1>0, <1>1 DEF Apart
  <2> HIDE DEF t, r
  <2>5. \A u \in Sessions :
          u # s /\ tx[u] # W!Idle => IdsOf(W!Inserted(t, r).rows) \cap IdsOf(tx[u].rows) = {}
    BY <2>2, <2>3, <2>4
  <2> QED
    BY <1>3, <2>1, <2>2, <2>5, PrivateStep
<1>5. CASE ~(wanted /\ ~old)
  <2> DEFINE v == [t EXCEPT !.todo = Tail(t.todo)]
  <2>1. tx' = [tx EXCEPT ![s] = v]
    <3>1. tx' = [tx EXCEPT ![s] = IF wanted /\ ~old THEN W!Inserted(t, r)
                                  ELSE IF wanted THEN v ELSE v]
      BY DEF W!InsertEvent, W!Skipped, IdsOf
    <3> HIDE DEF v, wanted, old
    <3> QED
      BY <1>5, <3>1
  <2>2. v \in Delivery /\ v.rows = t.rows /\ Carried(v, W!Ids, suppressed)
    BY <1>1, <1>2, <1>5, CarriedSkipped
  <2>3. \A u \in Sessions : u # s /\ tx[u] # W!Idle => IdsOf(v.rows) \cap IdsOf(tx[u].rows) = {}
    BY <1>0, <1>1, <2>2 DEF Apart
  <2> HIDE DEF v
  <2> QED
    BY <1>3, <2>1, <2>2, <2>3, PrivateStep
<1> QED
  BY <1>4, <1>5

\* The suppression row of the event written last.
LEMMA InsertSuppressionStep ==
  ASSUME WebhookInv, NEW s \in Sessions, W!InsertSuppression(s)
  PROVE  WebhookInv'
<1> DEFINE t == tx[s]
           a == lower[t.mute]
           muted == IF a \in suppressed THEN t.muted ELSE t.muted \cup {a}
           v == [t EXCEPT !.muted = muted, !.mute = NoOne]
<1>0. WebhookTypes /\ AllCarried /\ Apart
  BY DEF WebhookInv
<1>1. t # W!Idle /\ t \in Delivery /\ t.mute # NoOne
  BY <1>0, Delivering DEF W!InsertSuppression
<1>2. Carried(t, W!Ids, suppressed)
  BY <1>0, <1>1 DEF AllCarried
<1>3. t.mute \in Addresses /\ t.muted \in SUBSET LowerCase
  BY <1>1, SMT DEF Delivery
<1>4. a \in LowerCase
  BY <1>3, LowerAssumption DEF LowerCase
<1>5. muted \in SUBSET LowerCase /\ t.muted \subseteq muted /\ a \in suppressed \cup muted
  BY <1>3, <1>4
<1>6. tx' = [tx EXCEPT ![s] = v]
  BY DEF W!InsertSuppression
<1>7. UNCHANGED <<events, raw, suppressed, acked, mail>>
  BY DEF W!InsertSuppression
<1> HIDE DEF muted
<1>8. v \in Delivery /\ v.rows = t.rows /\ Carried(v, W!Ids, suppressed)
  BY <1>1, <1>2, <1>3, <1>5, CarriedMuted
<1>9. \A u \in Sessions : u # s /\ tx[u] # W!Idle => IdsOf(v.rows) \cap IdsOf(tx[u].rows) = {}
  BY <1>0, <1>1, <1>8 DEF Apart
<1> HIDE DEF v
<1> QED
  BY <1>6, <1>7, <1>8, <1>9, PrivateStep

\* A transaction that is rolled back leaves nothing.
LEMMA WebhookRollbackStep ==
  ASSUME WebhookInv, NEW s \in Sessions, W!Rollback(s)
  PROVE  WebhookInv'
<1>1. tx' = [tx EXCEPT ![s] = W!Idle] /\ UNCHANGED <<events, raw, suppressed, acked, mail>>
  BY DEF W!Rollback
<1> QED
  BY <1>1, PrivateStep

\* The raw trail grows by an entry whose event, if it names one, is a new one of
\* its body, and which, if verified, leaves out no event of its body.
LEMMA TrailGrows ==
  ASSUME WebhookTypes, W!RawAccounts, W!Ids \subseteq W!Ids', NEW entry \in Trail,
         raw' = Append(raw, entry),
         entry.mapped # 0 => /\ entry.mapped \notin W!Ids
                             /\ entry.mapped \in KeysOf(W!Reports(entry.batch)) \cap W!Ids',
         entry.valid => KeysOf(W!Reports(entry.batch)) \subseteq W!Ids'
  PROVE  W!RawAccounts'
<1> DEFINE own(i) == KeysOf(W!Reports(raw[i].batch))
           tip == Len(raw) + 1
<1>1. /\ DOMAIN raw' = DOMAIN raw \cup {tip} /\ tip \notin DOMAIN raw
      /\ raw'[tip] = entry /\ \A i \in DOMAIN raw : raw'[i] = raw[i]
  BY SMT DEF WebhookTypes
<1>2. \A i \in DOMAIN raw : /\ raw[i].mapped # 0 => raw[i].mapped \in own(i) \cap W!Ids
                            /\ raw[i].valid /\ raw[i].mapped = 0 => own(i) \subseteq W!Ids
  BY DEF W!RawAccounts, KeysOf
<1>3. \A i, j \in DOMAIN raw : i # j /\ raw[i].mapped # 0 => raw[i].mapped # raw[j].mapped
  BY DEF W!RawAccounts
<1> HIDE DEF tip
<1>4. \A i, j \in DOMAIN raw' : i # j /\ raw'[i].mapped # 0 => raw'[i].mapped # raw'[j].mapped
  <2> SUFFICES ASSUME NEW i \in DOMAIN raw', NEW j \in DOMAIN raw', i # j, raw'[i].mapped # 0,
                      raw'[i].mapped = raw'[j].mapped
               PROVE  FALSE
    OBVIOUS
  <2>1. CASE i \in DOMAIN raw /\ j \in DOMAIN raw
    BY <1>1, <1>3, <2>1
  <2>2. CASE i = tip /\ j \in DOMAIN raw
    BY <1>1, <1>2, <2>2
  <2>3. CASE i \in DOMAIN raw /\ j = tip
    BY <1>1, <1>2, <2>3
  <2> QED
    BY <1>1, <2>1, <2>2, <2>3
<1>5. \A i \in DOMAIN raw' :
        /\ raw'[i].mapped # 0 => raw'[i].mapped \in KeysOf(W!Reports(raw'[i].batch)) \cap W!Ids'
        /\ raw'[i].valid /\ raw'[i].mapped = 0 => KeysOf(W!Reports(raw'[i].batch)) \subseteq W!Ids'
  BY <1>1, <1>2
<1> QED
  BY <1>4, <1>5 DEF W!RawAccounts, KeysOf

\* The commit: every event of the body is stored, by this delivery or before it.
LEMMA WebhookCommitStep ==
  ASSUME WebhookInv, NEW s \in Sessions, W!Commit(s)
  PROVE  WebhookInv'
<1> DEFINE own == IdsOf(tx[s].rows)
<1>0. /\ WebhookTypes /\ AllCarried /\ Apart /\ MailSound
      /\ Genuine /\ Stored /\ W!RawAccounts /\ W!StoredMeansSuppressed
  BY DEF WebhookInv, Kept
<1>1. tx[s] # W!Idle /\ tx[s] \in Delivery /\ tx[s].todo = <<>> /\ tx[s].mute = NoOne
  BY <1>0, Delivering DEF W!Commit
<1>2. Carried(tx[s], W!Ids, suppressed)
  BY <1>0, <1>1 DEF AllCarried
<1>3. /\ events' = events \cup tx[s].rows /\ suppressed' = suppressed \cup tx[s].muted
      /\ acked' = acked \cup W!Reports(tx[s].batch)
      /\ tx' = [tx EXCEPT ![s] = W!Idle] /\ mail' = mail
  BY DEF W!Commit
<1>4. W!Ids' = W!Ids \cup own
  BY <1>3 DEF W!Ids, IdsOf
<1>5. \A r \in W!Reports(tx[s].batch) : W!Key(r) \in W!Ids'
  <2>1. \A r : ~In(r, <<>>)
    BY SMT DEF In
  <2> QED
    BY <1>1, <1>2, <1>4, <2>1 DEF Carried
<1>6. tx'[s] = W!Idle /\ \A t \in Sessions : t # s => tx'[t] = tx[t]
  BY <1>0, <1>3, OneDelivery
<1>7. tx[s].rows \subseteq EventRow /\ tx[s].muted \subseteq LowerCase /\ tx[s].batch \in Batches
      /\ tx[s].first \in Nat
  BY <1>1, SMT DEF Delivery
<1> DEFINE entry == [valid |-> TRUE, batch |-> tx[s].batch, mapped |-> tx[s].first]
<1>8. raw' = raw \/ raw' = Append(raw, entry)
  BY DEF W!Commit, W!MappedEvent
<1>9. WebhookTypes'
  <2>1. tx' \in [Sessions -> Delivery \cup {W!Idle}]
    BY <1>0, <1>3, OneDelivery
  <2>2. entry \in Trail
    BY <1>7, SMT DEF Trail
  <2>3. raw \in Seq(Trail)
    BY <1>0 DEF WebhookTypes
  <2> HIDE DEF entry
  <2>4. raw' \in Seq(Trail)
    BY <1>8, <2>2, <2>3, SMT
  <2> QED
    BY <1>0, <1>3, <1>7, <2>1, <2>4 DEF WebhookTypes
<1>10. AllCarried'
  <2> SUFFICES ASSUME NEW t \in Sessions, tx'[t] # W!Idle
               PROVE  Carried(tx'[t], W!Ids', suppressed')
    BY DEF AllCarried
  <2>1. t # s /\ tx'[t] = tx[t]
    BY <1>6
  <2>2. Carried(tx[t], W!Ids, suppressed) /\ IdsOf(tx[t].rows) \cap own = {}
    BY <1>0, <1>1, <2>1 DEF AllCarried, Apart
  <2> HIDE DEF own
  <2>3. suppressed \subseteq suppressed'
    BY <1>3
  <2>4. Carried(tx[t], W!Ids \cup own, suppressed')
    BY <2>2, <2>3, CarriedGrows
  <2> QED
    BY <1>4, <2>1, <2>4
<1>11. Apart'
  BY <1>0, <1>6 DEF Apart
<1>12. MailSound'
  BY <1>0, <1>3 DEF MailSound
<1>13. Genuine' /\ Stored'
  <2>1. \A r \in W!Reports(tx[s].batch) : Sent(r)
    BY <1>7 DEF W!Reports, Sent, In
  <2>2. \A e \in tx[s].rows : \E r : Sent(r) /\ W!Records(e, r)
    BY <1>2, <2>1 DEF Carried
  <2> QED
    BY <1>0, <1>3, <1>4, <1>5, <2>1, <2>2 DEF Genuine, Stored
<1>14. W!StoredMeansSuppressed'
  <2> SUFFICES ASSUME NEW e \in events', Suppressing(e) PROVE lower[e.who] \in suppressed'
    BY DEF W!StoredMeansSuppressed, Suppressing, W!SuppressionReasonFor
  <2>1. CASE e \in events
    BY <1>0, <1>3, <2>1 DEF W!StoredMeansSuppressed, Suppressing, W!SuppressionReasonFor
  <2>2. CASE e \in tx[s].rows
    BY <1>1, <1>2, <1>3, <2>2 DEF Carried, Suppressing
  <2> QED
    BY <1>3, <2>1, <2>2
<1>15. W!RawAccounts'
  <2>1. CASE raw' = raw
    BY <1>0, <1>4, <2>1 DEF W!RawAccounts
  <2>2. CASE raw' = Append(raw, entry)
    <3>1. entry \in Trail /\ entry.mapped = tx[s].first /\ entry.batch = tx[s].batch
      BY <1>7, SMT DEF Trail
    <3>2. tx[s].first # 0 => tx[s].first \notin W!Ids /\ tx[s].first \in own
      BY <1>2 DEF Carried
    <3>3. own \subseteq KeysOf(W!Reports(tx[s].batch))
      BY <1>2 DEF Carried, IdsOf, KeysOf, W!Records
    <3>4. KeysOf(W!Reports(tx[s].batch)) \subseteq W!Ids'
      BY <1>5 DEF KeysOf
    <3> HIDE DEF entry, own
    <3> QED
      BY <1>0, <1>4, <2>2, <3>1, <3>2, <3>3, <3>4, TrailGrows
  <2> QED
    BY <1>8, <2>1, <2>2
<1> QED
  BY <1>9, <1>10, <1>11, <1>12, <1>13, <1>14, <1>15 DEF WebhookInv, Kept

\* A step that touches no transaction, adds no event and only lengthens the list.
LEMMA PublicStep ==
  ASSUME WebhookInv, UNCHANGED <<events, acked, tx>>, suppressed \subseteq suppressed',
         suppressed' \subseteq LowerCase, raw' \in Seq(Trail), W!RawAccounts', MailSound'
  PROVE  WebhookInv'
<1>0. /\ WebhookTypes /\ AllCarried /\ Apart
      /\ Genuine /\ Stored /\ W!StoredMeansSuppressed
  BY DEF WebhookInv, Kept
<1>1. W!Ids' = W!Ids
  BY DEF W!Ids
<1>2. WebhookTypes' /\ Apart'
  BY <1>0 DEF WebhookTypes, Apart
<1>3. AllCarried'
  <2> SUFFICES ASSUME NEW t \in Sessions, tx[t] # W!Idle PROVE Carried(tx[t], W!Ids, suppressed')
    BY <1>1 DEF AllCarried
  <2>1. Carried(tx[t], W!Ids, suppressed)
    BY <1>0 DEF AllCarried
  <2>2. Carried(tx[t], W!Ids \cup {}, suppressed')
    BY <2>1, CarriedGrows
  <2>3. W!Ids \cup {} = W!Ids
    OBVIOUS
  <2> QED
    BY <2>2, <2>3
<1>4. Genuine' /\ Stored' /\ W!StoredMeansSuppressed'
  BY <1>0, <1>1 DEF Genuine, Stored, W!StoredMeansSuppressed
<1> QED
  BY <1>2, <1>3, <1>4 DEF WebhookInv, Kept

\* A refused POST leaves an entry that names no event.
LEMMA RejectStep ==
  ASSUME WebhookInv, NEW batch \in Batches, W!Reject(batch)
  PROVE  WebhookInv'
<1> DEFINE entry == [valid |-> FALSE, batch |-> batch, mapped |-> 0]
<1>1. /\ raw' = Append(raw, entry)
      /\ UNCHANGED <<events, acked, tx, suppressed, mail>>
  BY DEF W!Reject
<1>2. entry \in Trail /\ entry.mapped = 0 /\ entry.valid = FALSE
  BY SMT DEF Trail
<1>3. WebhookTypes /\ MailSound /\ W!RawAccounts /\ raw \in Seq(Trail) /\ suppressed \subseteq LowerCase
  BY DEF WebhookInv, WebhookTypes
<1>4. W!Ids' = W!Ids
  BY <1>1 DEF W!Ids
<1> HIDE DEF entry
<1>5. raw' \in Seq(Trail)
  BY <1>1, <1>2, <1>3, SMT
<1>6. W!RawAccounts'
  BY <1>1, <1>2, <1>3, <1>4, TrailGrows
<1>7. MailSound'
  BY <1>1, <1>3 DEF MailSound
<1> QED
  BY <1>1, <1>3, <1>5, <1>6, <1>7, PublicStep

\* The unsubscribe link, and a mail batch begun, loaded and sent.
LEMMA ListStep ==
  ASSUME WebhookInv,
         \/ \E a \in Addresses : W!Unsubscribe(a)
         \/ W!BeginBatch \/ W!LoadSuppressedEmails \/ W!SendBatch
  PROVE  WebhookInv'
<1>0. /\ WebhookTypes /\ MailSound /\ W!RawAccounts /\ raw \in Seq(Trail)
      /\ suppressed \subseteq LowerCase
  BY DEF WebhookInv, WebhookTypes
<1>1. UNCHANGED <<events, acked, tx, raw>>
  BY DEF W!Unsubscribe, W!BeginBatch, W!LoadSuppressedEmails, W!SendBatch
<1>2. W!Ids' = W!Ids /\ W!RawAccounts'
  BY <1>0, <1>1 DEF W!Ids, W!RawAccounts
<1>3. /\ suppressed \subseteq suppressed' /\ suppressed' \subseteq LowerCase
  <2>1. CASE \E a \in Addresses : W!Unsubscribe(a)
    <3>1. PICK a \in Addresses : W!Unsubscribe(a)
      BY <2>1
    <3>2. suppressed' = suppressed \cup {lower[a]}
      BY <3>1 DEF W!Unsubscribe, W!TokenIdentifier
    <3>3. lower[a] \in LowerCase
      BY LowerAssumption DEF LowerCase
    <3> QED
      BY <1>0, <3>2, <3>3
  <2>2. CASE W!BeginBatch \/ W!LoadSuppressedEmails \/ W!SendBatch
    BY <1>0, <2>2 DEF W!BeginBatch, W!LoadSuppressedEmails, W!SendBatch
  <2> QED
    BY <2>1, <2>2
<1>4. MailSound'
  <2>1. CASE \E a \in Addresses : W!Unsubscribe(a)
    <3>1. mail' = mail
      BY <2>1 DEF W!Unsubscribe
    <3> QED
      BY <1>0, <1>3, <3>1 DEF MailSound
  <2>2. CASE W!BeginBatch
    <3>1. mail'.phase = "begun" /\ mail'.known = suppressed /\ suppressed' = suppressed
      BY <2>2, SMT DEF W!BeginBatch
    <3> QED
      BY <3>1 DEF MailSound
  <2>3. CASE W!LoadSuppressedEmails
    <3>1. /\ mail'.phase = "loaded" /\ mail'.known = mail.known /\ suppressed' = suppressed
          /\ mail'.to = {a \in Audience : lower[a] \notin suppressed} /\ mail.phase = "begun"
      BY <2>3, SMT DEF W!LoadSuppressedEmails
    <3>2. mail.known \subseteq suppressed
      BY <1>0, <3>1, SMT DEF MailSound, W!NoMail
    <3> QED
      BY <3>1, <3>2, BatchesAssumption DEF MailSound
  <2>4. CASE W!SendBatch
    <3>1. mail' = W!NoMail /\ W!NoMail.phase = "none"
      BY <2>4, SMT DEF W!SendBatch, W!NoMail
    <3> QED
      BY <3>1 DEF MailSound
  <2> QED
    BY <2>1, <2>2, <2>3, <2>4
<1> QED
  BY <1>0, <1>1, <1>2, <1>3, <1>4, PublicStep

\* Every step of the receivers, the link and the mail batches.
LEMMA WebhookStep == ASSUME WebhookInv, [W!Next]_(W!vars) PROVE WebhookInv'
<1>1. CASE UNCHANGED W!vars
  <2>1. UNCHANGED <<events, raw, suppressed, acked, mail, tx>>
    BY <1>1 DEF W!vars
  <2> QED
    BY <2>1, PublicStep DEF WebhookInv, WebhookTypes, MailSound, W!RawAccounts, W!Ids
<1>2. CASE W!Next
  BY <1>2, ReceiveStep, RejectStep, InsertEventStep, InsertSuppressionStep, WebhookCommitStep,
     WebhookRollbackStep, ListStep DEF W!Next
<1> QED
  BY <1>1, <1>2

\* The row with the key of an event that has an id of its own records that event.
LEMMA OwnRow ==
  ASSUME Genuine, NEW r, Sent(r), r.id # 0, NEW e \in events, e.id = W!Key(r)
  PROVE  W!Records(e, r)
<1>1. PICK q : Sent(q) /\ W!Records(e, q)
  BY DEF Genuine
<1>2. PICK b \in Batches : \E i \in DOMAIN b : b[i] = r
  BY DEF Sent, In
<1>3. PICK c \in Batches : \E j \in DOMAIN c : c[j] = q
  BY <1>1 DEF Sent, In
<1>4. r.id \in {q.id, q.msg}
  BY <1>1 DEF W!Records, W!Key
<1>5. q.kind = r.kind /\ q.who = r.who
  <2>1. PICK i \in DOMAIN b : b[i] = r
    BY <1>2
  <2>2. PICK j \in DOMAIN c : c[j] = q
    BY <1>3
  <2>3. b[i].id # 0 /\ b[i].id \in {c[j].id, c[j].msg}
    BY <1>4, <2>1, <2>2
  <2>4. c[j].kind = b[i].kind /\ c[j].who = b[i].who
    BY <2>3, EventIdsAssumption
  <2> QED
    BY <2>1, <2>2, <2>4
<1> QED
  BY <1>1, <1>5 DEF W!Records

\* What the invariant says of the events a provider was told are received.
LEMMA EventsSafe ==
  ASSUME WebhookInv
  PROVE  W!AckedIsKept /\ W!RawAccounts /\ W!OptOutsListed
<1>0. Genuine /\ Stored /\ W!StoredMeansSuppressed /\ W!RawAccounts
  BY DEF WebhookInv, Kept
<1>1. ASSUME NEW r \in acked
      PROVE  \E e \in events : e.id = W!Key(r) /\ (r.id # 0 => W!Records(e, r))
  <2>1. Sent(r) /\ W!Key(r) \in W!Ids
    BY <1>0 DEF Stored
  <2>2. PICK e \in events : e.id = W!Key(r)
    BY <2>1 DEF W!Ids
  <2> QED
    BY <1>0, <2>1, <2>2, OwnRow
<1>2. W!AckedIsKept
  BY <1>1 DEF W!AckedIsKept, W!Ids
<1>3. W!OptOutsListed
  <2> SUFFICES ASSUME NEW r \in acked, W!SuppressionReasonFor(r.kind), r.who # NoOne
               PROVE  \/ lower[r.who] \in suppressed
                      \/ \E e \in events : e.id = W!Key(r) /\ e.by = "uniform"
                      \/ r.id = 0 /\ \E e \in events : e.id = W!Key(r) /\ ~W!Records(e, r)
    BY DEF W!OptOutsListed, W!SuppressionReasonFor
  <2>1. PICK e \in events : e.id = W!Key(r) /\ (r.id # 0 => W!Records(e, r))
    BY <1>1
  <2>2. e.by \in {"uniform", "legacy"}
    BY SMT DEF WebhookInv, WebhookTypes, EventRow
  <2>3. CASE W!Records(e, r) /\ e.by = "legacy"
    BY <1>0, <2>3 DEF W!StoredMeansSuppressed, W!Records
  <2> QED
    BY <2>1, <2>2, <2>3
<1> QED
  BY <1>0, <1>2, <1>3

\* A batch that goes out was loaded after it began, so it holds nobody who was on the
\* list by then.
LEMMA MailStep ==
  ASSUME WebhookInv, [W!Next]_(W!vars)
  PROVE  W!SuppressedNotMailedStep
<1>1. MailSound /\ WebhookTypes
  BY DEF WebhookInv
<1>2. mailed' = mailed \/ (W!SendBatch /\ mail.phase = "loaded" /\ mailed' = mailed \cup ({calls} \X mail.to))
  BY <1>1 DEF W!Next, W!vars, W!Receive, W!Reject, W!InsertEvent, W!InsertSuppression, W!Commit,
     W!Rollback, W!Unsubscribe, W!BeginBatch, W!LoadSuppressedEmails, W!SendBatch
<1>3. CASE mailed' = mailed
  BY <1>3 DEF W!SuppressedNotMailedStep
<1>4. CASE mail.phase = "loaded" /\ mailed' = mailed \cup ({calls} \X mail.to)
  <2>1. mail.known \subseteq LowerCase /\ \A a \in mail.to : lower[a] \notin mail.known
    BY <1>1, <1>4, SMT DEF MailSound, WebhookTypes, W!NoMail
  <2>2. {lower[a] : a \in mail.known} = mail.known
    BY <2>1 DEF LowerCase
  <2>3. \A m \in {calls} \X mail.to : m[2] \in mail.to
    BY SMT
  <2> QED
    BY <1>4, <2>1, <2>2, <2>3 DEF W!SuppressedNotMailedStep
<1> QED
  BY <1>2, <1>3, <1>4

-----------------------------------------------------------------------------
\* The publishing of a post.

Outcomes == {"cached", "media_required", "published", "rejected", "unreachable", "revoked"}

\* A dispatch that has read the asset, one in the loop of publish_post, and one that
\* has its answer.
Loaded == [phase : {"loaded"}]
Calling == [phase : {"calling"}, attempt : Nat]
Told == [phase : {"answered"}, outcome : Outcomes, last : S!Answers \cup {"none"}, requests : Nat]
Dispatches == {S!Idle} \cup Loaded \cup Calling \cup Told

\* The types of the variables.
SocialTypes ==
  /\ provider \in S!Providers
  /\ sent \in BOOLEAN /\ overlapped \in BOOLEAN
  /\ posts \in Nat /\ doubts \in Nat /\ calls \in Nat
  /\ tx \in [Sessions -> Dispatches]

InFlight(t) == t.phase # "idle"
Landing(t) == t.phase = "answered" /\ t.outcome = "published"
Posting(t) == t.phase = "calling" \/ Landing(t)

\* No post is recorded or about to be, and another may still be made: the one call of
\* a connector that no dispatch builds has not been answered.
Open ==
  /\ ~sent /\ \A w \in Sessions : ~Landing(tx[w])
  /\ \/ provider \in S!Wired
     \/ calls = 0
     \/ \E w \in Sessions : tx[w].phase \in {"loaded", "calling"}

\* Without overlapping lookups one dispatch publishes at a time, while nothing is
\* recorded; and posts are accounted for by doubts, but for the one that landed.
Accounted ==
  ~overlapped =>
    /\ \A v, w \in Sessions : Posting(tx[v]) /\ Posting(tx[w]) => v = w
    /\ sent => \A w \in Sessions : ~Posting(tx[w])
    /\ posts <= doubts + 1
    /\ Open => posts <= doubts

\* A connector that no dispatch builds serves one call, and records nothing.
Single ==
  provider \notin S!Wired =>
    /\ ~sent
    /\ \A v, w \in Sessions : InFlight(tx[v]) /\ InFlight(tx[w]) => v = w
    /\ calls = 0 => \A w \in Sessions : ~InFlight(tx[w])

\* What one dispatch knows: the loop is within its budget, and the answer is the
\* provider's last.
Honest(t) ==
  /\ t.phase = "calling" => t.attempt <= MaxRetries
  /\ t.phase = "answered" =>
       /\ t.requests <= MaxRetries + 1
       /\ t.outcome = "revoked" => t.last \in {"401", "403", "oauth_400"}
       /\ t.outcome = "published" => t.last = "created"
       /\ t.outcome = "unreachable" => t.requests = MaxRetries + 1 \/ t.last = "501"

\* What was told, recorded and committed has its post.
Backed ==
  /\ \A w \in Sessions : /\ Honest(tx[w])
                         /\ Landing(tx[w]) => posts > 0
                         /\ tx[w].phase = "answered" /\ tx[w].outcome = "cached" => sent
  /\ sent => posts > 0
  /\ status = "published" => sent

\* The inductive invariant.
SocialInv == SocialTypes /\ Accounted /\ Single /\ Backed

\* The fields of a dispatch are those of its phase.
LEMMA Phases ==
  ASSUME NEW t \in Dispatches
  PROVE  /\ t.phase \in {"idle", "loaded", "calling", "answered"}
         /\ t.phase = "calling" => t.attempt \in Nat
         /\ t.phase = "answered" => t \in Told /\ t.outcome \in Outcomes /\ t.requests \in Nat
         /\ t = S!Idle <=> ~InFlight(t)
  BY SMT DEF Dispatches, Loaded, Calling, Told, S!Idle, InFlight

\* A step of one dispatch.
LEMMA OneDispatch ==
  ASSUME SocialTypes, NEW w \in Sessions, NEW v, tx' = [tx EXCEPT ![w] = v]
  PROVE  /\ tx'[w] = v
         /\ \A o \in Sessions : o # w => tx'[o] = tx[o]
         /\ \A o \in Sessions : tx[o] \in Dispatches
         /\ v \in Dispatches => tx' \in [Sessions -> Dispatches]
<1>1. tx \in [Sessions -> Dispatches]
  BY DEF SocialTypes
<1> QED
  BY <1>1

\* No call has been made: nothing is posted and nobody was told anything.
LEMMA SocialInit == ASSUME S!Init PROVE SocialInv
<1>1. \A w \in Sessions : tx[w] = S!Idle
  BY DEF S!Init
<1>2. S!Idle.phase = "idle" /\ S!Idle \in Dispatches
  BY SMT DEF S!Idle, Dispatches
<1>3. SocialTypes
  <2>1. tx \in [Sessions -> Dispatches]
    BY <1>2 DEF S!Init
  <2>2. posts \in Nat /\ doubts \in Nat /\ calls \in Nat
    BY SMT DEF S!Init
  <2> QED
    BY <2>1, <2>2 DEF S!Init, SocialTypes
<1>4. \A w \in Sessions : /\ ~Posting(tx[w]) /\ ~Landing(tx[w]) /\ ~InFlight(tx[w]) /\ Honest(tx[w])
                          /\ tx[w].phase # "answered"
  BY <1>1, <1>2 DEF Posting, Landing, InFlight, Honest
<1>5. Accounted
  <2>1. posts <= doubts /\ posts <= doubts + 1
    BY SMT DEF S!Init
  <2> QED
    BY <1>4, <2>1 DEF Accounted
<1>6. Single /\ Backed
  BY <1>4 DEF S!Init, Single, Backed
<1> QED
  BY <1>3, <1>5, <1>6 DEF SocialInv

\* The classification of an answer (_raise_for_status of the three connectors):
\* published is an answer with an identifier, revoked a refused token.
LEMMA Classified ==
  ASSUME provider \in S!Providers, NEW answer \in S!Answers
  PROVE  /\ S!RaiseForStatus(answer) \in {"published", "rejected", "unreachable", "revoked"}
         /\ S!RaiseForStatus(answer) = "published" <=> answer = "created"
         /\ S!RaiseForStatus(answer) = "revoked" => answer \in {"401", "403", "oauth_400"}
         /\ S!RaiseForStatus(answer) = "unreachable" => answer \in {"500", "501", "timeout"}
  BY DEF S!Providers, S!Answers, S!RaiseForStatus, S!LinkedInRaiseForStatus, S!XRaiseForStatus,
         S!MetaRaiseForStatus, S!RevokedStatus

\* A step of dispatch w that publishes nothing, and begins to only if nobody else is,
\* and after which a post may be made only if one might have been before.
LEMMA QuietStep ==
  ASSUME SocialInv, NEW w \in Sessions, NEW v \in Dispatches, tx' = [tx EXCEPT ![w] = v],
         UNCHANGED <<provider, sent, posts, doubts>>, status' # "published" \/ status' = status,
         overlapped' \in BOOLEAN, overlapped => overlapped', calls' \in Nat,
         Posting(v) /\ ~overlapped' => ~sent /\ \A o \in Sessions : ~Posting(tx[o]),
         ~Landing(tx[w]), ~Landing(v), Honest(v),
         v.phase = "answered" /\ v.outcome = "cached" => sent,
         provider \notin S!Wired =>
           /\ v.phase \in {"loaded", "calling"} => tx[w].phase = "loaded" \/ calls = 0
           /\ InFlight(v) => InFlight(tx[w]) \/ calls = 0
           /\ calls' = 0 => calls = 0 /\ ~InFlight(v)
  PROVE  SocialInv'
<1>0. SocialTypes /\ Accounted /\ Single /\ Backed
  BY DEF SocialInv
<1>1. /\ tx'[w] = v /\ \A o \in Sessions : o # w => tx'[o] = tx[o]
      /\ tx' \in [Sessions -> Dispatches]
  BY <1>0, OneDispatch
<1>2. SocialTypes'
  BY <1>0, <1>1 DEF SocialTypes
<1>3. Accounted'
  <2> SUFFICES ASSUME ~overlapped'
               PROVE  /\ \A x, y \in Sessions : Posting(tx'[x]) /\ Posting(tx'[y]) => x = y
                      /\ sent => \A x \in Sessions : ~Posting(tx'[x])
                      /\ posts <= doubts + 1
                      /\ Open' => posts <= doubts
    BY DEF Accounted, Posting, Landing
  <2>1. /\ \A x, y \in Sessions : Posting(tx[x]) /\ Posting(tx[y]) => x = y
        /\ sent => \A x \in Sessions : ~Posting(tx[x])
        /\ posts <= doubts + 1 /\ (Open => posts <= doubts)
    BY <1>0 DEF Accounted
  <2>2. \A x, y \in Sessions : Posting(tx'[x]) /\ Posting(tx'[y]) => x = y
    BY <1>1, <2>1
  <2>3. sent => \A x \in Sessions : ~Posting(tx'[x])
    BY <1>1, <2>1
  <2>4. Open' => Open
    <3>1. (\A o \in Sessions : ~Landing(tx'[o])) => \A o \in Sessions : ~Landing(tx[o])
      BY <1>1
    <3>2. provider \notin S!Wired /\ (\E o \in Sessions : tx'[o].phase \in {"loaded", "calling"})
            => calls = 0 \/ \E o \in Sessions : tx[o].phase \in {"loaded", "calling"}
      BY <1>1
    <3> QED
      BY <3>1, <3>2 DEF Open, Landing
  <2> QED
    BY <2>1, <2>2, <2>3, <2>4
<1>4. Single'
  <2> SUFFICES ASSUME provider \notin S!Wired
               PROVE  /\ ~sent
                      /\ \A x, y \in Sessions : InFlight(tx'[x]) /\ InFlight(tx'[y]) => x = y
                      /\ calls' = 0 => \A x \in Sessions : ~InFlight(tx'[x])
    BY DEF Single, InFlight
  <2>1. /\ ~sent /\ \A x, y \in Sessions : InFlight(tx[x]) /\ InFlight(tx[y]) => x = y
        /\ calls = 0 => \A x \in Sessions : ~InFlight(tx[x])
    BY <1>0 DEF Single
  <2> QED
    BY <1>1, <2>1
<1>5. Backed'
  <2>1. \A o \in Sessions : Honest(tx'[o]) /\ (Landing(tx'[o]) => posts > 0)
                            /\ (tx'[o].phase = "answered" /\ tx'[o].outcome = "cached" => sent)
    BY <1>0, <1>1 DEF Backed
  <2> QED
    BY <1>0, <2>1 DEF Backed, Honest, Landing
<1> QED
  BY <1>2, <1>3, <1>4, <1>5 DEF SocialInv

\* dispatch_social_asset reads a scheduled asset.
LEMMA LoadAssetStep ==
  ASSUME SocialInv, NEW w \in Sessions, S!LoadAsset(w)
  PROVE  SocialInv'
<1> DEFINE v == [phase |-> "loaded"]
<1>1. v \in Dispatches /\ v.phase = "loaded"
  BY SMT DEF Dispatches, Loaded
<1>2. /\ tx' = [tx EXCEPT ![w] = v] /\ UNCHANGED <<provider, status, sent, posts, doubts, overlapped>>
      /\ calls' = calls + 1 /\ tx[w] = S!Idle /\ (provider \in S!Wired \/ calls = 0)
  BY DEF S!LoadAsset
<1> HIDE DEF v
<1>3. calls' \in Nat /\ calls' # 0 /\ overlapped \in BOOLEAN
  BY <1>2, SMT DEF SocialInv, SocialTypes
<1>4. ~Landing(v) /\ ~Posting(v) /\ Honest(v)
  BY <1>1 DEF Landing, Posting, Honest
<1>5. ~Landing(tx[w])
  BY <1>2, SMT DEF Landing, S!Idle
<1> QED
  BY <1>1, <1>2, <1>3, <1>4, <1>5, QuietStep

\* SocialPublishTool.call starts the loop only when no attempt is committed.
LEMMA CallStep ==
  ASSUME SocialInv, NEW w \in Sessions, NEW mediaMissing \in BOOLEAN, S!Call(w, mediaMissing)
  PROVE  SocialInv'
<1>0. /\ tx[w].phase = "loaded" /\ UNCHANGED <<provider, status, sent, posts, doubts, calls>>
  BY DEF S!Call
<1>1. /\ SocialTypes /\ Single /\ calls \in Nat /\ overlapped \in BOOLEAN
      /\ InFlight(tx[w]) /\ ~Landing(tx[w])
  BY <1>0 DEF SocialInv, SocialTypes, Landing, InFlight
<1>2. ASSUME NEW outcome \in {"cached", "media_required"}, outcome = "cached" => sent,
             tx' = [tx EXCEPT ![w] = S!Answered(outcome, "none", 0)], overlapped' = overlapped
      PROVE  SocialInv'
  <2> DEFINE v == S!Answered(outcome, "none", 0)
  <2>1. v \in Told /\ v.phase = "answered" /\ v.outcome = outcome /\ v.requests = 0
    BY SMT DEF S!Answered, Told, Outcomes
  <2>2. tx' = [tx EXCEPT ![w] = v]
    BY <1>2
  <2> HIDE DEF v
  <2>3. v \in Dispatches /\ ~Landing(v) /\ ~Posting(v)
    BY <2>1 DEF Dispatches, Landing, Posting
  <2>4. Honest(v)
    BY <2>1, RetriesAssumption, SMT DEF Honest
  <2> QED
    BY <1>0, <1>1, <1>2, <2>1, <2>2, <2>3, <2>4, QuietStep DEF Single
<1>3. ASSUME ~sent, tx' = [tx EXCEPT ![w] = S!Looping(0)],
             overlapped' = (overlapped \/ \E o \in Sessions : S!Publishing(o))
      PROVE  SocialInv'
  <2> DEFINE v == S!Looping(0)
  <2>1. v \in Calling /\ v.phase = "calling" /\ v.attempt = 0
    BY SMT DEF S!Looping, Calling
  <2>2. tx' = [tx EXCEPT ![w] = v]
    BY <1>3
  <2> HIDE DEF v
  <2>3. v \in Dispatches /\ ~Landing(v)
    BY <2>1 DEF Dispatches, Landing
  <2>4. Honest(v)
    BY <2>1, RetriesAssumption, SMT DEF Honest
  <2>5. /\ overlapped' \in BOOLEAN /\ (overlapped => overlapped')
        /\ ~overlapped' => \A o \in Sessions : ~Posting(tx[o])
    BY <1>3 DEF S!Publishing, Posting, Landing
  <2> QED
    BY <1>0, <1>1, <1>3, <2>1, <2>2, <2>3, <2>4, <2>5, QuietStep DEF Single
<1> QED
  BY <1>2, <1>3 DEF S!Call, S!Cached

\* While dispatch w is in the loop no post is accounted for but by a doubt.
LEMMA LoopIsOpen ==
  ASSUME SocialInv, ~overlapped, NEW w \in Sessions, tx[w].phase = "calling"
  PROVE  posts <= doubts
<1>1. Accounted /\ Posting(tx[w])
  BY DEF SocialInv, Posting
<1>2. ~sent /\ \A o \in Sessions : ~Landing(tx[o])
  <2>1. ~Landing(tx[w])
    BY DEF Landing
  <2> QED
    BY <1>1, <2>1 DEF Accounted, Posting
<1> QED
  BY <1>1, <1>2 DEF Accounted, Open

\* One request of publish_post: another round of the loop, or the answer.
LEMMA PublishStep ==
  ASSUME SocialInv, NEW w \in Sessions, NEW answer \in S!Answers, NEW accepted \in BOOLEAN,
         S!PublishPost(w, answer, accepted)
  PROVE  SocialInv'
<1> DEFINE k == tx[w].attempt
           again == answer \in S!RetryableStatus \cup {"timeout"} /\ S!MayRetry(k)
           v == IF again THEN S!Looping(k + 1) ELSE S!Answered(S!RaiseForStatus(answer), answer, k + 1)
<1>0. /\ SocialTypes /\ Accounted /\ Single /\ Backed
      /\ tx[w].phase = "calling" /\ UNCHANGED <<provider, status, sent, overlapped, calls>>
      /\ tx' = [tx EXCEPT ![w] = v]
  BY DEF SocialInv, S!PublishPost
<1>1. /\ tx'[w] = v /\ \A o \in Sessions : o # w => tx'[o] = tx[o]
      /\ v \in Dispatches => tx' \in [Sessions -> Dispatches]
      /\ tx[w] \in Dispatches
  BY <1>0, OneDispatch
<1>2. /\ posts' \in Nat /\ doubts' \in Nat /\ posts <= posts'
      /\ posts <= doubts /\ answer # "created" => posts' <= doubts'
      /\ posts <= doubts => posts' <= doubts' + 1
      /\ answer = "created" => posts' > 0
  BY <1>0, SMT DEF S!PublishPost, SocialTypes
<1>3. k \in Nat /\ k <= MaxRetries
  BY <1>0, <1>1, Phases DEF Backed, Honest
<1>4. /\ v \in Dispatches /\ v.phase \in {"calling", "answered"} /\ Honest(v)
      /\ Landing(v) <=> answer = "created"
      /\ ~(v.phase = "answered" /\ v.outcome = "cached")
  <2>1. CASE again
    <3>1. v = S!Looping(k + 1) /\ k < MaxRetries /\ answer # "created"
      BY <2>1 DEF S!MayRetry, S!RetryableStatus
    <3>2. v.phase = "calling" /\ v.attempt = k + 1 /\ v \in Calling
      BY <1>3, <3>1, SMT DEF S!Looping, Calling
    <3>3. v.attempt <= MaxRetries
      BY <1>3, <3>1, <3>2, RetriesAssumption, SMT
    <3> HIDE DEF v
    <3> QED
      BY <3>1, <3>2, <3>3 DEF Dispatches, Honest, Landing
  <2>2. CASE ~again
    <3> DEFINE outcome == S!RaiseForStatus(answer)
    <3>1. v = S!Answered(outcome, answer, k + 1)
      BY <2>2
    <3>2. /\ outcome \in {"published", "rejected", "unreachable", "revoked"}
          /\ outcome = "published" <=> answer = "created"
          /\ outcome = "revoked" => answer \in {"401", "403", "oauth_400"}
          /\ outcome = "unreachable" => answer \in {"500", "501", "timeout"}
      BY <1>0, Classified DEF SocialTypes
    <3>3. answer \in {"500", "timeout"} => ~S!MayRetry(k)
      BY <2>2 DEF S!RetryableStatus
    <3>4. answer \in {"500", "timeout"} => k = MaxRetries
      BY <1>3, <3>3, RetriesAssumption, SMT DEF S!MayRetry
    <3> HIDE DEF outcome, v
    <3>5. /\ v.phase = "answered" /\ v.outcome = outcome /\ v.last = answer
          /\ v.requests = k + 1 /\ v.requests \in Nat
      BY <1>3, <3>1, SMT DEF S!Answered
    <3>6. v \in Told
      BY <1>3, <3>1, <3>2, SMT DEF S!Answered, Told, Outcomes
    <3>7. v.requests <= MaxRetries + 1
      BY <1>3, <3>5, RetriesAssumption, SMT
    <3>8. outcome = "unreachable" => v.requests = MaxRetries + 1 \/ answer = "501"
      BY <3>2, <3>4, <3>5
    <3> QED
      BY <3>2, <3>5, <3>6, <3>7, <3>8 DEF Dispatches, Honest, Landing
  <2> QED
    BY <2>1, <2>2
<1> HIDE DEF v
<1>5. SocialTypes'
  BY <1>0, <1>1, <1>2, <1>4 DEF SocialTypes
<1>6. Accounted'
  <2> SUFFICES ASSUME ~overlapped
               PROVE  /\ \A x, y \in Sessions : Posting(tx'[x]) /\ Posting(tx'[y]) => x = y
                      /\ sent => \A x \in Sessions : ~Posting(tx'[x])
                      /\ posts' <= doubts' + 1
                      /\ Open' => posts' <= doubts'
    BY <1>0 DEF Accounted, Posting, Landing
  <2>1. /\ \A x, y \in Sessions : Posting(tx[x]) /\ Posting(tx[y]) => x = y
        /\ sent => \A x \in Sessions : ~Posting(tx[x])
        /\ Posting(tx[w])
    BY <1>0 DEF Accounted, Posting
  <2>2. posts <= doubts
    BY <1>0, LoopIsOpen
  <2>3. Open' => answer # "created"
    BY <1>1, <1>4 DEF Open, Landing
  <2> QED
    BY <1>1, <1>2, <2>1, <2>2, <2>3
<1>7. Single'
  <2>1. InFlight(tx[w])
    BY <1>0 DEF InFlight
  <2> QED
    BY <1>0, <1>1, <2>1 DEF Single, InFlight
<1>8. Backed'
  <2>1. posts > 0 => posts' > 0
    BY <1>0, <1>2, SMT DEF SocialTypes
  <2>2. \A o \in Sessions : Honest(tx'[o]) /\ (Landing(tx'[o]) => posts' > 0)
                            /\ (tx'[o].phase = "answered" /\ tx'[o].outcome = "cached" => sent)
    BY <1>0, <1>1, <1>2, <1>4, <2>1 DEF Backed
  <2> QED
    BY <1>0, <2>1, <2>2 DEF Backed, Honest, Landing
<1> QED
  BY <1>5, <1>6, <1>7, <1>8 DEF SocialInv

\* A dispatch ends: what it published becomes the attempt's, a doubt, or the one post
\* of a connector that no dispatch builds.
LEMMA LandedStep ==
  ASSUME SocialInv, NEW w \in Sessions, InFlight(tx[w]), tx' = [tx EXCEPT ![w] = S!Idle],
         UNCHANGED <<provider, posts, overlapped, calls>>,
         \/ /\ sent' = sent /\ doubts' = doubts /\ (status' # "published" \/ status' = status)
            /\ Landing(tx[w]) => provider \notin S!Wired
         \/ /\ sent' = sent /\ doubts' = doubts + 1 /\ status' = status
         \/ /\ sent' = TRUE /\ doubts' = doubts /\ provider \in S!Wired
            /\ tx[w].phase = "answered" /\ tx[w].outcome \in {"published", "cached"}
  PROVE  SocialInv'
<1>0. SocialTypes /\ Accounted /\ Single /\ Backed
  BY DEF SocialInv
<1>1. S!Idle.phase = "idle" /\ S!Idle \in Dispatches
  BY SMT DEF S!Idle, Dispatches
<1>2. /\ tx'[w].phase = "idle" /\ \A o \in Sessions : o # w => tx'[o] = tx[o]
      /\ tx' \in [Sessions -> Dispatches]
  BY <1>0, <1>1, OneDispatch
<1>3. doubts' \in Nat /\ doubts <= doubts' /\ (doubts' = doubts \/ doubts' = doubts + 1)
  BY <1>0, SMT DEF SocialTypes
<1>4. SocialTypes'
  BY <1>0, <1>2, <1>3 DEF SocialTypes
<1>5. \A o \in Sessions : /\ Posting(tx'[o]) => o # w /\ Posting(tx[o])
                          /\ Landing(tx'[o]) => o # w /\ Landing(tx[o])
                          /\ InFlight(tx'[o]) => o # w /\ InFlight(tx[o])
  BY <1>2 DEF Posting, Landing, InFlight
<1>6. tx[w].phase = "answered" /\ tx[w].outcome \in {"published", "cached"} => posts > 0
  BY <1>0 DEF Backed, Landing
<1>7. Accounted'
  <2> SUFFICES ASSUME ~overlapped
               PROVE  /\ \A x, y \in Sessions : Posting(tx'[x]) /\ Posting(tx'[y]) => x = y
                      /\ sent' => \A x \in Sessions : ~Posting(tx'[x])
                      /\ posts <= doubts' + 1
                      /\ Open' => posts <= doubts'
    BY DEF Accounted, Posting, Landing
  <2>1. /\ \A x, y \in Sessions : Posting(tx[x]) /\ Posting(tx[y]) => x = y
        /\ sent => \A x \in Sessions : ~Posting(tx[x])
        /\ posts <= doubts + 1 /\ (Open => posts <= doubts)
    BY <1>0 DEF Accounted
  <2>2. sent' => \A x \in Sessions : ~Posting(tx'[x])
    <3>1. CASE sent
      BY <1>5, <2>1, <3>1
    <3>2. CASE tx[w].phase = "answered" /\ tx[w].outcome \in {"published", "cached"}
      BY <1>0, <1>5, <2>1, <3>2 DEF Backed, Posting, Landing
    <3>3. sent' = sent \/ (tx[w].phase = "answered" /\ tx[w].outcome \in {"published", "cached"})
      OBVIOUS
    <3>4. sent' = sent => (sent' => sent)
      OBVIOUS
    <3> QED
      BY <3>1, <3>2, <3>3, <3>4
  <2>3. posts <= doubts' + 1
    <3>1. posts \in Nat /\ doubts \in Nat
      BY <1>0 DEF SocialTypes
    <3>2. \A p, d, e \in Nat : p <= d + 1 /\ d <= e => p <= e + 1
      BY SMT
    <3> QED
      BY <1>3, <2>1, <3>1, <3>2
  <2>4. ASSUME Open' PROVE posts <= doubts'
    <3>1. CASE doubts' = doubts + 1
      BY <2>1, <3>1
    <3>2. CASE doubts' = doubts
      <4>1. ~sent' /\ ~sent
        BY <1>0, <1>3, <2>4, <3>2 DEF Open, SocialTypes
      <4>2. provider \in S!Wired
        BY <1>0, <1>5, <1>2, <2>4 DEF Open, Single, InFlight
      <4>3. Open
        BY <1>0, <1>3, <1>2, <2>4, <3>2, <4>1, <4>2, SMT DEF Open, Landing, SocialTypes
      <4> QED
        BY <2>1, <3>2, <4>3
    <3> QED
      BY <1>3, <3>1, <3>2
  <2> QED
    BY <1>5, <2>1, <2>2, <2>3, <2>4
<1>8. Single'
  BY <1>0, <1>5 DEF Single, InFlight
<1>9. Backed'
  <2>1. sent => sent'
    OBVIOUS
  <2>2. \A o \in Sessions : Honest(tx'[o]) /\ (Landing(tx'[o]) => posts > 0)
                            /\ (tx'[o].phase = "answered" /\ tx'[o].outcome = "cached" => sent')
    BY <1>0, <1>2, <2>1 DEF Backed, Honest, Landing
  <2>3. sent' => posts > 0
    BY <1>0, <1>6 DEF Backed
  <2>4. status' = "published" => sent'
    BY <1>0, <2>1 DEF Backed
  <2> QED
    BY <2>2, <2>3, <2>4 DEF Backed, Honest, Landing
<1> QED
  BY <1>4, <1>7, <1>8, <1>9 DEF SocialInv

\* The commit of the attempt, and a dispatch that dies before it.
LEMMA DispatchEnds ==
  ASSUME SocialInv, NEW w \in Sessions, S!CommitAttempt(w) \/ S!Crash(w)
  PROVE  SocialInv'
<1>0. tx[w] \in Dispatches /\ doubts \in Nat
  BY DEF SocialInv, SocialTypes
<1>1. CASE S!CommitAttempt(w)
  <2>1. /\ tx[w].phase = "answered" /\ tx' = [tx EXCEPT ![w] = S!Idle]
        /\ UNCHANGED <<provider, posts, doubts, overlapped, calls>>
    BY <1>1 DEF S!CommitAttempt
  <2>2. InFlight(tx[w])
    BY <2>1 DEF InFlight
  <2>3. CASE provider \in S!Wired /\ S!Recorded(tx[w].outcome)
    BY <1>1, <2>1, <2>2, <2>3, LandedStep DEF S!CommitAttempt, S!Recorded
  <2>4. CASE ~(provider \in S!Wired /\ S!Recorded(tx[w].outcome))
    <3>1. sent' = sent /\ (status' # "published" \/ status' = status)
      BY <1>1, <2>4 DEF S!CommitAttempt
    <3>2. Landing(tx[w]) => provider \notin S!Wired
      BY <2>4 DEF Landing, S!Recorded
    <3> QED
      BY <2>1, <2>2, <3>1, <3>2, LandedStep
  <2> QED
    BY <2>3, <2>4
<1>2. CASE S!Crash(w)
  <2>1. /\ tx[w] # S!Idle /\ tx' = [tx EXCEPT ![w] = S!Idle]
        /\ UNCHANGED <<provider, status, sent, posts, overlapped, calls>>
    BY <1>2 DEF S!Crash
  <2>2. InFlight(tx[w])
    BY <1>0, <2>1, Phases
  <2>3. doubts' = doubts + (IF S!Publishing(w) /\ tx[w].phase = "answered" THEN 1 ELSE 0)
    BY <1>2 DEF S!Crash
  <2>4. CASE Landing(tx[w])
    <3>1. doubts' = doubts + 1
      BY <2>3, <2>4 DEF S!Publishing, Landing
    <3> QED
      BY <2>1, <2>2, <3>1, LandedStep
  <2>5. CASE ~Landing(tx[w])
    <3>1. doubts' = doubts + 0
      BY <2>3, <2>5 DEF S!Publishing, Landing
    <3>2. doubts' = doubts
      BY <1>0, <3>1, SMT
    <3> QED
      BY <2>1, <2>2, <2>5, <3>2, LandedStep
  <2> QED
    BY <2>4, <2>5
<1> QED
  BY <1>1, <1>2

\* A post beyond the first has its doubt, and callers are told the truth.
LEMMA PostsAccounted == ASSUME SocialInv PROVE S!DuplicatesNeedDoubt /\ S!ToldTheTruth
<1>1. posts \in Nat /\ doubts \in Nat /\ (overlapped \/ posts <= doubts + 1)
  BY DEF SocialInv, SocialTypes, Accounted
<1>2. S!DuplicatesNeedDoubt
  BY <1>1, SMT DEF S!DuplicatesNeedDoubt
<1>3. S!ToldTheTruth
  BY DEF SocialInv, Backed, Honest, Landing, S!ToldTheTruth
<1> QED
  BY <1>2, <1>3

\* Every step of the tool, the connectors and the dispatch preserves the invariant.
LEMMA SocialStep == ASSUME SocialInv, [S!Next]_(S!vars) PROVE SocialInv'
<1>1. CASE UNCHANGED S!vars
  BY <1>1 DEF S!vars, SocialInv, SocialTypes, Accounted, Open, Single, Backed, Posting, Landing,
     Honest, InFlight
<1>2. CASE S!Next
  BY <1>2, LoadAssetStep, CallStep, PublishStep, DispatchEnds
  DEF S!Next, S!LinkedInPublishPost, S!MetaPublishPost, S!XPublishPost
<1> QED
  BY <1>1, <1>2

-----------------------------------------------------------------------------
\* The connected accounts.

Credential == [kind : O!Kinds, token : Nat]
Storing == [op : {"store"}, kind : O!Kinds, token : Nat, row : Nat, state : SUBSET (Nat \X Nat)]
Copying == [op : {"channel"}, token : Nat]
Refreshing == [op : {"refresh"}, old : Nat, token : Nat, row : Nat]
Request == Storing \cup Copying \cup Refreshing

ConnectionTypes ==
  /\ grant \in Nat /\ cookie \in Nat /\ states \in Nat /\ calls \in Nat
  /\ redirects \subseteq [state : Nat, grant : Nat]
  /\ taken \subseteq Nat \X Nat
  /\ rows \in Seq(Credential)
  /\ tx \in [Sessions -> {O!Idle} \cup Request]

\* The row a request found is still there: nothing deletes a credential.  Only the
\* callback of an OAuth provider holds a state.
RowKnown(t, known) ==
  /\ t \in Storing => t.row \in known \cup {0} /\ (t.state = {} \/ t.kind = "oauth")
  /\ t \in Refreshing => t.row \in known
RowsKnown == \A s \in Sessions : RowKnown(tx[s], DOMAIN rows)

\* A callback holds a state that was parked and that no callback brought in before.
Unused(t, parked, used) ==
  t \in Storing =>
    /\ \A x, y \in t.state : x = y
    /\ \A x \in t.state : x[1] \in 1 .. parked /\ \A y \in used : y[1] # x[1]

\* As long as no two requests overlapped, one is in flight at most; and neither the
\* parked state nor the one in flight has let a callback in.
Serial ==
  ~raced =>
    /\ \A s, t \in Sessions : tx[s] # O!Idle /\ tx[t] # O!Idle => s = t
    /\ \A s \in Sessions : Unused(tx[s], states, taken)
    /\ \A x \in taken : x[1] \in 1 .. states /\ x[1] # cookie
    /\ \A x, y \in taken : x[1] = y[1] => x = y

\* The inductive invariant.
ConnectionInv ==
  ConnectionTypes /\ cookie <= states /\ RowsKnown /\ O!OneCredential /\ Serial

LEMMA IdleIsNoRequest == O!Idle \notin Request
  BY SMT DEF O!Idle, Request, Storing, Copying, Refreshing

LEMMA ConnectionInit == ASSUME O!Init PROVE ConnectionInv
<1>1. ConnectionTypes /\ cookie <= states
  BY SMT DEF O!Init, ConnectionTypes
<1>2. \A s \in Sessions : tx[s] = O!Idle
  BY DEF O!Init
<1>3. RowsKnown /\ Serial
  BY <1>2, IdleIsNoRequest DEF O!Init, RowsKnown, RowKnown, Serial, Unused, Request
<1>4. O!OneCredential
  BY SMT DEF O!Init, O!OneCredential, O!RowsOf
<1> QED
  BY <1>1, <1>3, <1>4 DEF ConnectionInv

\* What a lookup finds is a row of the table, or 0.
LEMMA RowFound == \A kind : O!RowOf(kind) \in DOMAIN rows \cup {0}
  BY DEF O!RowOf, O!RowsOf

\* The steps of the admin and of the provider: a connect parks a state no callback has
\* used, a mismatch drops the parked one.
LEMMA OutsideStep ==
  ASSUME ConnectionInv,
         \/ O!Connect \/ O!Revoke
         \/ \E n \in 1 .. states : O!Consent(n)
         \/ \E r \in redirects : O!CallbackMismatch(r)
  PROVE  ConnectionInv'
<1>0. ConnectionTypes /\ cookie <= states /\ RowsKnown /\ O!OneCredential /\ Serial
  BY DEF ConnectionInv
<1>1. UNCHANGED <<rows, taken, raced, tx>>
  BY DEF O!Connect, O!Revoke, O!Consent, O!CallbackMismatch
<1>2. /\ grant' \in Nat /\ calls' \in Nat /\ states' \in Nat /\ states <= states'
      /\ \/ cookie' \in {cookie, 0}
         \/ cookie' = states + 1 /\ states' = states + 1
  <2>1. \/ states' = states /\ cookie' \in {cookie, 0}
        \/ states' = states + 1 /\ cookie' = states + 1
    BY DEF O!Connect, O!Revoke, O!Consent, O!CallbackMismatch
  <2>2. grant' \in {grant, grant + 1} /\ calls' \in {calls, calls + 1}
    BY DEF O!Connect, O!Revoke, O!Consent, O!CallbackMismatch
  <2> QED
    <3>1. grant \in Nat /\ calls \in Nat /\ states \in Nat
      BY <1>0 DEF ConnectionTypes
    <3>2. states' \in {states, states + 1}
      BY <2>1
    <3>3. grant' \in Nat /\ calls' \in Nat /\ states' \in Nat /\ states <= states'
      BY <2>2, <3>1, <3>2, SMT
    <3> QED
      BY <2>1, <3>3
<1>3. redirects' \subseteq [state : Nat, grant : Nat]
  BY <1>0, SMT DEF ConnectionTypes, O!Connect, O!Revoke, O!Consent, O!CallbackMismatch
<1>4. cookie' \in Nat /\ cookie' <= states'
  BY <1>0, <1>2, SMT DEF ConnectionTypes
<1>5. ConnectionTypes' /\ RowsKnown' /\ O!OneCredential'
  BY <1>0, <1>1, <1>2, <1>3, <1>4 DEF ConnectionTypes, RowsKnown, O!OneCredential, O!RowsOf
<1>6. Serial'
  <2> SUFFICES ASSUME ~raced PROVE Serial'
    BY <1>1 DEF Serial
  <2>1. \A n \in 1 .. states : n \in 1 .. states' /\ n # states + 1 /\ n # 0
    BY <1>0, <1>2, SMT DEF ConnectionTypes
  <2>2. \A s \in Sessions : Unused(tx[s], states', taken)
    BY <1>0, <2>1 DEF Serial, Unused
  <2>3. \A x \in taken : x[1] \in 1 .. states' /\ x[1] # cookie'
    BY <1>0, <1>2, <2>1 DEF Serial
  <2> QED
    BY <1>0, <1>1, <2>2, <2>3 DEF Serial
<1> QED
  BY <1>4, <1>5, <1>6 DEF ConnectionInv

\* A request begins: if another is in flight the run is raced from now on.
LEMMA BeginStep ==
  ASSUME ConnectionInv, NEW s \in Sessions, NEW t \in Request, O!Begin(s, t),
         UNCHANGED <<cookie, states, redirects, taken, rows>>, grant' \in Nat,
         RowKnown(t, DOMAIN rows), ~raced => Unused(t, states, taken)
  PROVE  ConnectionInv'
<1>0. ConnectionTypes /\ cookie <= states /\ RowsKnown /\ O!OneCredential /\ Serial
  BY DEF ConnectionInv
<1>1. tx' = [tx EXCEPT ![s] = t] /\ calls' = calls + 1 /\ raced' = O!Overlaps
  BY DEF O!Begin
<1>2. calls' \in Nat
  BY <1>0, <1>1, SMT DEF ConnectionTypes
<1>3. tx'[s] = t /\ \A o \in Sessions \ {s} : tx'[o] = tx[o]
  BY <1>0, <1>1 DEF ConnectionTypes
<1>4. ConnectionTypes' /\ RowsKnown' /\ O!OneCredential'
  BY <1>0, <1>1, <1>2, <1>3 DEF ConnectionTypes, RowsKnown, O!OneCredential, O!RowsOf
<1>5. Serial'
  <2> SUFFICES ASSUME ~raced' PROVE Serial'
    BY DEF Serial
  <2>1. ~raced /\ \A o \in Sessions : tx[o] = O!Idle
    BY <1>1 DEF O!Overlaps
  <2>2. \A o \in Sessions : Unused(tx'[o], states, taken)
    BY <1>0, <1>3, <2>1 DEF Serial
  <2> QED
    BY <1>0, <1>3, <2>1, <2>2 DEF Serial
<1> QED
  BY <1>0, <1>4, <1>5 DEF ConnectionInv

\* A request ends, with a row written or not.
LEMMA CloseStep ==
  ASSUME ConnectionInv, NEW s \in Sessions, O!Close(s),
         UNCHANGED <<grant, states, redirects>>,
         rows' \in Seq(Credential), DOMAIN rows \subseteq DOMAIN rows', O!OneCredential',
         cookie' \in {cookie, 0}, taken' \subseteq Nat \X Nat,
         \/ taken' = taken
         \/ tx[s] \in Storing /\ taken' = taken \cup tx[s].state /\ cookie' = 0
  PROVE  ConnectionInv'
<1>0. ConnectionTypes /\ cookie <= states /\ RowsKnown /\ Serial
  BY DEF ConnectionInv
<1>1. tx' = [tx EXCEPT ![s] = O!Idle] /\ UNCHANGED <<calls, raced>>
  BY DEF O!Close
<1>2. tx'[s] = O!Idle /\ \A o \in Sessions \ {s} : tx'[o] = tx[o]
  BY <1>0, <1>1 DEF ConnectionTypes
<1>3. cookie' \in Nat /\ cookie' <= states'
  BY <1>0, SMT DEF ConnectionTypes
<1>4. ConnectionTypes'
  BY <1>0, <1>1, <1>2, <1>3 DEF ConnectionTypes
<1>5. RowsKnown'
  <2> SUFFICES ASSUME NEW o \in Sessions PROVE RowKnown(tx'[o], DOMAIN rows')
    BY DEF RowsKnown
  <2> QED
    BY <1>0, <1>2, IdleIsNoRequest DEF RowsKnown, RowKnown, Request
<1>6. Serial'
  <2> SUFFICES ASSUME ~raced PROVE Serial'
    BY <1>1 DEF Serial
  <2>1. CASE taken' = taken
    <3>1. \A x \in taken : x[1] # cookie'
      <4>1. \A n \in 1 .. states : n # 0
        BY <1>0, SMT DEF ConnectionTypes
      <4> QED
        BY <1>0, <4>1 DEF Serial
    <3>2. \A o \in Sessions : Unused(tx'[o], states, taken)
      BY <1>0, <1>2, IdleIsNoRequest DEF Serial, Unused, Request
    <3> QED
      BY <1>0, <1>2, <2>1, <3>1, <3>2 DEF Serial
  <2>2. CASE tx[s] \in Storing /\ taken' = taken \cup tx[s].state /\ cookie' = 0
    <3>1. \A o \in Sessions : tx'[o] = O!Idle
      BY <1>0, <1>2, <2>2, IdleIsNoRequest DEF Serial, Request
    <3>2. Unused(tx[s], states, taken)
      BY <1>0 DEF Serial
    <3>3. \A x, y \in taken' : x[1] = y[1] => x = y
      BY <1>0, <2>2, <3>2 DEF Serial, Unused
    <3>4. \A n \in 1 .. states : n # 0
      BY <1>0, SMT DEF ConnectionTypes
    <3>5. \A x \in taken' : x[1] \in 1 .. states /\ x[1] # cookie'
      BY <1>0, <2>2, <3>2, <3>4 DEF Serial, Unused
    <3>6. \A o \in Sessions : Unused(tx'[o], states', taken')
      BY <3>1, IdleIsNoRequest DEF Unused, Request
    <3> QED
      BY <3>1, <3>3, <3>5, <3>6 DEF Serial
  <2> QED
    BY <2>1, <2>2
<1> QED
  BY <1>3, <1>4, <1>5, <1>6 DEF ConnectionInv

\* Which requests an operation works on.
LEMMA Requests ==
  ASSUME ConnectionTypes, NEW s \in Sessions
  PROVE  /\ tx[s].op = "store" => tx[s] \in Storing
         /\ tx[s].op = "refresh" => tx[s] \in Refreshing
<1>1. tx[s] \in {O!Idle} \cup Request
  BY DEF ConnectionTypes
<1> QED
  BY <1>1, SMT DEF O!Idle, Request, Storing, Copying, Refreshing

LEMMA TokenOfRow ==
  ASSUME ConnectionInv, NEW i \in DOMAIN rows
  PROVE  rows[i] \in Credential /\ rows[i].token \in Nat
<1>1. rows \in Seq(Credential)
  BY DEF ConnectionInv, ConnectionTypes
<1>2. rows[i] \in Credential
  BY <1>1, SMT
<1> QED
  BY <1>2 DEF Credential

\* The callback, the mail configuration, the listing of pages and the refresh begin.
LEMMA BeginSteps ==
  ASSUME ConnectionInv, NEW s \in Sessions,
         \/ \E r \in redirects : O!Callback(s, r)
         \/ O!UpsertEmailConfig(s) \/ O!ListAuthorisedPages(s) \/ O!RefreshToken(s)
  PROVE  ConnectionInv'
<1>0. ConnectionTypes /\ cookie <= states /\ Serial
  BY DEF ConnectionInv
<1>1. /\ O!RowOf("oauth") \in DOMAIN rows \cup {0} /\ O!RowOf("oauth") \in Nat
      /\ O!RowOf("mail") \in DOMAIN rows \cup {0} /\ O!RowOf("mail") \in Nat
  <2>1. DOMAIN rows \subseteq Nat
    BY <1>0, SMT DEF ConnectionTypes
  <2> QED
    BY <2>1, RowFound, SMT
<1>2. ASSUME NEW r \in redirects, O!Callback(s, r) PROVE ConnectionInv'
  <2> DEFINE t == [op |-> "store", kind |-> "oauth", token |-> r.grant, row |-> O!RowOf("oauth"),
                   state |-> {<<r.state, calls>>}]
  <2>1. r.state \in Nat /\ r.grant \in Nat /\ calls \in Nat /\ r.state = cookie /\ cookie # 0
    BY <1>0, <1>2, SMT DEF ConnectionTypes, O!Callback, O!Matches
  <2>2. t \in Storing
    BY <1>1, <2>1, SMT DEF Storing, O!Kinds
  <2>3. /\ t.row = O!RowOf("oauth") /\ t.state = {<<r.state, calls>>} /\ t.op = "store"
        /\ t.kind = "oauth"
    OBVIOUS
  <2>4. O!Begin(s, t) /\ UNCHANGED <<cookie, states, redirects, taken, rows, grant>>
    BY <1>2 DEF O!Callback
  <2> HIDE DEF t
  <2>5. t \notin Refreshing
    BY <2>3, SMT DEF Refreshing
  <2>6. RowKnown(t, DOMAIN rows)
    BY <1>1, <2>3, <2>5 DEF RowKnown
  <2>7. cookie \in 1 .. states
    BY <1>0, <2>1, SMT DEF ConnectionTypes
  <2>8. \A x \in t.state : x[1] = cookie
    BY <2>1, <2>3, SMT
  <2>9. ~raced => Unused(t, states, taken)
    BY <1>0, <2>3, <2>7, <2>8 DEF Serial, Unused
  <2> QED
    BY <1>0, <2>2, <2>4, <2>6, <2>9, BeginStep DEF ConnectionTypes, Request
<1>3. CASE O!UpsertEmailConfig(s)
  <2> DEFINE t == [op |-> "store", kind |-> "mail", token |-> calls + 1, row |-> O!RowOf("mail"),
                   state |-> {}]
  <2>1. calls + 1 \in Nat
    BY <1>0, SMT DEF ConnectionTypes
  <2>2. t \in Storing
    BY <1>1, <2>1, SMT DEF Storing, O!Kinds
  <2>3. t.row = O!RowOf("mail") /\ t.state = {} /\ t.op = "store"
    OBVIOUS
  <2>4. O!Begin(s, t) /\ UNCHANGED <<cookie, states, redirects, taken, rows, grant>>
    BY <1>3 DEF O!UpsertEmailConfig
  <2> HIDE DEF t
  <2>5. t \notin Refreshing
    BY <2>3, SMT DEF Refreshing
  <2>6. RowKnown(t, DOMAIN rows) /\ Unused(t, states, taken)
    BY <1>1, <2>3, <2>5 DEF RowKnown, Unused
  <2> QED
    BY <1>0, <2>2, <2>4, <2>6, BeginStep DEF ConnectionTypes, Request
<1>4. CASE O!ListAuthorisedPages(s)
  <2> DEFINE t == [op |-> "channel", token |-> rows[O!RowOf("oauth")].token]
  <2>1. O!RowOf("oauth") \in DOMAIN rows /\ O!Begin(s, t)
        /\ UNCHANGED <<cookie, states, redirects, taken, rows, grant>>
    BY <1>1, <1>4 DEF O!ListAuthorisedPages
  <2>2. t \in Copying
    BY <2>1, TokenOfRow DEF Copying
  <2>3. t \notin Storing /\ t \notin Refreshing
    BY SMT DEF Storing, Refreshing
  <2> HIDE DEF t
  <2> QED
    BY <1>0, <2>1, <2>2, <2>3, BeginStep DEF ConnectionTypes, Request, RowKnown, Unused
<1>5. CASE O!RefreshToken(s)
  <2> DEFINE t == [op |-> "refresh", old |-> rows[O!RowOf("oauth")].token, token |-> grant + 1,
                   row |-> O!RowOf("oauth")]
  <2>1. O!RowOf("oauth") \in DOMAIN rows /\ O!Begin(s, t) /\ grant' = grant + 1
        /\ UNCHANGED <<cookie, states, redirects, taken, rows>>
    BY <1>1, <1>5 DEF O!RefreshToken
  <2>2. grant + 1 \in Nat
    BY <1>0, SMT DEF ConnectionTypes
  <2>3. t \in Refreshing
    BY <1>0, <1>1, <2>1, <2>2, TokenOfRow DEF Refreshing
  <2>4. t \notin Storing /\ t.row = O!RowOf("oauth")
    BY SMT DEF Storing
  <2> HIDE DEF t
  <2> QED
    BY <1>0, <2>1, <2>2, <2>3, <2>4, BeginStep DEF Request, RowKnown, Unused
<1> QED
  BY <1>2, <1>3, <1>4, <1>5

\* A row rewritten with another token keeps its place and its kind.
LEMMA RewrittenRow ==
  ASSUME rows \in Seq(Credential), O!OneCredential, NEW i \in DOMAIN rows, NEW token \in Nat,
         rows' = [rows EXCEPT ![i].token = token]
  PROVE  /\ rows' \in Seq(Credential) /\ DOMAIN rows' = DOMAIN rows /\ O!OneCredential'
         /\ rows'[i].token = token
<1> DEFINE new == [rows[i] EXCEPT !.token = token]
<1>1. rows[i] \in Credential
  BY SMT
<1>2. new \in Credential /\ new.kind = rows[i].kind /\ new.token = token
  BY <1>1, SMT DEF Credential
<1>3. rows' = [rows EXCEPT ![i] = new]
  BY SMT
<1> HIDE DEF new
<1>4. /\ rows' \in Seq(Credential) /\ DOMAIN rows' = DOMAIN rows
      /\ rows'[i] = new /\ \A j \in DOMAIN rows : j # i => rows'[j] = rows[j]
  BY <1>2, <1>3, SMT
<1>5. \A j \in DOMAIN rows : rows'[j].kind = rows[j].kind
  BY <1>2, <1>4
<1>6. \A kind : O!RowsOf(kind)' = O!RowsOf(kind)
  BY <1>4, <1>5 DEF O!RowsOf
<1> QED
  BY <1>2, <1>4, <1>6 DEF O!OneCredential

\* A credential is written: the unique index lets no second row of a kind in, and a
\* rewritten row keeps its kind.
LEMMA StoreStep ==
  ASSUME ConnectionInv, NEW s \in Sessions, O!StoreCredential(s)
  PROVE  ConnectionInv'
<1>0. ConnectionTypes /\ RowsKnown /\ O!OneCredential /\ rows \in Seq(Credential)
  BY DEF ConnectionInv, ConnectionTypes
<1>1. tx[s] \in Storing
  BY <1>0, Requests DEF O!StoreCredential
<1>2. tx[s].kind \in O!Kinds /\ tx[s].token \in Nat /\ tx[s].row \in DOMAIN rows \cup {0}
      /\ tx[s].state \subseteq Nat \X Nat
  BY <1>0, <1>1 DEF Storing, RowsKnown, RowKnown
<1>3. /\ O!Close(s) /\ UNCHANGED <<grant, states, redirects>>
      /\ taken' = taken \cup tx[s].state
      /\ cookie' = IF tx[s].kind = "oauth" THEN 0 ELSE cookie
  BY DEF O!StoreCredential, O!PopState
<1>4. rows' \in Seq(Credential) /\ DOMAIN rows \subseteq DOMAIN rows' /\ O!OneCredential'
  <2>1. CASE /\ tx[s].row = 0 /\ O!UniqueLabel(tx[s].kind)
             /\ rows' = Append(rows, [kind |-> tx[s].kind, token |-> tx[s].token])
    <3> DEFINE new == [kind |-> tx[s].kind, token |-> tx[s].token]
    <3>1. new \in Credential /\ new.kind = tx[s].kind /\ rows' = Append(rows, new)
      BY <1>2, <2>1 DEF Credential
    <3> HIDE DEF new
    <3>2. /\ rows' \in Seq(Credential) /\ DOMAIN rows' = DOMAIN rows \cup {Len(rows) + 1}
          /\ \A i \in DOMAIN rows : rows'[i] = rows[i]
          /\ rows'[Len(rows) + 1] = new
      BY <1>0, <3>1, SMT
    <3>3. PICK k : k = tx[s].kind
      OBVIOUS
    <3>4. /\ \A kind : kind # k => O!RowsOf(kind)' = O!RowsOf(kind)
          /\ \A i \in O!RowsOf(k)' : i = Len(rows) + 1
      <4>1. ASSUME NEW kind, kind # k PROVE O!RowsOf(kind)' = O!RowsOf(kind)
        BY <3>1, <3>2, <3>3, <4>1 DEF O!RowsOf
      <4>2. ASSUME NEW i \in O!RowsOf(k)' PROVE i = Len(rows) + 1
        BY <2>1, <3>2, <3>3 DEF O!RowsOf, O!UniqueLabel
      <4> QED
        BY <4>1, <4>2
    <3>5. O!OneCredential'
      BY <1>0, <3>4 DEF O!OneCredential
    <3> QED
      BY <3>2, <3>5
  <2>2. CASE tx[s].row # 0 /\ rows' = [rows EXCEPT ![tx[s].row].token = tx[s].token]
    BY <1>0, <1>2, <2>2, RewrittenRow
  <2> QED
    BY <2>1, <2>2 DEF O!StoreCredential
<1>5. taken' \subseteq Nat \X Nat
  BY <1>0, <1>2, <1>3 DEF ConnectionTypes
<1>6. taken' = taken \/ cookie' = 0
  BY <1>0, <1>1, <1>3 DEF RowsKnown, RowKnown
<1> QED
  BY <1>1, <1>3, <1>4, <1>5, <1>6, CloseStep

\* The tokens of a refresh are stored.
LEMMA RefreshedRow ==
  ASSUME ConnectionInv, NEW s \in Sessions, O!ListContacts(s)
  PROVE  /\ rows' \in Seq(Credential) /\ DOMAIN rows' = DOMAIN rows /\ O!OneCredential'
         /\ rows'[tx[s].row].token = tx[s].token
<1>0. ConnectionTypes /\ RowsKnown /\ O!OneCredential /\ rows \in Seq(Credential)
  BY DEF ConnectionInv, ConnectionTypes
<1>1. tx[s] \in Refreshing
  BY <1>0, Requests DEF O!ListContacts
<1>2. tx[s].row \in DOMAIN rows /\ tx[s].token \in Nat
  BY <1>0, <1>1 DEF RowsKnown, RowKnown, Refreshing
<1>3. rows' = [rows EXCEPT ![tx[s].row].token = tx[s].token]
  BY DEF O!ListContacts, O!Rotated
<1> QED
  BY <1>0, <1>2, <1>3, RewrittenRow

\* A channel is made, the rotated tokens are stored, or a request fails.
LEMMA EndSteps ==
  ASSUME ConnectionInv, NEW s \in Sessions,
         O!CreateChannel(s) \/ O!ListContacts(s) \/ O!Rollback(s)
  PROVE  ConnectionInv'
<1>0. ConnectionTypes /\ RowsKnown /\ O!OneCredential /\ rows \in Seq(Credential)
  BY DEF ConnectionInv, ConnectionTypes
<1>1. O!Close(s) /\ UNCHANGED <<grant, states, redirects, cookie, taken>>
  BY DEF O!CreateChannel, O!ListContacts, O!Rollback
<1>2. rows' \in Seq(Credential) /\ DOMAIN rows \subseteq DOMAIN rows' /\ O!OneCredential'
  <2>1. CASE rows' = rows
    BY <1>0, <2>1 DEF O!OneCredential, O!RowsOf
  <2>2. CASE O!ListContacts(s)
    BY <1>0, <2>2, RefreshedRow
  <2> QED
    BY <2>1, <2>2 DEF O!CreateChannel, O!Rollback
<1> QED
  BY <1>0, <1>1, <1>2, CloseStep DEF ConnectionTypes

LEMMA ConnectionStep == ASSUME ConnectionInv, [O!Next]_(O!vars) PROVE ConnectionInv'
<1>1. CASE UNCHANGED O!vars
  BY <1>1 DEF O!vars, ConnectionInv, ConnectionTypes, RowsKnown, O!OneCredential, O!RowsOf, Serial
<1>2. CASE O!Next
  BY <1>2, OutsideStep, BeginSteps, StoreStep, EndSteps DEF O!Next
<1> QED
  BY <1>1, <1>2

\* A refresh ends with its tokens stored, or is counted as orphaned.
LEMMA RefreshStep ==
  ASSUME ConnectionInv, [O!Next]_(O!vars)
  PROVE  O!RefreshStoredStep
<1> SUFFICES ASSUME NEW s \in Sessions, tx[s] # O!Idle, tx[s].op = "refresh", tx'[s] = O!Idle,
                    ~orphaned'
             PROVE  rows'[tx[s].row].token = tx[s].token
  BY DEF O!RefreshStoredStep
<1>0. ConnectionTypes /\ tx \in [Sessions -> {O!Idle} \cup Request]
  BY DEF ConnectionInv, ConnectionTypes
<1>1. tx' # tx
  OBVIOUS
<1>2. ASSUME NEW o \in Sessions, NEW t, O!Begin(o, t) PROVE FALSE
  BY <1>0, <1>2 DEF O!Begin
<1>3. PICK o \in Sessions :
        O!StoreCredential(o) \/ O!CreateChannel(o) \/ O!ListContacts(o) \/ O!Rollback(o)
  <2>1. ~UNCHANGED O!vars
    BY <1>1 DEF O!vars
  <2>2. ~(O!Connect \/ O!Revoke)
    BY <1>1 DEF O!Connect, O!Revoke
  <2>3. ~\E n \in 1 .. states : O!Consent(n)
    BY <1>1 DEF O!Consent
  <2>4. ~\E r \in redirects : O!CallbackMismatch(r)
    BY <1>1 DEF O!CallbackMismatch
  <2>5. \A o \in Sessions : /\ ~O!UpsertEmailConfig(o) /\ ~O!ListAuthorisedPages(o)
                            /\ ~O!RefreshToken(o) /\ ~\E r \in redirects : O!Callback(o, r)
    BY <1>2 DEF O!UpsertEmailConfig, O!ListAuthorisedPages, O!RefreshToken, O!Callback
  <2> QED
    BY <2>1, <2>2, <2>3, <2>4, <2>5 DEF O!Next
<1>4. tx' = [tx EXCEPT ![o] = O!Idle]
  BY <1>3 DEF O!StoreCredential, O!CreateChannel, O!ListContacts, O!Rollback, O!Close
<1>5. o = s
  BY <1>0, <1>4
<1>6. O!ListContacts(s)
  BY <1>3, <1>5 DEF O!StoreCredential, O!CreateChannel, O!Rollback
<1> QED
  BY <1>6, RefreshedRow

\* One credential of a kind, and one callback per parked state, before and after a step.
LEMMA ConnectionSafe ==
  /\ ConnectionInv => O!OneCredential /\ O!StateUsedOnce
  /\ ConnectionInv' => O!OneCredential' /\ O!StateUsedOnce'
  BY DEF ConnectionInv, Serial, O!StateUsedOnce
=============================================================================
