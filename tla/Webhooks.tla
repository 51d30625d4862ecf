------------------------------ MODULE Webhooks ------------------------------
(***************************************************************************)
(* Provider events and the suppression list: the uniform webhook receiver  *)
(* (app/webhooks/dispatcher.py), the older email receiver                  *)
(* (receive_webhook of app/api/integrations_email.py), the unsubscribe link *)
(* (app/api/unsubscribe.py) and the email batches that consult the list    *)
(* (app/tools/email_dispatch.py).                                          *)
(*                                                                         *)
(* A report is one event object of a provider's POST, [id, msg, kind, who]: *)
(* its own id and the id of the message it is about, 0 if missing; the      *)
(* provider posts any of Batches, again, late and in any order.  events is *)
(* the table analytic_event, raw the table raw_webhook, suppressed the     *)
(* email rows of suppression_entry, audits the "unsubscribed" audit rows.  *)
(* lower[a] is the lower-case spelling of an address.                      *)
(*                                                                         *)
(* A receiver inserts row by row in one transaction.  An insert whose key  *)
(* another open transaction has inserted waits for that transaction, and   *)
(* any transaction may be rolled back (a deadlock victim, a lost           *)
(* connection), after which the provider posts again.  acked, known and    *)
(* mailed are history: the reports answered with 200, what the list held   *)
(* when a batch was begun, and the mails that left.                        *)
(***************************************************************************)
EXTENDS Integers, Sequences, FiniteSets

CONSTANTS Sessions, Batches, Addresses, Audience, lower, NoOne, MaxCalls

VARIABLES events, raw, suppressed, audits, acked, mail, mailed, calls, tx

vars == <<events, raw, suppressed, audits, acked, mail, mailed, calls, tx>>

Idle == [kind |-> "none"]
NoMail == [phase |-> "none"]
Ids == {e.id : e \in events}

Init ==
  /\ events = {} /\ raw = <<>> /\ suppressed = {} /\ audits = {} /\ acked = {}
  /\ mail = NoMail /\ mailed = {} /\ calls = 0
  /\ tx = [s \in Sessions |-> Idle]

\* _SENDGRID_EVENT_MAP
Normalised(kind) ==
  CASE kind \in {"bounce", "dropped"} -> "bounce"
    [] kind \in {"unsubscribe", "group_unsubscribe"} -> "unsubscribe"
    [] kind = "spamreport" -> "spam_complaint"
    [] kind \in {"delivered", "open", "click"} -> kind
    [] OTHER -> "other"

\* The event kinds both receivers write: everything but "other".
Mapped(r) == Normalised(r.kind) # "other"

\* Mutant of SuppressionReasonFor: bounces are forgotten.
SuppressionReasonForOptOuts(kind) == Normalised(kind) \in {"unsubscribe", "spam_complaint"}

\* _SUPPRESSION_REASON_MAP
SuppressionReasonFor(kind) == Normalised(kind) \in {"unsubscribe", "spam_complaint", "bounce"}

\* An open transaction other than s holds the key of an event, or of a suppression row.
EventHeld(s, id) == \E t \in Sessions \ {s} : tx[t].kind # "none" /\ id \in {e.id : e \in tx[t].rows}
AddressHeld(s, a) == \E t \in Sessions \ {s} : tx[t].kind # "none" /\ a \in tx[t].muted

\* parse_webhook: the key an event is deduplicated by is its own id, or else the id
\* of its message, which the other events of that message share; an event with
\* neither is dropped.
Key(r) == IF r.id # 0 THEN r.id ELSE r.msg
Parsed(r) == Key(r) # 0

\* The events of a body that a receiver is to write.
Reports(batch) == {r \in {batch[i] : i \in DOMAIN batch} : Parsed(r) /\ Mapped(r)}
-----------------------------------------------------------------------------
\* A receiver verified the secret of a POST and begins with its first event.
Receive(s, kind, batch) ==
  /\ tx[s] = Idle /\ calls < MaxCalls
  /\ tx' = [tx EXCEPT ![s] = [kind |-> kind, batch |-> batch, todo |-> batch, rows |-> {},
                              first |-> 0, muted |-> {}, mute |-> NoOne]]
  /\ calls' = calls + 1
  /\ UNCHANGED <<events, raw, suppressed, audits, acked, mail, mailed>>

\* The uniform receiver stores a POST whose secret does not match and answers 401.
Reject(batch) ==
  /\ calls < MaxCalls /\ calls' = calls + 1
  /\ raw' = Append(raw, [valid |-> FALSE, batch |-> batch, mapped |-> 0])
  /\ UNCHANGED <<events, suppressed, audits, acked, mail, mailed, tx>>

\* A row of analytic_event that the conflict clause lets in.
Inserted(t, r) ==
  [t EXCEPT !.todo = Tail(@),
            !.rows = @ \cup {[id |-> Key(r), kind |-> r.kind, who |-> r.who, by |-> t.kind]},
            !.first = IF @ = 0 THEN Key(r) ELSE @,
            !.mute = IF t.kind = "legacy" /\ SuppressionReasonFor(r.kind) THEN r.who ELSE NoOne]

\* Mutant of Skipped: the loop ends at the first duplicate.
SkippedAll(t) == [t EXCEPT !.todo = <<>>]

\* A duplicate event: the loop goes on with the next.
Skipped(t) == [t EXCEPT !.todo = Tail(@)]

\* One turn of the receiver's loop; an event that was not parsed or is not mapped
\* is passed over.
InsertEvent(s) ==
  /\ tx[s].kind # "none" /\ tx[s].todo # <<>> /\ tx[s].mute = NoOne
  /\ LET r == Head(tx[s].todo)
         wanted == Parsed(r) /\ Mapped(r)
         old == Key(r) \in Ids \cup {e.id : e \in tx[s].rows}
     IN  /\ wanted /\ ~old => ~EventHeld(s, Key(r))
         /\ tx' = [tx EXCEPT ![s] = IF wanted /\ ~old THEN Inserted(tx[s], r)
                                    ELSE IF wanted THEN Skipped(tx[s])
                                    ELSE [tx[s] EXCEPT !.todo = Tail(@)]]
  /\ UNCHANGED <<events, raw, suppressed, audits, acked, mail, mailed, calls>>

\* The older receiver writes the suppression row of the event it just inserted.
InsertSuppression(s) ==
  /\ tx[s].kind # "none" /\ tx[s].mute # NoOne
  /\ LET a == lower[tx[s].mute]
     IN  /\ a \notin suppressed => ~AddressHeld(s, a)
         /\ tx' = [tx EXCEPT ![s].muted = IF a \in suppressed THEN @ ELSE @ \cup {a},
                             ![s].mute = NoOne]
  /\ UNCHANGED <<events, raw, suppressed, audits, acked, mail, mailed, calls>>

\* Mutant of MappedEvent: the first event of the body, new or not.
FirstOfBody(t) ==
  LET own == SelectSeq(t.batch, Mapped) IN IF own = <<>> THEN 0 ELSE Key(Head(own))

\* raw.mapped_event_id: the first event this delivery wrote.
MappedEvent(t) == t.first

Commit(s) ==
  /\ tx[s].kind # "none" /\ tx[s].todo = <<>> /\ tx[s].mute = NoOne
  /\ events' = events \cup tx[s].rows
  /\ suppressed' = suppressed \cup tx[s].muted
  /\ raw' = IF tx[s].kind = "uniform"
            THEN Append(raw, [valid |-> TRUE, batch |-> tx[s].batch, mapped |-> MappedEvent(tx[s])])
            ELSE raw
  /\ acked' = acked \cup Reports(tx[s].batch)
  /\ tx' = [tx EXCEPT ![s] = Idle]
  /\ UNCHANGED <<audits, mail, mailed, calls>>

Rollback(s) ==
  /\ tx[s].kind # "none"
  /\ tx' = [tx EXCEPT ![s] = Idle]
  /\ UNCHANGED <<events, raw, suppressed, audits, acked, mail, mailed, calls>>
-----------------------------------------------------------------------------
\* Mutant of TokenIdentifier: the address as the audience spells it.
TokenAsSpelled(a) == a

\* _build_unsubscribe_signer: the identifier signed into the link of a mail.
TokenIdentifier(a) == lower[a]

\* consume_unsubscribe_token: one insert; only a fresh one is audited.
Unsubscribe(a) ==
  LET id == TokenIdentifier(a)
  IN  /\ calls < MaxCalls /\ calls' = calls + 1
      /\ a \in {m[2] : m \in mailed}
      /\ id \notin suppressed => \A s \in Sessions : ~AddressHeld(s, id)
      /\ suppressed' = suppressed \cup {id}
      /\ audits' = IF id \in suppressed THEN audits ELSE audits \cup {id}
      /\ UNCHANGED <<events, raw, acked, mail, mailed, tx>>

\* A dispatch task reaches EmailDispatchTool.call with its audience.
BeginBatch ==
  /\ mail = NoMail /\ calls < MaxCalls /\ calls' = calls + 1
  /\ mail' = [phase |-> "begun", known |-> suppressed]
  /\ UNCHANGED <<events, raw, suppressed, audits, acked, mailed, tx>>

\* _load_suppressed_emails: one query for the whole batch, by lower-case address.  (A
\* message marked transactional skips it; nothing in the code sends one.)
LoadSuppressedEmails ==
  /\ mail.phase = "begun"
  /\ mail' = [phase |-> "loaded", known |-> mail.known,
              to |-> {a \in Audience : lower[a] \notin suppressed}]
  /\ UNCHANGED <<events, raw, suppressed, audits, acked, mailed, calls, tx>>

\* send_batch
SendBatch ==
  /\ mail.phase = "loaded"
  /\ mailed' = mailed \cup ({calls} \X mail.to)
  /\ mail' = NoMail
  /\ UNCHANGED <<events, raw, suppressed, audits, acked, calls, tx>>

Next ==
  \/ \E batch \in Batches : Reject(batch) \/ \E s \in Sessions, k \in {"uniform", "legacy"} : Receive(s, k, batch)
  \/ \E s \in Sessions : InsertEvent(s) \/ InsertSuppression(s) \/ Commit(s) \/ Rollback(s)
  \/ \E a \in Addresses : Unsubscribe(a)
  \/ BeginBatch \/ LoadSuppressedEmails \/ SendBatch

Spec == Init /\ [][Next]_vars
-----------------------------------------------------------------------------
\* An event row is about a report: the same key, kind and recipient.
Records(e, r) == e.id = Key(r) /\ e.kind = r.kind /\ e.who = r.who

\* A report a provider was told is received is in analytic_event, whatever was
\* delivered twice, at once or rolled back: a provider never posts it again.  Of
\* the reports that carry no id of their own only one per message is kept.
AckedIsKept ==
  \A r \in acked :
    /\ Key(r) \in Ids
    /\ r.id # 0 => \E e \in events : Records(e, r)

\* The raw trail accounts for the events: no two deliveries claim the same
\* event, and a verified delivery that the admin view lists as unmapped left
\* out nothing, all its events had been written by others.
RawAccounts ==
  /\ \A i, j \in DOMAIN raw : i # j /\ raw[i].mapped # 0 => raw[i].mapped # raw[j].mapped
  /\ \A i \in DOMAIN raw :
       LET own == {Key(r) : r \in Reports(raw[i].batch)}
       IN  /\ raw[i].mapped # 0 => raw[i].mapped \in own \cap Ids
           /\ raw[i].valid /\ raw[i].mapped = 0 => own \subseteq Ids

\* An opt-out, complaint or bounce that the older receiver stored is on the
\* suppression list: the event and its row appear in one transaction.
StoredMeansSuppressed ==
  \A e \in events :
    e.by = "legacy" /\ SuppressionReasonFor(e.kind) /\ e.who # NoOne
      => lower[e.who] \in suppressed

\* An acknowledged opt-out, complaint or bounce is on the suppression list, and the
\* only ones skipped for ever are those whose key the uniform receiver stored first
\* (it writes no suppression) and those without an id of their own that met
\* another event of their message.
OptOutsListed ==
  \A r \in acked :
    /\ Normalised(r.kind) \in {"unsubscribe", "spam_complaint", "bounce"} /\ r.who # NoOne
    => \/ lower[r.who] \in suppressed
       \/ \E e \in events : e.id = Key(r) /\ e.by = "uniform"
       \/ r.id = 0 /\ \E e \in events : e.id = Key(r) /\ ~Records(e, r)

\* A batch begun after an address was suppressed does not mail it, however the
\* audience, the link or the provider spell the address.
SuppressedNotMailedStep ==
  \A m \in mailed' \ mailed : lower[m[2]] \notin {lower[a] : a \in mail.known}

SuppressedNotMailed == [][SuppressedNotMailedStep]_vars

\* "Given an unsubscribe is clicked, when processed, then a suppression_entry is
\* created": an opt-out a provider reported and was told is received is listed.
OptOutListed ==
  \A r \in acked : Normalised(r.kind) = "unsubscribe" /\ r.who # NoOne => lower[r.who] \in suppressed
=============================================================================
