----------------------------- MODULE EdgeState -----------------------------
(***************************************************************************)
(* The edge: where the system meets mail and social providers, the OAuth   *)
(* and analytics services, the chat model and the people who get previews. *)
(* This module declares its parameters and the variables of its            *)
(* components; a behaviour picks the component that is at work, its scene. *)
(***************************************************************************)
EXTENDS Integers, Sequences, FiniteSets

CONSTANTS
  Sessions,      \* requests in flight
  Off,           \* the value of a variable not in use
  Batches, Addresses, Audience, lower, NoOne, WebhookCalls,
  Utms, NoUtm, SyncDays, Spans, MaxViews, SyncCalls,
  MaxRetries, PublishCalls,
  MaxGrants, MaxRows, ConnectionCalls,
  Members, Uploads, Persons, MaxEnrich, OutboundCalls,
  Campaigns, NoCampaign, MaxMessages, MaxTurns, MaxIds, ChatCalls,
  Names, Audiences, Texts, MaxAudiences, MaxEdits

\* An event object of the mail provider: its id and the id of its message, 0 if
\* missing; one without a recipient is NoOne's.
Reported == [id : Nat, msg : Nat, kind : STRING, who : Addresses \cup {NoOne}]

ASSUME BatchesAssumption ==
  Batches \subseteq Seq(Reported) /\ NoOne \notin Addresses /\ Audience \subseteq Addresses

\* An event's own id (sg_event_id) is that event's alone: neither another event nor
\* a message has it.
ASSUME EventIdsAssumption ==
  \A b, c \in Batches : \A i \in DOMAIN b, j \in DOMAIN c :
    b[i].id # 0 /\ b[i].id \in {c[j].id, c[j].msg}
      => c[j].kind = b[i].kind /\ c[j].who = b[i].who

\* str.lower: a lower-case spelling is its own.
ASSUME LowerAssumption ==
  lower \in [Addresses -> Addresses] /\ \A a \in Addresses : lower[lower[a]] = lower[a]

ASSUME RetriesAssumption == MaxRetries \in Nat

\* The messages of one exchange fit into the stored thread (4 turns and 20 messages).
ASSUME WindowAssumption ==
  MaxMessages \in Nat /\ MaxTurns \in Nat /\ 2 * MaxTurns + 1 <= MaxMessages

\* An audience gives every member a value, or none, for each name.
ASSUME PreviewsAssumption ==
  Audiences \subseteq [Members -> [Names -> {"text", "blank", "number", "flag", "absent"}]]

VARIABLES
  scene,   \* the component at work
  events, raw, suppressed, audits, acked, mail, mailed, calls, tx, today, views,
  named, rows, jobs, provider, status, sent, posts, doubts, overlapped, grant, valid,
  cookie, states, redirects, taken, channels, orphaned, raced, payload, uploaded,
  templates, row, thread, active, fresh, cleared, text, audiences, footer, report,
  edits

vars ==
  <<scene, events, raw, suppressed, audits, acked, mail, mailed, calls, tx, today,
    views, named, rows, jobs, provider, status, sent, posts, doubts, overlapped,
    grant, valid, cookie, states, redirects, taken, channels, orphaned, raced,
    payload, uploaded, templates, row, thread, active, fresh, cleared, text,
    audiences, footer, report, edits>>
=============================================================================
