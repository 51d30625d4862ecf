----------------------------- MODULE EdgeUsers -----------------------------
\* The scenes of the tenant's users: the assistant's memory of a chat, and the audit
\* of merge fields behind previews.
EXTENDS EdgeState

C == INSTANCE Conversation WITH MaxCalls <- ChatCalls

P == INSTANCE Previews

CInit ==
  /\ scene = "chat" /\ C!Init
  /\ events = Off /\ raw = Off /\ suppressed = Off /\ audits = Off /\ acked = Off /\ mail = Off
  /\ mailed = Off /\ today = Off /\ views = Off /\ named = Off /\ rows = Off /\ jobs = Off
  /\ provider = Off /\ status = Off /\ sent = Off /\ posts = Off /\ doubts = Off
  /\ overlapped = Off /\ grant = Off /\ valid = Off /\ cookie = Off /\ states = Off
  /\ redirects = Off /\ taken = Off /\ channels = Off /\ orphaned = Off /\ payload = Off
  /\ uploaded = Off /\ templates = Off /\ text = Off /\ audiences = Off /\ footer = Off
  /\ report = Off /\ edits = Off

CNext ==
  /\ scene = "chat" /\ C!Next
  /\ UNCHANGED <<scene, events, raw, suppressed, audits, acked, mail, mailed, today,
                 views, named, rows, jobs, provider, status, sent, posts, doubts,
                 overlapped, grant, valid, cookie, states, redirects, taken, channels,
                 orphaned, payload, uploaded, templates, text, audiences, footer,
                 report, edits>>

AInit ==
  /\ scene = "audit" /\ P!Init
  /\ events = Off /\ raw = Off /\ suppressed = Off /\ audits = Off /\ acked = Off
  /\ mailed = Off /\ calls = Off /\ tx = Off /\ today = Off /\ views = Off /\ named = Off
  /\ rows = Off /\ jobs = Off /\ provider = Off /\ status = Off /\ sent = Off /\ posts = Off
  /\ doubts = Off /\ overlapped = Off /\ grant = Off /\ valid = Off /\ cookie = Off
  /\ states = Off /\ redirects = Off /\ taken = Off /\ channels = Off /\ orphaned = Off
  /\ raced = Off /\ payload = Off /\ uploaded = Off /\ templates = Off /\ row = Off
  /\ thread = Off /\ active = Off /\ fresh = Off /\ cleared = Off

ANext ==
  /\ scene = "audit" /\ P!Next
  /\ UNCHANGED <<scene, events, raw, suppressed, audits, acked, mailed, calls, tx,
                 today, views, named, rows, jobs, provider, status, sent, posts,
                 doubts, overlapped, grant, valid, cookie, states, redirects, taken,
                 channels, orphaned, raced, payload, uploaded, templates, row, thread,
                 active, fresh, cleared>>

-----------------------------------------------------------------------------
(* The thread memory.py:107 promises the model: at most MAX_MESSAGES, the   *)
(* first is the user's, every tool_result answers a tool_use right before   *)
(* it, whatever was trimmed away; after "Start over" nothing older comes    *)
(* back, unless a chat was in flight; and a stored thread still holds the   *)
(* question it answers (_trim, clear_history).                              *)
ChatMemorySound ==
  [][scene = "chat" =>
       /\ C!ThreadReplayable'
       /\ C!StartedOver'
       /\ C!NewestKeptStep]_vars

\* What the audit counted is what the members then read: for plainly spelled
\* placeholders over text and number values, the unresolved count of a field that
\* both the audit and the mail look at is the number of mails with a gap at it plus
\* the members without a value who got no mail, if text and audience are still the
\* ones audited (audit_against_audience, dispatch_email_asset, send_batch).
PreviewsTrue == scene = "audit" => P!AuditPredictsMail
=============================================================================
