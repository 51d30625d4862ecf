-------------------------------- MODULE Edge --------------------------------
\* One specification puts the components of the edge side by side: a behaviour picks
\* a scene and follows that component's specification.  Where components touch the
\* same rows, each module models the steps of the others that its properties see:
\* Outbound the approvals, Webhooks and Previews the dispatch of mail.
EXTENDS EdgeProviders, EdgeUsers

\* What comes in: web analytics, and the contacts of outbound outreach.
Y == INSTANCE WebAnalytics WITH MaxDay <- SyncDays, MaxCalls <- SyncCalls

B == INSTANCE Outbound WITH MaxCalls <- OutboundCalls

YInit ==
  /\ scene = "analytics" /\ Y!Init
  /\ events = Off /\ raw = Off /\ suppressed = Off /\ audits = Off /\ acked = Off /\ mail = Off
  /\ mailed = Off /\ provider = Off /\ status = Off /\ sent = Off /\ posts = Off /\ doubts = Off
  /\ overlapped = Off /\ grant = Off /\ valid = Off /\ cookie = Off /\ states = Off
  /\ redirects = Off /\ taken = Off /\ channels = Off /\ orphaned = Off /\ raced = Off
  /\ payload = Off /\ uploaded = Off /\ templates = Off /\ row = Off /\ thread = Off
  /\ active = Off /\ fresh = Off /\ cleared = Off /\ text = Off /\ audiences = Off
  /\ footer = Off /\ report = Off /\ edits = Off

YNext ==
  /\ scene = "analytics" /\ Y!Next
  /\ UNCHANGED <<scene, events, raw, suppressed, audits, acked, mail, mailed, provider,
                 status, sent, posts, doubts, overlapped, grant, valid, cookie, states,
                 redirects, taken, channels, orphaned, raced, payload, uploaded,
                 templates, row, thread, active, fresh, cleared, text, audiences,
                 footer, report, edits>>

BInit ==
  /\ scene = "outbound" /\ B!Init
  /\ events = Off /\ raw = Off /\ suppressed = Off /\ audits = Off /\ acked = Off /\ mail = Off
  /\ mailed = Off /\ today = Off /\ views = Off /\ named = Off /\ rows = Off /\ jobs = Off
  /\ provider = Off /\ status = Off /\ sent = Off /\ posts = Off /\ doubts = Off
  /\ overlapped = Off /\ grant = Off /\ valid = Off /\ cookie = Off /\ states = Off
  /\ redirects = Off /\ taken = Off /\ channels = Off /\ orphaned = Off /\ row = Off
  /\ thread = Off /\ active = Off /\ fresh = Off /\ cleared = Off /\ text = Off
  /\ audiences = Off /\ footer = Off /\ report = Off /\ edits = Off

BNext ==
  /\ scene = "outbound" /\ B!Next
  /\ UNCHANGED <<scene, events, raw, suppressed, audits, acked, mail, mailed, today,
                 views, named, rows, jobs, provider, status, sent, posts, doubts,
                 overlapped, grant, valid, cookie, states, redirects, taken, channels,
                 orphaned, row, thread, active, fresh, cleared, text, audiences,
                 footer, report, edits>>
-----------------------------------------------------------------------------

Init ==
  \/ WInit \/ YInit \/ SInit \/ OInit
  \/ BInit \/ CInit \/ AInit

Next ==
  \/ WNext \/ YNext \/ SNext \/ ONext
  \/ BNext \/ CNext \/ ANext

Spec == Init /\ [][Next]_vars
-----------------------------------------------------------------------------
\* The counts of the operator dashboard reconcile with the table: what the jobs
\* say they imported is exactly what analytic_event holds, also when the inserts
\* of syncs of the same window overlap row by row, wait for each other or are
\* rolled back (plausible_sync, ingest_events).
ImportsReconcile == scene = "analytics" => Y!ImportsReconcile

(* Enrichment never replaces an uploaded value, also when two overlap; with *)
(* tool calls one at a time there is one template per segment and channel,  *)
(* an approved one renders the body that was approved, which is the content *)
(* reviewed if nobody edited it on approval, and a call in which no pair    *)
(* fails leaves every contact a draft on both channels (merge_into_payload, *)
(* generate_outreach_drafts, approve_asset, approve_via_ui,                 *)
(* render_personalised_drafts).                                             *)
OutreachSound ==
  [][scene = "outbound" =>
       /\ B!UploadedKept'
       /\ B!OneTemplate'
       /\ B!ApprovedText'
       /\ B!DraftedReachesAllStep]_vars
=============================================================================
