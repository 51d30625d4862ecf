--------------------------- MODULE EdgeProviders ---------------------------
\* The scenes of the providers: webhooks of the mail provider and the suppression
\* list, the publishing of a post, and the connected accounts.  The variables of other
\* scenes keep a constant value.
EXTENDS EdgeState

W == INSTANCE Webhooks WITH MaxCalls <- WebhookCalls

S == INSTANCE SocialPublish WITH MaxCalls <- PublishCalls

O == INSTANCE Connections WITH MaxCalls <- ConnectionCalls

WInit ==
  /\ scene = "webhooks" /\ W!Init
  /\ today = Off /\ views = Off /\ named = Off /\ rows = Off /\ jobs = Off /\ provider = Off
  /\ status = Off /\ sent = Off /\ posts = Off /\ doubts = Off /\ overlapped = Off
  /\ grant = Off /\ valid = Off /\ cookie = Off /\ states = Off /\ redirects = Off
  /\ taken = Off /\ channels = Off /\ orphaned = Off /\ raced = Off /\ payload = Off
  /\ uploaded = Off /\ templates = Off /\ row = Off /\ thread = Off /\ active = Off
  /\ fresh = Off /\ cleared = Off /\ text = Off /\ audiences = Off /\ footer = Off
  /\ report = Off /\ edits = Off

WNext ==
  /\ scene = "webhooks" /\ W!Next
  /\ UNCHANGED <<scene, today, views, named, rows, jobs, provider, status, sent, posts,
                 doubts, overlapped, grant, valid, cookie, states, redirects, taken,
                 channels, orphaned, raced, payload, uploaded, templates, row, thread,
                 active, fresh, cleared, text, audiences, footer, report, edits>>

SInit ==
  /\ scene = "social" /\ S!Init
  /\ events = Off /\ raw = Off /\ suppressed = Off /\ audits = Off /\ acked = Off /\ mail = Off
  /\ mailed = Off /\ today = Off /\ views = Off /\ named = Off /\ rows = Off /\ jobs = Off
  /\ grant = Off /\ valid = Off /\ cookie = Off /\ states = Off /\ redirects = Off
  /\ taken = Off /\ channels = Off /\ orphaned = Off /\ raced = Off /\ payload = Off
  /\ uploaded = Off /\ templates = Off /\ row = Off /\ thread = Off /\ active = Off
  /\ fresh = Off /\ cleared = Off /\ text = Off /\ audiences = Off /\ footer = Off
  /\ report = Off /\ edits = Off

SNext ==
  /\ scene = "social" /\ S!Next
  /\ UNCHANGED <<scene, events, raw, suppressed, audits, acked, mail, mailed, today,
                 views, named, rows, jobs, grant, valid, cookie, states, redirects,
                 taken, channels, orphaned, raced, payload, uploaded, templates, row,
                 thread, active, fresh, cleared, text, audiences, footer, report, edits>>

OInit ==
  /\ scene = "connections" /\ O!Init
  /\ events = Off /\ raw = Off /\ suppressed = Off /\ audits = Off /\ acked = Off /\ mail = Off
  /\ mailed = Off /\ today = Off /\ views = Off /\ named = Off /\ jobs = Off /\ status = Off
  /\ sent = Off /\ posts = Off /\ doubts = Off /\ overlapped = Off /\ payload = Off
  /\ uploaded = Off /\ templates = Off /\ row = Off /\ thread = Off /\ active = Off
  /\ fresh = Off /\ cleared = Off /\ text = Off /\ audiences = Off /\ footer = Off
  /\ report = Off /\ edits = Off

ONext ==
  /\ scene = "connections" /\ O!Next
  /\ UNCHANGED <<scene, events, raw, suppressed, audits, acked, mail, mailed, today,
                 views, named, jobs, status, sent, posts, doubts, overlapped, payload,
                 uploaded, templates, row, thread, active, fresh, cleared, text,
                 audiences, footer, report, edits>>

-----------------------------------------------------------------------------
\* Whatever is delivered twice, at once or rolled back: an event a provider was
\* told is received is in analytic_event (of events without an id of their own, one
\* per message), the raw trail accounts for it exactly once, and an opt-out,
\* complaint or bounce is on the suppression list unless the uniform receiver stored
\* it first or it met another event of its message under the message's id
\* (webhooks/dispatcher.py, api/integrations_email.py, parse_webhook).
EventsKept ==
  scene = "webhooks" =>
    /\ W!AckedIsKept
    /\ W!RawAccounts
    /\ W!OptOutsListed

\* A batch begun after an address was suppressed does not mail it, however the
\* audience, the link or the provider spell the address.
SuppressedNotMailed == [][scene = "webhooks" => W!SuppressedNotMailedStep]_vars

(* A second post appears only after the provider accepted a request whose   *)
(* reply or record was lost, or after two dispatches looked the attempt up  *)
(* while the other was publishing, which nothing in the code prevents:      *)
(* retries, repeated calls and the cached attempt never duplicate a post by *)
(* themselves (dispatch_social_asset, SocialPublishTool.call).              *)
DuplicatesNeedDoubt == scene = "social" => S!DuplicatesNeedDoubt

(* What the caller is told is what the provider said last, within the       *)
(* budget of retries: "revoked", which fails the asset and pauses the       *)
(* campaign, only for a refused token (401, 403 or Meta's OAuthException),  *)
(* "published" only for a post with an identifier, "unreachable" only when  *)
(* the retries are spent or the status is not retryable; and an asset is    *)
(* marked published only with its post and its attempt (publish_post,       *)
(* _raise_for_status, dispatch_social_asset).                               *)
ToldTheTruth == scene = "social" => S!ToldTheTruth

(* One credential per provider however many requests overlap (every lookup  *)
(* raises for ever on a second row); and a parked OAuth state lets one      *)
(* callback in, unless two overlap; and a refresh that commits stores the   *)
(* rotated tokens (api/integrations.py).                                    *)
ConnectionsSound ==
  [][scene = "connections" =>
       /\ O!OneCredential'
       /\ O!StateUsedOnce'
       /\ O!RefreshStoredStep]_vars
=============================================================================
