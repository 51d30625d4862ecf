----------------------------- MODULE EdgeProofs -----------------------------
(***************************************************************************)
(* The theorems about the edge: a behaviour stays in its scene, where the   *)
(* invariant of the component at work is kept by each of its steps.         *)
(***************************************************************************)
EXTENDS Edge, EdgeProvidersProofs, EdgeUsersProofs

USE Zenon

\* A behaviour stays in its scene, and there takes the steps of that component.
LEMMA AtWork ==
  ASSUME [Next]_vars
  PROVE  /\ scene' = scene
         /\ scene = "webhooks" => [W!Next]_(W!vars)
         /\ scene = "analytics" => [Y!Next]_(Y!vars)
         /\ scene = "social" => [S!Next]_(S!vars)
         /\ scene = "connections" => [O!Next]_(O!vars)
         /\ scene = "outbound" => [B!Next]_(B!vars)
         /\ scene = "chat" => [C!Next]_(C!vars)
         /\ scene = "audit" => [P!Next]_(P!vars)
<1>1. WNext => scene = "webhooks" /\ scene' = scene /\ W!Next
  BY DEF WNext
<1>2. YNext => scene = "analytics" /\ scene' = scene /\ Y!Next
  BY DEF YNext
<1>3. SNext => scene = "social" /\ scene' = scene /\ S!Next
  BY DEF SNext
<1>4. ONext => scene = "connections" /\ scene' = scene /\ O!Next
  BY DEF ONext
<1>5. BNext => scene = "outbound" /\ scene' = scene /\ B!Next
  BY DEF BNext
<1>6. CNext => scene = "chat" /\ scene' = scene /\ C!Next
  BY DEF CNext
<1>7. ANext => scene = "audit" /\ scene' = scene /\ P!Next
  BY DEF ANext
<1>8. UNCHANGED vars => UNCHANGED <<scene, W!vars, Y!vars, S!vars, O!vars, B!vars, C!vars, P!vars>>
  BY DEF vars, W!vars, Y!vars, S!vars, O!vars, B!vars, C!vars, P!vars
<1> QED
  BY <1>1, <1>2, <1>3, <1>4, <1>5, <1>6, <1>7, <1>8 DEF Next

\* A component starts in its initial state.
LEMMA AtFirst ==
  ASSUME Init
  PROVE  /\ scene = "webhooks" => W!Init
         /\ scene = "analytics" => Y!Init
         /\ scene = "social" => S!Init
         /\ scene = "connections" => O!Init
         /\ scene = "outbound" => B!Init
         /\ scene = "chat" => C!Init
         /\ scene = "audit" => P!Init
<1>1. WInit => scene = "webhooks" /\ W!Init
  BY DEF WInit
<1>2. YInit => scene = "analytics" /\ Y!Init
  BY DEF YInit
<1>3. SInit => scene = "social" /\ S!Init
  BY DEF SInit
<1>4. OInit => scene = "connections" /\ O!Init
  BY DEF OInit
<1>5. BInit => scene = "outbound" /\ B!Init
  BY DEF BInit
<1>6. CInit => scene = "chat" /\ C!Init
  BY DEF CInit
<1>7. AInit => scene = "audit" /\ P!Init
  BY DEF AInit
<1> QED
  BY <1>1, <1>2, <1>3, <1>4, <1>5, <1>6, <1>7 DEF Init

-----------------------------------------------------------------------------
\* The invariant of the edge: that of the component at work.
EdgeInv ==
  /\ scene = "webhooks" => WebhookInv
  /\ scene = "social" => SocialInv
  /\ scene = "connections" => ConnectionInv
  /\ scene = "chat" => ChatInv
  /\ scene = "audit" => AuditInv

LEMMA EdgeFirst == Init => EdgeInv
  BY AtFirst, WebhookInit, SocialInit, ConnectionInit, ChatInit, AuditInit DEF EdgeInv

LEMMA EdgeStep == EdgeInv /\ [Next]_vars => EdgeInv'
<1> SUFFICES ASSUME EdgeInv, [Next]_vars PROVE EdgeInv'
  OBVIOUS
<1>1. scene' = scene
  BY AtWork
<1>2. scene = "webhooks" => WebhookInv'
  BY AtWork, WebhookStep DEF EdgeInv
<1>3. scene = "social" => SocialInv'
  BY AtWork, SocialStep DEF EdgeInv
<1>4. scene = "connections" => ConnectionInv'
  BY AtWork, ConnectionStep DEF EdgeInv
<1>5. scene = "chat" => ChatInv'
  BY AtWork, ChatStep DEF EdgeInv
<1>6. scene = "audit" => AuditInv'
  BY AtWork, AuditStep DEF EdgeInv
<1> QED
  BY <1>1, <1>2, <1>3, <1>4, <1>5, <1>6 DEF EdgeInv

\* Every behaviour of the edge keeps the invariant.
LEMMA EdgeAlways == Spec => []EdgeInv
  BY EdgeFirst, EdgeStep, PTL DEF Spec

-----------------------------------------------------------------------------
\* Whatever is delivered twice, at once or rolled back: an event a provider was told
\* is received is stored, the raw trail accounts for it, and an opt-out, complaint or
\* bounce is on the suppression list unless the uniform receiver stored it first or it
\* has no id of its own and met another event of its message (EventsKept;
\* dispatch_webhook, receive_webhook, parse_webhook).
THEOREM AcknowledgedEventsAreKept == Spec => []EventsKept
<1>1. EdgeInv => EventsKept
  BY EventsSafe DEF EdgeInv, EventsKept
<1> QED
  BY <1>1, EdgeAlways, PTL

\* A batch begun after an address was suppressed does not mail it, however it is
\* spelled (SuppressedNotMailed; _load_suppressed_emails, send_batch).
THEOREM SuppressedAreNotMailed == Spec => SuppressedNotMailed
<1>1. EdgeInv /\ [Next]_vars => [scene = "webhooks" => W!SuppressedNotMailedStep]_vars
  BY AtWork, MailStep DEF EdgeInv
<1> QED
  BY <1>1, EdgeAlways, PTL DEF Spec, SuppressedNotMailed

\* For any number of workers, however often the asset is dispatched and the request
\* retried: a second post needs a request the provider accepted and whose reply or
\* record was lost, or a lookup of the attempt while another dispatch was publishing
\* (DuplicatesNeedDoubt; dispatch_social_asset, SocialPublishTool.call, publish_post).
THEOREM NoDuplicateWithoutDoubt == Spec => []DuplicatesNeedDoubt
<1>1. EdgeInv => DuplicatesNeedDoubt
  BY PostsAccounted DEF EdgeInv, DuplicatesNeedDoubt
<1> QED
  BY <1>1, EdgeAlways, PTL

\* For every budget of retries and any number of workers: at most one request more
\* than the budget, revoked only for a refused token (401, 403 or OAuthException),
\* unreachable only after the whole budget or a final error, and published, told or
\* committed, only with a post (ToldTheTruth; _raise_for_status of the connectors,
\* dispatch_social_asset).
THEOREM CallerIsToldTheTruth == Spec => []ToldTheTruth
<1>1. EdgeInv => ToldTheTruth
  BY PostsAccounted DEF EdgeInv, ToldTheTruth
<1> QED
  BY <1>1, EdgeAlways, PTL

\* For any number of overlapping requests: no second credential of a provider, a
\* parked OAuth state lets one callback in unless requests overlapped, and a refresh
\* that commits stores the rotated tokens (ConnectionsSound; oauth_callback,
\* upsert_email_config, refresh_token).
THEOREM ConnectionsAreSound == Spec => ConnectionsSound
<1>1. EdgeInv /\ [Next]_vars =>
        [scene = "connections" => O!OneCredential' /\ O!StateUsedOnce' /\ O!RefreshStoredStep]_vars
  BY AtWork, ConnectionStep, ConnectionSafe, RefreshStep DEF EdgeInv
<1> QED
  BY <1>1, EdgeAlways, PTL DEF Spec, ConnectionsSound

\* For every window that holds one exchange: the stored thread is one the model
\* accepts, holds the question it answers, and nothing from before "Start over"
\* unless requests overlapped (ChatMemorySound; _trim, save_history, clear_history).
THEOREM ChatMemoryIsSound == Spec => ChatMemorySound
<1> DEFINE good == scene = "chat" => C!ThreadReplayable /\ C!StartedOver
<1>1. EdgeInv => good
  BY ChatSafe DEF EdgeInv
<1>2. EdgeInv /\ [Next]_vars /\ good' =>
        [scene = "chat" => C!ThreadReplayable' /\ C!StartedOver' /\ C!NewestKeptStep]_vars
  BY AtWork, NewestStep DEF EdgeInv
<1> QED
  BY <1>1, <1>2, EdgeAlways, PTL DEF Spec, ChatMemorySound

\* For all texts and audiences, whoever the mail goes to: of a field that the audit and
\* the mail both look at, the audit counts the mails with a gap and the members without
\* a value who got none (PreviewsTrue; audit_against_audience, dispatch_email_asset,
\* send_batch).
THEOREM PreviewsAreTrue == Spec => []PreviewsTrue
<1>1. EdgeInv => PreviewsTrue
  BY AuditAgrees DEF EdgeInv, PreviewsTrue
<1> QED
  BY <1>1, EdgeAlways, PTL
=============================================================================
