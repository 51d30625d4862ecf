---------------------------- MODULE SocialPublish ----------------------------
(* One social post through dispatch_social_asset, the publish tool and its  *)
(* connector: the asset's status, the cached dispatch attempt, the          *)
(* connector's retry loop against the provider and the classification of    *)
(* what the provider answered.  Workers may dispatch the asset at the same  *)
(* time: a task is delivered again when its lease runs out, and resuming a  *)
(* campaign enqueues a second one.  The post is reduced to whether it needs *)
(* media and has some; an answer of the provider to its kind.  The provider *)
(* creates a post for every request it accepts, whether or not its reply    *)
(* arrives.                                                                 *)
EXTENDS Naturals, FiniteSets
CONSTANTS Sessions,    \* the workers
          MaxRetries,  \* _MAX_RETRIES, 2 in the code
          MaxCalls     \* bound on the dispatches of this asset
VARIABLES provider,    \* the connector in use
          status,      \* the committed status of the asset
          sent,        \* the committed dispatch_attempt: whether it says "sent"
          posts,       \* posts that exist at the provider
          doubts,      \* accepted requests whose reply, or record, was lost
          overlapped,  \* a lookup missed while another call was publishing
          calls, tx
vars == <<provider, status, sent, posts, doubts, overlapped, calls, tx>>

Idle == [phase |-> "idle"]

Providers == {"linkedin", "meta", "x"}

(* dispatch_social_asset builds the LinkedIn connector and refuses the      *)
(* other two, which the tool only serves one call at a time.                *)
Wired == {"linkedin"}

Answers == {"created", "no_id", "429", "500", "501", "400", "oauth_400", "401", "403",
            "timeout"}

(* _RETRYABLE_STATUS: 429 and four of the 5xx, "500" standing for them.     *)
RetryableStatus == {"429", "500"}

(* _REVOKED_STATUS: the connectors take 403 for a revoked token too, which  *)
(* the comment on ProviderRejectedError ("4xx other than 401") does not.    *)
RevokedStatus == {"401", "403"}

LinkedInRaiseForStatus(answer) ==
  CASE answer \in RevokedStatus -> "revoked"
    [] answer \in {"500", "501", "timeout"} -> "unreachable"
    [] answer \in {"400", "oauth_400", "429", "no_id"} -> "rejected"
    [] OTHER -> "published"

XRaiseForStatus(answer) == LinkedInRaiseForStatus(answer)

(* Meta reports a revoked token as 400 with OAuthException in the body. *)
MetaRaiseForStatus(answer) ==
  IF answer = "oauth_400" THEN "revoked" ELSE LinkedInRaiseForStatus(answer)

RaiseForStatus(answer) ==
  CASE provider = "linkedin" -> LinkedInRaiseForStatus(answer)
    [] provider = "x" -> XRaiseForStatus(answer)
    [] provider = "meta" -> MetaRaiseForStatus(answer)

(* One retry too many: the counter is compared after it was bumped. *)
MayRetryOnceMore(attempt) == attempt <= MaxRetries
MayRetry(attempt) == attempt < MaxRetries

Init ==
  /\ provider \in Providers /\ status = "scheduled" /\ sent = FALSE
  /\ posts = 0 /\ doubts = 0 /\ overlapped = FALSE /\ calls = 0
  /\ tx = [w \in Sessions |-> Idle]

(* dispatch_social_asset reads the asset; only a scheduled one goes on.     *)
LoadAsset(w) ==
  /\ tx[w] = Idle /\ calls < MaxCalls /\ calls' = calls + 1
  /\ provider \in Wired \/ calls = 0
  /\ status = "scheduled"
  /\ tx' = [tx EXCEPT ![w] = [phase |-> "loaded"]]
  /\ UNCHANGED <<provider, status, sent, posts, doubts, overlapped>>

Looping(attempt) == [phase |-> "calling", attempt |-> attempt]
Answered(outcome, last, requests) ==
  [phase |-> "answered", outcome |-> outcome, last |-> last, requests |-> requests]

(* A call that found no attempt and whose transaction is still open. *)
Publishing(w) ==
  \/ tx[w].phase = "calling"
  \/ tx[w].phase = "answered" /\ tx[w].outcome = "published"

(* The cached attempt is not looked up. *)
NeverCached == FALSE
Cached == sent

(* SocialPublishTool.call: a cached attempt is returned, a post that lacks  *)
(* the media it needs is refused, otherwise the connector's loop starts.    *)
Call(w, mediaMissing) ==
  /\ tx[w].phase = "loaded"
  /\ \/ /\ Cached
        /\ tx' = [tx EXCEPT ![w] = Answered("cached", "none", 0)] /\ UNCHANGED overlapped
     \/ /\ ~Cached /\ mediaMissing
        /\ tx' = [tx EXCEPT ![w] = Answered("media_required", "none", 0)] /\ UNCHANGED overlapped
     \/ /\ ~Cached /\ ~mediaMissing
        /\ tx' = [tx EXCEPT ![w] = Looping(0)]
        /\ overlapped' = (overlapped \/ \E o \in Sessions : Publishing(o))
  /\ UNCHANGED <<provider, status, sent, posts, doubts, calls>>

(* One request of publish_post and what the loop does with the answer; a    *)
(* timed out request may have been accepted.                                *)
PublishPost(w, answer, accepted) ==
  /\ tx[w].phase = "calling"
  /\ accepted => answer \in {"created", "no_id", "timeout"}
  /\ answer \in {"created", "no_id"} => accepted
  /\ posts' = posts + (IF accepted THEN 1 ELSE 0)
  /\ doubts' = doubts + (IF accepted /\ answer # "created" THEN 1 ELSE 0)
  /\ tx' = [tx EXCEPT ![w] =
       IF answer \in RetryableStatus \cup {"timeout"} /\ MayRetry(tx[w].attempt)
       THEN Looping(tx[w].attempt + 1)
       ELSE Answered(RaiseForStatus(answer), answer, tx[w].attempt + 1)]
  /\ UNCHANGED <<provider, status, sent, overlapped, calls>>

LinkedInPublishPost(w, answer, accepted) ==
  provider = "linkedin" /\ PublishPost(w, answer, accepted)
MetaPublishPost(w, answer, accepted) == provider = "meta" /\ PublishPost(w, answer, accepted)
XPublishPost(w, answer, accepted) == provider = "x" /\ PublishPost(w, answer, accepted)

Recorded(outcome) == outcome \in {"published", "cached"}

(* The end of dispatch_social_asset: the attempt and the published asset    *)
(* are committed together, a revoked token leaves the asset failed, and any *)
(* other error rolls the transaction back.                                  *)
CommitAttempt(w) ==
  /\ tx[w].phase = "answered"
  /\ IF provider \in Wired /\ Recorded(tx[w].outcome)
     THEN sent' = TRUE /\ status' = "published"
     ELSE /\ UNCHANGED sent
          /\ status' = IF provider \in Wired /\ tx[w].outcome = "revoked" THEN "failed" ELSE status
  /\ tx' = [tx EXCEPT ![w] = Idle]
  /\ UNCHANGED <<provider, posts, doubts, overlapped, calls>>

(* The worker dies, or its transaction fails, before the commit. *)
Crash(w) ==
  /\ tx[w] # Idle
  /\ doubts' = doubts + (IF Publishing(w) /\ tx[w].phase = "answered" THEN 1 ELSE 0)
  /\ tx' = [tx EXCEPT ![w] = Idle]
  /\ UNCHANGED <<provider, status, sent, posts, overlapped, calls>>

Next ==
  \E w \in Sessions :
    \/ LoadAsset(w)
    \/ \E mediaMissing \in BOOLEAN : Call(w, mediaMissing)
    \/ \E answer \in Answers, accepted \in BOOLEAN :
         \/ LinkedInPublishPost(w, answer, accepted)
         \/ MetaPublishPost(w, answer, accepted)
         \/ XPublishPost(w, answer, accepted)
    \/ CommitAttempt(w)
    \/ Crash(w)

Spec == Init /\ [][Next]_vars

(* A second post appears only after the provider accepted a request whose   *)
(* reply or record was lost, or after two dispatches looked the attempt up  *)
(* while the other was publishing, which nothing in the code prevents:      *)
(* retries, repeated calls and the cached attempt never duplicate a post by *)
(* themselves.                                                              *)
DuplicatesNeedDoubt == overlapped \/ posts <= 1 + doubts

(* What the caller is told is what the provider said last, within the       *)
(* budget of retries: "revoked", which fails the asset and pauses the       *)
(* campaign, only for a refused token (401, 403 or Meta's OAuthException),  *)
(* "published" only for a post with an identifier, and "unreachable" only   *)
(* when the retries are spent or the status is not a retryable one; and an  *)
(* asset is marked published only with its post and its attempt.            *)
ToldTheTruth ==
  /\ \A w \in Sessions :
       tx[w].phase = "answered" =>
         /\ tx[w].requests <= MaxRetries + 1
         /\ tx[w].outcome = "revoked" => tx[w].last \in {"401", "403", "oauth_400"}
         /\ tx[w].outcome = "published" => tx[w].last = "created" /\ posts > 0
         /\ tx[w].outcome = "unreachable" => tx[w].requests = MaxRetries + 1 \/ tx[w].last = "501"
  /\ status = "published" => sent /\ posts > 0

=============================================================================
