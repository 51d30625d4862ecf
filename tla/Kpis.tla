-------------------------------- MODULE Kpis --------------------------------
(***************************************************************************)
(* Live KPIs of a campaign: compute_campaign_kpis                          *)
(* (app/analytics/kpi_rollup.py) over the event table, stitched to the     *)
(* campaign through the attempt rows the dispatch writes                   *)
(* (dispatch_email_asset of app/agents/distribution.py).                   *)
(*                                                                         *)
(* A message id names one recipient's copy of one send; sentFor is the     *)
(* history of whom each was for.  The provider's events reach the table as *)
(* soon as a message left, so also before the dispatch that sent it has    *)
(* committed its row, and for messages whose dispatch was rolled back.     *)
(* attempt[a, r] is the row of dispatch_attempt, whose message id is null  *)
(* (0) when the provider refused the recipient.  channelOf[a] is NoChannel *)
(* where content_asset.channel_id is null, as in drafts of an outbound     *)
(* sequence.                                                               *)
(***************************************************************************)
EXTENDS Integers, Sequences, SequencesExt, FiniteSets, FiniteSetsExt

CONSTANTS Workers, Campaigns, Assets, Recipients, Kinds, campaignOf, channelOf,
          NoCampaign, NoChannel, MaxMessages, MaxEvents

VARIABLES attempt, events, tx, sentFor

vars == <<attempt, events, tx, sentFor>>

Idle == [asset |-> "none"]
NoRow == [status |-> "none", msg |-> 0]
Pairs == Assets \X Recipients
ChannelsUsed == {channelOf[a] : a \in Assets} \ {NoChannel}

Init ==
  /\ attempt = [p \in Pairs |-> NoRow]
  /\ events = {} /\ sentFor = <<>>
  /\ tx = [w \in Workers |-> Idle]
-----------------------------------------------------------------------------
\* A dispatch of asset a, which no earlier one has published: the provider
\* accepts the recipients of some set, each under a new message id, and
\* refuses the others.  Two workers may both be at it (an expired lease).
Send(w, a) ==
  /\ tx[w] = Idle /\ \A r \in Recipients : attempt[a, r] = NoRow
  /\ \E accepted \in SUBSET Recipients :
       LET copies == SetToSeq(accepted)
           Id(r) == CHOOSE n \in 1 .. Len(copies) : copies[n] = r
       IN  /\ Len(sentFor) + Len(copies) <= MaxMessages
           /\ sentFor' = sentFor \o [n \in 1 .. Len(copies) |-> <<a, copies[n]>>]
           /\ tx' = [tx EXCEPT ![w] =
                [asset |-> a,
                 rows |-> [r \in Recipients |->
                   IF r \in accepted THEN [status |-> "sent", msg |-> Len(sentFor) + Id(r)]
                   ELSE [status |-> "rejected", msg |-> 0]]]]
  /\ UNCHANGED <<attempt, events>>

\* Mutant of Upsert: the conflict clause writes the whole row.
UpsertRow(old, new) == new

\* _upsert_dispatch_attempt: a conflict changes neither status nor message id.
Upsert(old, new) == IF old = NoRow THEN new ELSE old

Commit(w) ==
  /\ tx[w] # Idle
  /\ attempt' = [p \in Pairs |-> IF p[1] = tx[w].asset THEN Upsert(attempt[p], tx[w].rows[p[2]])
                               ELSE attempt[p]]
  /\ tx' = [tx EXCEPT ![w] = Idle]
  /\ UNCHANGED <<events, sentFor>>

\* The worker dies or its transaction fails; the message stays sent.
Rollback(w) ==
  /\ tx[w] # Idle
  /\ tx' = [tx EXCEPT ![w] = Idle]
  /\ UNCHANGED <<attempt, events, sentFor>>

Stored(e) ==
  /\ Cardinality(events) < MaxEvents
  /\ events' = events \cup {e}
  /\ UNCHANGED <<attempt, tx, sentFor>>

\* The provider reports on a message: no campaign, but the message id.
MessageEvent(m, k) == m \in 1 .. Len(sentFor) /\ Stored([kind |-> k, campaign |-> NoCampaign, msg |-> m])

\* A page view whose utm_campaign was resolved at ingest, or was not.
SiteEvent(c) == Stored([kind |-> "impression", campaign |-> c, msg |-> 0])
-----------------------------------------------------------------------------
\* The rows of the EXISTS subqueries: sent under the event's message id.
Linked(e) == {p \in Pairs : attempt[p].msg # 0 /\ attempt[p].msg = e.msg}

\* Mutant of Indirect: without the join on the asset's campaign.
IndirectAnywhere(e, c) == Linked(e) # {}

Indirect(e, c) == \E p \in Linked(e) : campaignOf[p[1]] = c

\* base_filter
Belongs(c) == {e \in events : e.campaign = c \/ Indirect(e, c)}

\* The channel filter; no writer sets an event's own channel, and a null one
\* equals none.
OfChannel(c, ch) ==
  {e \in Belongs(c) : \E p \in Linked(e) : campaignOf[p[1]] = c /\ channelOf[p[1]] = ch}

\* Mutant of OfAsset: any attempt of the asset will do.
OfAssetSent(c, a) == {e \in Belongs(c) : e.msg # 0 /\ \E r \in Recipients : attempt[a, r].msg # 0}

\* The content-asset filter.
OfAsset(c, a) == {e \in Belongs(c) : \E p \in Linked(e) : p[1] = a}

\* The counts by kind.
Count(rows, k) == Cardinality({e \in rows : e.kind = k})
-----------------------------------------------------------------------------
Next ==
  \/ \E w \in Workers, a \in Assets : Send(w, a)
  \/ \E w \in Workers : Commit(w) \/ Rollback(w)
  \/ \E m \in 1 .. MaxMessages, k \in Kinds : MessageEvent(m, k)
  \/ \E c \in Campaigns \cup {NoCampaign} : SiteEvent(c)

Spec == Init /\ [][Next]_vars
-----------------------------------------------------------------------------
\* An event about a message counts for the campaign the message was sent for
\* and for no other, whether it was stored before or after the dispatch
\* committed; only a message whose attempt row was never recorded, or lost
\* to an earlier row, counts nowhere (compute_campaign_kpis).
CreditedOnce ==
  \A e \in events : e.msg # 0 =>
    LET p == sentFor[e.msg]
    IN  {c \in Campaigns : e \in Belongs(c)} =
          IF attempt[p].msg = e.msg THEN {campaignOf[p[1]]} ELSE {}

\* The dashboard sliced by asset splits the mail counts of the campaign without
\* loss or overlap, and sliced by channel it splits those of the assets that
\* have one; the mail of an asset without a channel is in no channel's slice
\* (E10-S01: the filters recompute "for that scope").
SlicesAddUp ==
  \A c \in Campaigns, k \in Kinds :
    LET mail == {e \in Belongs(c) : e.msg # 0}
        own == {a \in Assets : campaignOf[a] = c}
        channelled == {e \in mail : channelOf[sentFor[e.msg][1]] # NoChannel}
    IN  /\ MapThenSumSet(LAMBDA a : Count(OfAsset(c, a), k), own) = Count(mail, k)
        /\ MapThenSumSet(LAMBDA ch : Count(OfChannel(c, ch), k), ChannelsUsed) = Count(channelled, k)

\* What a dashboard has counted it goes on counting: no retry or late commit
\* of a dispatch takes an event away from a campaign again.
CountsOnlyGrowStep == \A c \in Campaigns : Belongs(c) \subseteq Belongs(c)'
=============================================================================
