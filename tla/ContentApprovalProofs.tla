----------------------- MODULE ContentApprovalProofs -----------------------
(***************************************************************************)
(* Proofs about ContentApproval, for any assets, sessions, operations in   *)
(* use and bounds: nothing empty is ever reviewed, and nothing is launched *)
(* or handed to distribution without a logged approval unless the          *)
(* assistant approves.                                                     *)
(*                                                                         *)
(* Both are about a check made in one step and a write made in a later     *)
(* one, with other transactions' commits in between.  They hold because    *)
(* what the check saw cannot be undone: a draft and a logged decision stay *)
(* (content, decided), and is_required is never set again.  The invariant  *)
(* says, of each open transaction, that what it is about to write is       *)
(* backed by such a fact, or will be by its own commit.                    *)
(***************************************************************************)
EXTENDS MCReviews, TLAPS

\* The leaves are first-order reasoning about sets and functions unless they say SMT.
USE Zenon

-----------------------------------------------------------------------------
\* Transactions: the types, what a transaction sees of the rows, and what it holds
\* after it has begun, flushed or generated.

AssetStatus ==
  {"requested", "generating", "drafted", "pending_approval", "approved", "rejected",
   "scheduled", "failed"}

Columns == {"status", "required", "blocked"}

Stages == {"loaded", "generating", "flushed", "entered"}

\* The columns a transaction holds of some of the assets.
Partial(S) == UNION {[D -> S] : D \in SUBSET Assets}

TxRecords ==
  [op : Operations, stage : Stages, assets : SUBSET Assets, campaign : CampaignStatus,
   status : Partial(AssetStatus), blocked : Partial(BOOLEAN), cols : Partial(SUBSET Columns),
   next : Transitions \cup {"none"}, dispatch : SUBSET Assets]

\* An open transaction: its own assets are among the rows it holds.
OpenTx ==
  {t \in TxRecords : /\ t.assets \subseteq DOMAIN t.cols
                     /\ DOMAIN t.status = DOMAIN t.cols
                     /\ DOMAIN t.blocked = DOMAIN t.cols}

\* What a transaction has done by its stage: it holds only its own rows until it
\* enters a transition, and has written nothing before it flushes.
Staged(t) ==
  /\ t.stage # "entered" => DOMAIN t.cols = t.assets /\ t.dispatch = {}
  /\ t.stage \in {"loaded", "generating"} =>
       t.next = "none" /\ \A a \in t.assets : t.cols[a] = {}
  /\ t.stage = "generating" => t.op = "generate"

Types ==
  /\ campaign \in CampaignStatus
  /\ status \in [Assets -> AssetStatus]
  /\ required \in [Assets -> BOOLEAN]
  /\ blocked \in [Assets -> BOOLEAN]
  /\ content \in [Assets -> BOOLEAN]
  /\ decided \in [Assets -> BOOLEAN]
  /\ dispatches \in [Assets -> Nat]
  /\ tx \in [Sessions -> OpenTx \cup {NoTx}]
  /\ \A p \in Sessions : Open(p) => Staged(tx[p])

\* t has written the status of a.
Writes(t, a) == a \in DOMAIN t.cols /\ "status" \in t.cols[a]

\* a is required as t sees it: t's only write to is_required clears it.
Needs(t, req, a) == req[a] /\ ~(a \in DOMAIN t.cols /\ "required" \in t.cols[a])
-----------------------------------------------------------------------------
\* The statuses of an asset that has had a draft.
WithDraft == {"drafted", "pending_approval", "approved", "scheduled", "rejected"}

\* The operations begun only on assets that have had one.
OnDrafts ==
  {"approve", "reject", "uiApprove", "uiReject", "assistantApprove", "assistantReject",
   "assistantApproveAll"}

\* The assistant's approvals, which log no decision.
Unlogged == {"assistantApprove", "assistantApproveAll"}

\* The statuses of a campaign whose assets are all reviewed or under review.
Submitted == {"approval_pending", "ready_to_launch"}
-----------------------------------------------------------------------------
LEMMA PartialFunction ==
  ASSUME NEW S, NEW f \in Partial(S)
  PROVE  DOMAIN f \subseteq Assets /\ f \in [DOMAIN f -> S]
BY DEF Partial

LEMMA FunctionPartial ==
  ASSUME NEW S, NEW D \in SUBSET Assets, NEW f \in [D -> S]
  PROVE  f \in Partial(S)
BY DEF Partial

\* The fields of an open transaction.
LEMMA TxParts ==
  ASSUME NEW t \in OpenTx
  PROVE  /\ t \in TxRecords
         /\ t.op \in Operations /\ t.stage \in Stages /\ t.campaign \in CampaignStatus
         /\ t.next \in Transitions \cup {"none"}
         /\ t.dispatch \subseteq Assets
         /\ t.assets \subseteq DOMAIN t.cols /\ DOMAIN t.cols \subseteq Assets
         /\ t.status \in [DOMAIN t.cols -> AssetStatus]
         /\ t.blocked \in [DOMAIN t.cols -> BOOLEAN]
         /\ t.cols \in [DOMAIN t.cols -> SUBSET Columns]
<1>1. /\ t.status \in Partial(AssetStatus) /\ t.blocked \in Partial(BOOLEAN)
      /\ t.cols \in Partial(SUBSET Columns)
  BY DEF OpenTx, TxRecords
<1>2. t.status \in [DOMAIN t.status -> AssetStatus]
  BY <1>1, PartialFunction
<1>3. t.blocked \in [DOMAIN t.blocked -> BOOLEAN]
  BY <1>1, PartialFunction
<1>4. DOMAIN t.cols \subseteq Assets /\ t.cols \in [DOMAIN t.cols -> SUBSET Columns]
  BY <1>1, PartialFunction
<1> QED
  BY <1>2, <1>3, <1>4 DEF OpenTx, TxRecords

\* A transaction with these fields is an open transaction.
LEMMA MakeTx ==
  ASSUME NEW op \in Operations, NEW stage \in Stages, NEW D \in SUBSET Assets,
         NEW S \in SUBSET D, NEW c \in CampaignStatus, NEW st \in [D -> AssetStatus],
         NEW bl \in [D -> BOOLEAN], NEW co \in [D -> SUBSET Columns],
         NEW n \in Transitions \cup {"none"}, NEW di \in SUBSET Assets
  PROVE  [op |-> op, stage |-> stage, assets |-> S, campaign |-> c, status |-> st,
          blocked |-> bl, cols |-> co, next |-> n, dispatch |-> di] \in OpenTx
<1>1. st \in Partial(AssetStatus) /\ bl \in Partial(BOOLEAN) /\ co \in Partial(SUBSET Columns)
  BY FunctionPartial
<1>2. DOMAIN st = D /\ DOMAIN bl = D /\ DOMAIN co = D
  OBVIOUS
<1> QED
  BY <1>1, <1>2 DEF OpenTx, TxRecords

\* An open transaction is not NoTx, and the other way round.
LEMMA OpenIsTx ==
  ASSUME Types, NEW p \in Sessions
  PROVE  /\ Open(p) => tx[p] \in OpenTx /\ Staged(tx[p])
         /\ ~Open(p) => tx[p] = NoTx
<1>1. tx[p] \in OpenTx \cup {NoTx}
  BY DEF Types
<1>2. tx[p] \in OpenTx => tx[p].op \in Operations
  BY DEF OpenTx, TxRecords
<1>3. "none" \notin Operations
  BY DEF Operations, ReviewOps, Transitions
<1> QED
  BY <1>1, <1>2, <1>3, SMT DEF Open, NoTx, Types

\* A transaction as its record of fields.
LEMMA TxRecord ==
  ASSUME NEW t \in OpenTx
  PROVE  t = [op |-> t.op, stage |-> t.stage, assets |-> t.assets, campaign |-> t.campaign,
              status |-> t.status, blocked |-> t.blocked, cols |-> t.cols,
              next |-> t.next, dispatch |-> t.dispatch]
BY DEF OpenTx, TxRecords

\* The rows a query of t sees (View): its own writes over the committed rows.
LEMMA ViewRows ==
  ASSUME Types, NEW t \in OpenTx
  PROVE  /\ View(t).campaign = t.campaign
         /\ View(t).status \in [Assets -> AssetStatus]
         /\ View(t).required \in [Assets -> BOOLEAN]
         /\ View(t).blocked \in [Assets -> BOOLEAN]
         /\ \A a \in Assets :
              /\ View(t).status[a] = IF Writes(t, a) THEN t.status[a] ELSE status[a]
              /\ View(t).required[a] <=> Needs(t, required, a)
<1>1. /\ t.status \in [DOMAIN t.cols -> AssetStatus]
      /\ t.blocked \in [DOMAIN t.cols -> BOOLEAN]
      /\ DOMAIN t.cols \subseteq Assets
  BY TxParts
<1>2. View(t).status = [a \in Assets |-> IF Writes(t, a) THEN t.status[a] ELSE status[a]]
  BY DEF View, Overlay, Writes
<1>3. View(t).required =
        [a \in Assets |-> IF a \in DOMAIN t.cols /\ "required" \in t.cols[a]
                          THEN FALSE ELSE required[a]]
  BY DEF View, Overlay
<1>4. View(t).blocked =
        [a \in Assets |-> IF a \in DOMAIN t.cols /\ "blocked" \in t.cols[a]
                          THEN t.blocked[a] ELSE blocked[a]]
  BY DEF View, Overlay
<1>5. View(t).campaign = t.campaign
  BY DEF View
<1>6. View(t).status \in [Assets -> AssetStatus]
  BY <1>1, <1>2 DEF Types, Writes
<1>7. View(t).required \in [Assets -> BOOLEAN]
  BY <1>3 DEF Types
<1>8. View(t).blocked \in [Assets -> BOOLEAN]
  BY <1>1, <1>4 DEF Types
<1>9. \A a \in Assets : View(t).required[a] <=> Needs(t, required, a)
  BY <1>3 DEF Needs, Types
<1>10. \A a \in Assets : View(t).status[a] = IF Writes(t, a) THEN t.status[a] ELSE status[a]
  BY <1>2
<1> QED
  BY <1>5, <1>6, <1>7, <1>8, <1>9, <1>10

\* A view of the campaign, as the state machine's guards and on_enter take it.
IsView(v) ==
  /\ v \in [campaign : CampaignStatus, status : [Assets -> AssetStatus],
            required : [Assets -> BOOLEAN], blocked : [Assets -> BOOLEAN]]

LEMMA ViewIsView ==
  ASSUME Types, NEW t \in OpenTx
  PROVE  IsView(View(t))
<1>1. View(t) = [campaign |-> View(t).campaign, status |-> View(t).status,
                 required |-> View(t).required, blocked |-> View(t).blocked]
  BY DEF View
<1>2. t.campaign \in CampaignStatus
  BY TxParts
<1> QED
  BY <1>1, <1>2, ViewRows DEF IsView

\* What an accepted transition says of the required assets it saw
\* (_all_required_assets_drafted, _all_required_assets_approved).
LEMMA GuardSays ==
  ASSUME NEW v, IsView(v)
  PROVE  /\ Applies("submit_for_approval", v) =>
              \A a \in Assets : v.required[a] =>
                v.status[a] \notin {"requested", "generating", "failed"}
         /\ Applies("start_launch", v) =>
              \A a \in Assets : v.required[a] => v.status[a] = "approved"
<1>1. DOMAIN v.status = Assets
  BY DEF IsView
<1>2. ASSUME Applies("submit_for_approval", v)
      PROVE  AllRequiredAssetsDrafted(v)
  BY <1>2 DEF Applies
<1>3. ASSUME Applies("start_launch", v)
      PROVE  AllRequiredAssetsApproved(v)
  BY <1>3 DEF Applies
<1>4. AllRequiredAssetsDrafted(v) =>
        \A a \in Assets : v.required[a] =>
          v.status[a] \notin {"requested", "generating", "failed"}
  BY <1>1 DEF AllRequiredAssetsDrafted, RequiredAssets
<1>5. AllRequiredAssetsApproved(v) =>
        \A a \in Assets : v.required[a] => v.status[a] = "approved"
  BY <1>1 DEF AllRequiredAssetsApproved, RequiredAssets
<1> QED
  BY <1>2, <1>3, <1>4, <1>5

\* A follow-up is a transition the state machine accepts.
LEMMA FollowUpApplies ==
  ASSUME NEW op, NEW v
  PROVE  /\ FollowUp(op, v) \in Transitions \cup {"none"}
         /\ FollowUp(op, v) # "none" => Applies(FollowUp(op, v), v)
<1>1. CASE op = "generate"
  BY <1>1, SMT DEF FollowUp, Transitions
<1>2. CASE op = "approve"
  BY <1>2, SMT DEF FollowUp, Transitions
<1>3. CASE op = "reject"
  BY <1>3, SMT DEF FollowUp, Transitions
<1>4. CASE op \in Advancing
  BY <1>4 DEF FollowUp, Transitions, Advancing
<1>5. CASE op \in Transitions
  BY <1>5 DEF FollowUp, Transitions, Advancing
<1>6. CASE op \notin {"generate", "approve", "reject"} \cup Advancing \cup Transitions
  BY <1>6 DEF FollowUp
<1> QED
  BY <1>1, <1>2, <1>3, <1>4, <1>5, <1>6

\* What one transition does to a view: a required draft is submitted, or an
\* approved asset is scheduled, and the campaign moves.
LEMMA AppliedView ==
  ASSUME NEW v, IsView(v), NEW name \in Transitions
  PROVE  LET w == Applied(name, v)
         IN  /\ IsView(w)
             /\ w.required = v.required
             /\ \A a \in Assets :
                  \/ w.status[a] = v.status[a]
                  \/ v.status[a] = "drafted" /\ w.status[a] = "pending_approval"
                  \/ v.status[a] = "approved" /\ w.status[a] = "scheduled"
             /\ w.campaign = "ready_to_launch" => name = "start_launch"
             /\ w.campaign \in Submitted => name \in {"submit_for_approval", "start_launch"}
<1>1. CASE name = "submit_for_approval"
  <2> DEFINE st == [a \in Assets |-> IF v.required[a] /\ v.status[a] = "drafted"
                                     THEN "pending_approval" ELSE v.status[a]]
             w == [v EXCEPT !.campaign = "approval_pending", !.status = st]
  <2>1. FlipDraftedAssetsToPendingApproval(v) = st
    BY DEF FlipDraftedAssetsToPendingApproval, IsView
  <2>2. Applied(name, v) = w
    BY <1>1, <2>1 DEF Applied
  <2>3. st \in [Assets -> AssetStatus]
    BY DEF IsView, AssetStatus
  <2>4. "approval_pending" \in CampaignStatus
    BY DEF CampaignStatus
  <2>5. IsView(w) /\ w.required = v.required /\ w.status = st /\ w.campaign = "approval_pending"
    <3> HIDE DEF st
    <3> QED
      BY <2>3, <2>4 DEF IsView
  <2>6. \A a \in Assets : st[a] = v.status[a] \/ (v.status[a] = "drafted" /\ st[a] = "pending_approval")
    OBVIOUS
  <2> HIDE DEF st, w
  <2> QED
    BY <1>1, <2>2, <2>5, <2>6
<1>2. CASE name = "start_launch"
  <2> DEFINE st == [a \in Assets |-> IF v.status[a] = "approved" THEN "scheduled"
                                     ELSE v.status[a]]
             w == [v EXCEPT !.campaign = "ready_to_launch", !.status = st]
  <2>1. ScheduleApprovedAssets(v) = st
    BY DEF ScheduleApprovedAssets, IsView
  <2>2. Applied(name, v) = w
    BY <1>2, <2>1 DEF Applied
  <2>3. st \in [Assets -> AssetStatus]
    BY DEF IsView, AssetStatus
  <2>4. "ready_to_launch" \in CampaignStatus
    BY DEF CampaignStatus
  <2>5. IsView(w) /\ w.required = v.required /\ w.status = st
    <3> HIDE DEF st
    <3> QED
      BY <2>3, <2>4 DEF IsView
  <2>6. \A a \in Assets : st[a] = v.status[a] \/ (v.status[a] = "approved" /\ st[a] = "scheduled")
    OBVIOUS
  <2> HIDE DEF st, w
  <2> QED
    BY <1>2, <2>2, <2>5, <2>6
<1>3. CASE name = "regenerate_after_rejection"
  <2> DEFINE w == [v EXCEPT !.campaign = "content_in_production"]
  <2>1. Applied(name, v) = w
    BY <1>3 DEF Applied
  <2>2. "content_in_production" \in CampaignStatus \ Submitted
    BY DEF CampaignStatus, Submitted
  <2>3. /\ IsView(w) /\ w.required = v.required /\ w.status = v.status
        /\ w.campaign = "content_in_production"
    BY <2>2 DEF IsView
  <2> QED
    BY <2>1, <2>2, <2>3 DEF Submitted
<1> QED
  BY <1>1, <1>2, <1>3 DEF Transitions

\* What t's transition, and the one after it, do to the rows t sees (Entered).
LEMMA EnteredView ==
  ASSUME Types, NEW t \in OpenTx, t.next # "none"
  PROVE  LET v == Entered(t)
             u == View(t)
         IN  /\ IsView(v)
             /\ v.required = u.required
             /\ \A a \in Assets :
                  \/ v.status[a] = u.status[a]
                  \/ u.status[a] = "drafted" /\ v.status[a] = "pending_approval"
                  \/ u.status[a] = "approved" /\ v.status[a] = "scheduled"
             /\ v.campaign = "ready_to_launch" =>
                  \/ t.next = "start_launch"
                  \/ \A a \in Assets : u.required[a] => u.status[a] = "approved"
             /\ v.campaign \in Submitted =>
                  \/ t.next \in {"submit_for_approval", "start_launch"}
                  \/ \A a \in Assets : u.required[a] => u.status[a] = "approved"
<1> DEFINE u == View(t)
           v == Applied(t.next, u)
           w == Applied("start_launch", v)
<1>1. t.next \in Transitions
  BY TxParts
<1>2. IsView(u)
  BY ViewIsView
<1> HIDE DEF u
<1>3. /\ IsView(v) /\ v.required = u.required
      /\ \A a \in Assets :
           \/ v.status[a] = u.status[a]
           \/ u.status[a] = "drafted" /\ v.status[a] = "pending_approval"
           \/ u.status[a] = "approved" /\ v.status[a] = "scheduled"
      /\ v.campaign = "ready_to_launch" => t.next = "start_launch"
      /\ v.campaign \in Submitted => t.next \in {"submit_for_approval", "start_launch"}
  BY <1>1, <1>2, AppliedView, SMT
<1>4. Entered(t) = IF t.op \in Advancing /\ Applies("start_launch", v) THEN w ELSE v
  BY DEF Entered, u
<1> HIDE DEF v
<1>5. CASE Entered(t) = v
  BY <1>3, <1>5 DEF u
<1>6. CASE Entered(t) = w /\ Applies("start_launch", v)
  <2>1. /\ IsView(w) /\ w.required = v.required
        /\ \A a \in Assets :
             \/ w.status[a] = v.status[a]
             \/ v.status[a] = "drafted" /\ w.status[a] = "pending_approval"
             \/ v.status[a] = "approved" /\ w.status[a] = "scheduled"
    BY <1>3, AppliedView DEF Transitions
  <2>2. \A a \in Assets : v.required[a] => v.status[a] = "approved"
    BY <1>3, <1>6, GuardSays
  <2>3. \A a \in Assets : u.required[a] => u.status[a] = "approved"
    BY <1>3, <2>2
  <2>4. \A a \in Assets :
          \/ w.status[a] = u.status[a]
          \/ u.status[a] = "drafted" /\ w.status[a] = "pending_approval"
          \/ u.status[a] = "approved" /\ w.status[a] = "scheduled"
    BY <1>3, <2>1
  <2> QED
    BY <1>3, <1>6, <2>1, <2>3, <2>4 DEF u
<1> QED
  BY <1>4, <1>5, <1>6
-----------------------------------------------------------------------------
\* The fields an operation's updates leave alone.
SameTx(t, n) ==
  /\ n.op = t.op /\ n.stage = t.stage /\ n.assets = t.assets /\ n.next = t.next
  /\ n.dispatch = t.dispatch /\ n.campaign = t.campaign

\* The row t sees of a's status.
Seen(t, a) == IF Writes(t, a) THEN t.status[a] ELSE status[a]

LEMMA LoadedTx ==
  ASSUME Types, NEW op \in Operations, NEW S \in SUBSET Assets
  PROVE  LET n == Loaded(op, S)
         IN  /\ n \in OpenTx /\ Staged(n)
             /\ n.op = op /\ n.assets = S /\ n.stage = "loaded" /\ n.next = "none"
             /\ n.dispatch = {}
             /\ \A a \in Assets : ~Writes(n, a)
<1> DEFINE n == Loaded(op, S)
<1>1. n \in OpenTx
  <2>1. /\ [a \in S |-> status[a]] \in [S -> AssetStatus]
        /\ [a \in S |-> blocked[a]] \in [S -> BOOLEAN]
        /\ [a \in S |-> {}] \in [S -> SUBSET Columns]
        /\ campaign \in CampaignStatus
        /\ "loaded" \in Stages
    BY DEF Types, Stages
  <2> QED
    BY <2>1, MakeTx DEF Loaded
<1>2. /\ n.op = op /\ n.assets = S /\ n.stage = "loaded" /\ n.next = "none"
      /\ n.dispatch = {} /\ n.cols = [a \in S |-> {}]
  BY DEF Loaded
<1>3. Staged(n) /\ \A a \in Assets : ~Writes(n, a)
  BY <1>2 DEF Staged, Writes
<1> QED
  BY <1>1, <1>2, <1>3

LEMMA SetStatusTx ==
  ASSUME NEW t \in OpenTx, DOMAIN t.cols = t.assets, NEW s \in AssetStatus
  PROVE  LET n == SetStatus(t, s)
         IN  /\ n \in OpenTx /\ SameTx(t, n)
             /\ DOMAIN n.cols = t.assets
             /\ n.blocked = t.blocked
             /\ \A a \in t.assets : /\ n.status[a] = s /\ n.cols[a] \subseteq {"status"}
                                    /\ "status" \in n.cols[a] <=> t.status[a] # s
<1> DEFINE st == [a \in t.assets |-> s]
           co == [a \in t.assets |-> IF t.status[a] = s THEN {} ELSE {"status"}]
           n == [op |-> t.op, stage |-> t.stage, assets |-> t.assets, campaign |-> t.campaign,
                 status |-> st, blocked |-> t.blocked, cols |-> co, next |-> t.next,
                 dispatch |-> t.dispatch]
<1>1. st \in [t.assets -> AssetStatus] /\ co \in [t.assets -> SUBSET Columns]
  BY DEF Columns
<1>2. SetStatus(t, s) = [t EXCEPT !.status = st, !.cols = co]
  BY DEF SetStatus
<1>3. \A a \in t.assets : /\ st[a] = s /\ co[a] \subseteq {"status"}
                          /\ "status" \in co[a] <=> t.status[a] # s
  OBVIOUS
<1>4. DOMAIN co = t.assets
  OBVIOUS
<1> HIDE DEF st, co
<1>5. SetStatus(t, s) = n
  BY <1>2 DEF OpenTx, TxRecords
<1>6. n \in OpenTx
  BY <1>1, TxParts, MakeTx
<1>7. SameTx(t, n) /\ n.status = st /\ n.blocked = t.blocked /\ n.cols = co
  BY DEF SameTx
<1> QED
  BY <1>3, <1>4, <1>5, <1>6, <1>7

LEMMA WithColumnTx ==
  ASSUME NEW t \in OpenTx, DOMAIN t.cols = t.assets, NEW col \in Columns
  PROVE  LET n == WithColumn(t, col)
         IN  /\ n \in OpenTx /\ SameTx(t, n)
             /\ DOMAIN n.cols = t.assets
             /\ n.status = t.status /\ n.blocked = t.blocked
             /\ \A a \in t.assets : n.cols[a] = t.cols[a] \cup {col}
<1> DEFINE co == [a \in t.assets |-> t.cols[a] \cup {col}]
           n == [op |-> t.op, stage |-> t.stage, assets |-> t.assets, campaign |-> t.campaign,
                 status |-> t.status, blocked |-> t.blocked, cols |-> co, next |-> t.next,
                 dispatch |-> t.dispatch]
<1>1. co \in [t.assets -> SUBSET Columns]
  BY TxParts
<1>2. WithColumn(t, col) = [t EXCEPT !.cols = co]
  BY DEF WithColumn, OpenTx, TxRecords
<1>3. DOMAIN co = t.assets /\ \A a \in t.assets : co[a] = t.cols[a] \cup {col}
  OBVIOUS
<1> HIDE DEF co
<1>4. WithColumn(t, col) = n
  BY <1>2, TxRecord, SMT
<1>5. n \in OpenTx
  BY <1>1, TxParts, MakeTx, ZenonT(40)
<1>6. SameTx(t, n) /\ n.status = t.status /\ n.blocked = t.blocked /\ n.cols = co
  BY DEF SameTx
<1> QED
  BY <1>3, <1>4, <1>5, <1>6

\* clear_compliance_block before it writes.
LEMMA UnblockedTx ==
  ASSUME NEW t \in OpenTx, DOMAIN t.cols = t.assets
  PROVE  LET n == [t EXCEPT !.blocked = [a \in t.assets |-> FALSE]]
         IN  /\ n \in OpenTx /\ SameTx(t, n) /\ n.cols = t.cols /\ n.status = t.status
             /\ n.blocked = [a \in t.assets |-> FALSE]
<1> DEFINE bl == [a \in t.assets |-> FALSE]
           n == [op |-> t.op, stage |-> t.stage, assets |-> t.assets, campaign |-> t.campaign,
                 status |-> t.status, blocked |-> bl, cols |-> t.cols, next |-> t.next,
                 dispatch |-> t.dispatch]
<1>1. bl \in [t.assets -> BOOLEAN]
  OBVIOUS
<1> HIDE DEF bl
<1>2. [t EXCEPT !.blocked = bl] = n
  BY TxRecord, SMT
<1>3. n \in OpenTx
  BY <1>1, TxParts, MakeTx
<1>4. SameTx(t, n) /\ n.cols = t.cols /\ n.status = t.status /\ n.blocked = bl
  BY DEF SameTx
<1> QED
  BY <1>2, <1>3, <1>4 DEF bl

\* The arms of Reviewed.
LEMMA ReviewedArms ==
  ASSUME NEW t, NEW extra
  PROVE  /\ t.op \in {"approve", "uiApprove"} => Reviewed(t, extra) = Approved(t, extra)
         /\ t.op \in Unlogged => Reviewed(t, extra) = SetStatus(t, "approved")
         /\ t.op = "reject" => Reviewed(t, extra) = Rejected(t)
         /\ t.op = "uiReject" => Reviewed(t, extra) = Dropped(t)
         /\ t.op = "assistantReject" => Reviewed(t, extra) = DroppedByAssistant(t, extra)
         /\ t.op = "regenerate" => Reviewed(t, extra) = Regenerated(t)
         /\ t.op = "clear" => Reviewed(t, extra) = Cleared(t)
         /\ t.op \in Transitions => Reviewed(t, extra) = t
BY DEF Reviewed, Transitions, Unlogged

\* What the updates of an operation write (Reviewed): a status past generation only
\* on the assets of a review, an approval only by an operation that approves.
LEMMA ReviewedTx ==
  ASSUME NEW t \in OpenTx, Staged(t), t.stage = "loaded", t.op # "generate",
         NEW extra \in BOOLEAN
  PROVE  LET n == Reviewed(t, extra)
         IN  /\ n \in OpenTx /\ SameTx(t, n) /\ DOMAIN n.cols = t.assets
             /\ \A a \in Assets : Writes(n, a) =>
                  /\ a \in t.assets
                  /\ n.status[a] \in WithDraft => t.op \in OnDrafts
                  /\ n.status[a] \in {"approved", "scheduled"} =>
                       t.op \in {"approve", "uiApprove"} \cup Unlogged
<1>1. DOMAIN t.cols = t.assets /\ \A a \in t.assets : t.cols[a] = {}
  BY DEF Staged
<1>2. t.op \in Operations
  BY TxParts
<1> DEFINE Good(n) ==
             /\ n \in OpenTx /\ SameTx(t, n) /\ DOMAIN n.cols = t.assets
             /\ \A a \in Assets : Writes(n, a) =>
                  /\ a \in t.assets
                  /\ n.status[a] \in WithDraft => t.op \in OnDrafts
                  /\ n.status[a] \in {"approved", "scheduled"} =>
                       t.op \in {"approve", "uiApprove"} \cup Unlogged
<1>3. "blocked" \in Columns /\ "required" \in Columns
  BY DEF Columns
<1>4. ASSUME NEW s \in AssetStatus,
             s \in WithDraft => t.op \in OnDrafts,
             s \in {"approved", "scheduled"} => t.op \in {"approve", "uiApprove"} \cup Unlogged
      PROVE  Good(SetStatus(t, s))
  <2>1. LET n == SetStatus(t, s)
        IN  /\ n \in OpenTx /\ SameTx(t, n) /\ DOMAIN n.cols = t.assets
            /\ \A a \in t.assets : n.status[a] = s
    BY <1>1, SetStatusTx, SMT
  <2> QED
    BY <1>4, <2>1 DEF Writes
<1>5. ASSUME NEW n, Good(n), NEW col \in {"blocked", "required"} PROVE Good(WithColumn(n, col))
  <2>1. n.assets = t.assets /\ DOMAIN n.cols = n.assets
    BY <1>5 DEF SameTx
  <2>2. LET m == WithColumn(n, col)
        IN  /\ m \in OpenTx /\ SameTx(n, m) /\ DOMAIN m.cols = n.assets
            /\ m.status = n.status
            /\ \A a \in n.assets : m.cols[a] = n.cols[a] \cup {col}
    BY <1>3, <1>5, <2>1, WithColumnTx, SMT
  <2>3. SameTx(t, WithColumn(n, col))
    BY <1>5, <2>2 DEF SameTx
  <2>4. \A a \in Assets : Writes(WithColumn(n, col), a) => Writes(n, a)
    BY <2>1, <2>2, SMT DEF Writes
  <2> QED
    BY <1>5, <2>1, <2>2, <2>3, <2>4
<1>6. CASE t.op \in {"approve", "uiApprove"}
  <2>1. Good(SetStatus(t, "approved"))
    BY <1>4, <1>6 DEF AssetStatus, WithDraft, OnDrafts
  <2>2. Good(WithMetadata(SetStatus(t, "approved")))
    BY <1>5, <2>1 DEF WithMetadata
  <2>3. Good(Approved(t, extra))
    BY <2>1, <2>2 DEF Approved
  <2> QED
    BY <1>6, <2>3, ReviewedArms
<1>7. CASE t.op \in Unlogged
  <2>1. Good(SetStatus(t, "approved"))
    BY <1>4, <1>7 DEF AssetStatus, WithDraft, OnDrafts, Unlogged
  <2> QED
    BY <1>7, <2>1, ReviewedArms
<1>8. CASE t.op \in {"reject", "uiReject", "assistantReject"}
  <2>1. Good(SetStatus(t, "rejected"))
    BY <1>4, <1>8 DEF AssetStatus, WithDraft, OnDrafts
  <2>2. Good(WithColumn(SetStatus(t, "rejected"), "required"))
    BY <1>5, <2>1
  <2>3. Good(WithMetadata(Dropped(t)))
    BY <1>5, <2>2 DEF WithMetadata, Dropped
  <2>4. Good(Rejected(t)) /\ Good(Dropped(t)) /\ Good(DroppedByAssistant(t, extra))
    BY <2>1, <2>2, <2>3 DEF Rejected, Dropped, DroppedByAssistant
  <2>5. Reviewed(t, extra) \in {Rejected(t), Dropped(t), DroppedByAssistant(t, extra)}
    BY <1>8, ReviewedArms
  <2> QED
    BY <2>4, <2>5
<1>9. CASE t.op = "regenerate"
  <2>1. Good(SetStatus(t, "requested"))
    BY <1>4 DEF AssetStatus, WithDraft
  <2> QED
    BY <1>9, <2>1, ReviewedArms DEF Regenerated
<1>10. CASE t.op = "clear"
  <2> DEFINE m == [t EXCEPT !.blocked = [a \in t.assets |-> FALSE]]
  <2>1. m \in OpenTx /\ SameTx(t, m) /\ m.cols = t.cols /\ m.status = t.status
    BY <1>1, UnblockedTx
  <2> HIDE DEF m
  <2>2. Good(m)
    BY <1>1, <2>1 DEF Writes
  <2>3. Good(WithMetadata(m))
    BY <1>5, <2>2 DEF WithMetadata
  <2> QED
    BY <1>10, <2>3, ReviewedArms DEF Cleared, m
<1>11. CASE t.op \in Transitions
  <2>1. Good(t)
    BY <1>1 DEF Writes, SameTx
  <2> QED
    BY <1>11, <2>1, ReviewedArms
<1> QED
  BY <1>2, <1>6, <1>7, <1>8, <1>9, <1>10, <1>11 DEF Operations, ReviewOps, Unlogged

\* A flushed transaction knows of the required assets what its follow-up's guard
\* asked (Flushed).
LEMMA FlushedTx ==
  ASSUME Types, NEW t \in OpenTx, DOMAIN t.cols = t.assets, t.dispatch = {}
  PROVE  LET n == Flushed(t)
         IN  /\ n \in OpenTx /\ Staged(n)
             /\ n.op = t.op /\ n.stage = "flushed" /\ n.assets = t.assets /\ n.dispatch = {}
             /\ n.cols = t.cols /\ n.status = t.status /\ n.blocked = t.blocked
             /\ n.campaign = t.campaign /\ n.next = FollowUp(t.op, View(t))
             /\ n.next = "submit_for_approval" =>
                  \A a \in Assets : Needs(n, required, a) =>
                    Seen(n, a) \notin {"requested", "generating", "failed"}
             /\ n.next = "start_launch" =>
                  \A a \in Assets : Needs(n, required, a) => Seen(n, a) = "approved"
<1> DEFINE v == View(t)
           f == FollowUp(t.op, v)
           n == [op |-> t.op, stage |-> "flushed", assets |-> t.assets, campaign |-> t.campaign,
                 status |-> t.status, blocked |-> t.blocked, cols |-> t.cols, next |-> f,
                 dispatch |-> t.dispatch]
<1>1. Flushed(t) = [t EXCEPT !.stage = "flushed", !.next = f]
  BY DEF Flushed
<1>2. f \in Transitions \cup {"none"} /\ (f # "none" => Applies(f, v))
  BY FollowUpApplies
<1>3. IsView(v)
  BY ViewIsView
<1>4. \A a \in Assets : v.status[a] = Seen(t, a) /\ (v.required[a] <=> Needs(t, required, a))
  BY ViewRows DEF Seen
<1> HIDE DEF v, f
<1>10. Flushed(t) = n
  BY <1>1 DEF OpenTx, TxRecords
<1>5. n \in OpenTx
  BY <1>2, TxParts, MakeTx DEF Stages
<1>6. Staged(n)
  BY DEF Staged
<1>7. \A a \in Assets : Seen(n, a) = Seen(t, a) /\ (Needs(n, required, a) <=> Needs(t, required, a))
  BY DEF Seen, Needs, Writes
<1>8. f = "submit_for_approval" =>
        \A a \in Assets : Needs(n, required, a) =>
          Seen(n, a) \notin {"requested", "generating", "failed"}
  BY <1>2, <1>3, <1>4, <1>7, GuardSays, SMT
<1>9. f = "start_launch" =>
        \A a \in Assets : Needs(n, required, a) => Seen(n, a) = "approved"
  BY <1>2, <1>3, <1>4, <1>7, GuardSays, SMT
<1> QED
  BY <1>5, <1>6, <1>8, <1>9, <1>10, SMT DEF f, v
-----------------------------------------------------------------------------
\* The rows and histories do not change.
Still == UNCHANGED <<table, ghosts>>

\* A step of session p that changes no row, and leaves p with the transaction n or
\* none, keeps the types.
LEMMA StillTypes ==
  ASSUME Types, NEW p \in Sessions, NEW n \in OpenTx \cup {NoTx}, Still,
         tx' = [tx EXCEPT ![p] = n], n # NoTx => Staged(n)
  PROVE  Types'
<1>1. tx' \in [Sessions -> OpenTx \cup {NoTx}]
  BY DEF Types
<1>2. \A q \in Sessions : tx'[q] = IF q = p THEN n ELSE tx[q]
  BY DEF Types
<1>3. \A q \in Sessions : Open(q)' => Staged(tx'[q])
  BY <1>2, SMT DEF Types, Open, NoTx
<1>4. UNCHANGED <<campaign, status, required, blocked, content, decided, dispatches>>
  BY DEF Still, table, ghosts
<1> QED
  BY <1>1, <1>3, <1>4 DEF Types, Open

-----------------------------------------------------------------------------
\* A transaction begins on the rows it loads, and a review on drafts only (Eligible,
\* approve_all_content).
LEMMA BeginStep ==
  ASSUME Types, NEW p \in Sessions,
         \/ \E a \in Assets : LoadGenerate(p, a) \/ \E op \in ReviewOps : LoadReview(p, op, a)
         \/ LoadApproveAll(p)
         \/ \E name \in Transitions : LoadTransition(p, name)
  PROVE  \E n \in OpenTx :
           /\ Still /\ tx' = [tx EXCEPT ![p] = n] /\ Staged(n)
           /\ n.op \in Ops
           /\ n.stage = "loaded" /\ n.next = "none" /\ n.dispatch = {}
           /\ \A a \in Assets : ~Writes(n, a)
           /\ n.op \in OnDrafts => \A a \in n.assets : status[a] \in WithDraft
<1>1. ASSUME NEW op \in Operations, NEW S \in SUBSET Assets, Begin(p, Loaded(op, S)),
             op \in OnDrafts => \A a \in S : status[a] \in WithDraft
      PROVE  \E n \in OpenTx :
               /\ Still /\ tx' = [tx EXCEPT ![p] = n] /\ Staged(n)
               /\ n.op \in Ops
               /\ n.stage = "loaded" /\ n.next = "none" /\ n.dispatch = {}
               /\ \A a \in Assets : ~Writes(n, a)
               /\ n.op \in OnDrafts => \A a \in n.assets : status[a] \in WithDraft
  <2> DEFINE n == Loaded(op, S)
  <2>1. /\ n \in OpenTx /\ Staged(n)
        /\ n.op = op /\ n.assets = S /\ n.stage = "loaded" /\ n.next = "none"
        /\ n.dispatch = {}
        /\ \A a \in Assets : ~Writes(n, a)
    BY LoadedTx
  <2>2. Still /\ tx' = [tx EXCEPT ![p] = n] /\ n.op \in Ops
    BY <1>1 DEF Begin, Still
  <2> HIDE DEF n
  <2> QED
    BY <1>1, <2>1, <2>2
<1>2. ASSUME NEW a \in Assets, LoadGenerate(p, a)
      PROVE  Begin(p, Loaded("generate", {a})) /\ "generate" \in Operations \ OnDrafts
  BY <1>2 DEF LoadGenerate, Operations, OnDrafts
<1>3. ASSUME NEW a \in Assets, NEW op \in ReviewOps, LoadReview(p, op, a)
      PROVE  /\ Begin(p, Loaded(op, {a})) /\ op \in Operations
             /\ op \in OnDrafts => status[a] \in WithDraft
  <2>1. Begin(p, Loaded(op, {a})) /\ op \in Operations /\ Eligible(op, a)
    BY <1>3 DEF LoadReview, Operations
  <2>2. ASSUME op \in OnDrafts PROVE status[a] \in WithDraft
    <3>1. CASE op \in {"approve", "reject"}
      BY <2>1, <3>1 DEF Eligible, ReviewEligible, WithDraft
    <3>2. CASE op \in {"uiApprove", "uiReject"}
      BY <2>1, <3>2 DEF Eligible, PageEligible, WithDraft
    <3>3. CASE op \in {"assistantApprove", "assistantReject"}
      BY <2>1, <3>3 DEF Eligible, AssistantEligible, WithDraft
    <3> QED
      BY <2>2, <3>1, <3>2, <3>3 DEF OnDrafts, ReviewOps
  <2> QED
    BY <2>1, <2>2
<1>4. CASE LoadApproveAll(p)
  <2> DEFINE S == {a \in Assets : status[a] \in {"drafted", "pending_approval"}}
  <2>1. Begin(p, Loaded("assistantApproveAll", S)) /\ "assistantApproveAll" \in Operations
    BY <1>4 DEF LoadApproveAll, Operations
  <2>2. \A a \in S : status[a] \in WithDraft
    BY DEF WithDraft
  <2> QED
    BY <1>1, <2>1, <2>2
<1>5. ASSUME NEW name \in Transitions, LoadTransition(p, name)
      PROVE  Begin(p, Loaded(name, {})) /\ name \in Operations
  BY <1>5 DEF LoadTransition, Operations
<1>6. ASSUME NEW a \in Assets, LoadGenerate(p, a) \/ \E op \in ReviewOps : LoadReview(p, op, a)
      PROVE  \E op \in Operations : /\ Begin(p, Loaded(op, {a}))
                                    /\ op \in OnDrafts => status[a] \in WithDraft
  BY <1>2, <1>3, <1>6
<1>7. CASE \E a \in Assets : LoadGenerate(p, a) \/ \E op \in ReviewOps : LoadReview(p, op, a)
  <2>1. PICK a \in Assets : LoadGenerate(p, a) \/ \E op \in ReviewOps : LoadReview(p, op, a)
    BY <1>7
  <2>2. PICK op \in Operations : /\ Begin(p, Loaded(op, {a}))
                                 /\ op \in OnDrafts => status[a] \in WithDraft
    BY <1>6, <2>1
  <2>3. {a} \in SUBSET Assets /\ (op \in OnDrafts => \A b \in {a} : status[b] \in WithDraft)
    BY <2>2
  <2> QED
    BY <1>1, <2>2, <2>3
<1>8. CASE \E name \in Transitions : LoadTransition(p, name)
  <2>1. PICK name \in Transitions : LoadTransition(p, name)
    BY <1>8
  <2>2. Begin(p, Loaded(name, {})) /\ name \in Operations
    BY <1>5, <2>1
  <2>3. {} \in SUBSET Assets /\ \A b \in {} : status[b] \in WithDraft
    OBVIOUS
  <2> QED
    BY <1>1, <2>2, <2>3
<1> QED
  BY <1>4, <1>7, <1>8

\* What a flushed transaction has asked of the required assets it sees.
Asked(n) ==
  /\ n.next = "submit_for_approval" =>
       \A a \in Assets : Needs(n, required, a) =>
         Seen(n, a) \notin {"requested", "generating", "failed"}
  /\ n.next = "start_launch" =>
       \A a \in Assets : Needs(n, required, a) => Seen(n, a) = "approved"

LEMMA FlushStep ==
  ASSUME Types, NEW p \in Sessions, Flush(p)
  PROVE  \E n \in OpenTx :
           /\ Still /\ tx' = [tx EXCEPT ![p] = n] /\ Staged(n) /\ Asked(n)
           /\ n.op = tx[p].op /\ n.stage = "flushed" /\ n.assets = tx[p].assets
           /\ n.dispatch = {}
           /\ \A a \in Assets : Writes(n, a) =>
                /\ a \in n.assets
                /\ n.status[a] \in WithDraft => n.op \in OnDrafts
                /\ n.status[a] \in {"approved", "scheduled"} =>
                     n.op \in {"approve", "uiApprove"} \cup Unlogged
<1> DEFINE t == tx[p]
           now == IF t.op \in LoadsCampaignLate THEN [t EXCEPT !.campaign = campaign] ELSE t
<1>1. PICK extra \in BOOLEAN :
        Step(p, Flushed(Reviewed(now, extra)))
  BY DEF Flush
<1>2. t \in OpenTx /\ Staged(t) /\ t.stage = "loaded" /\ t.op # "generate"
  BY OpenIsTx DEF Flush
<1> HIDE DEF t
<1>3. /\ now \in OpenTx /\ Staged(now) /\ now.stage = "loaded" /\ now.op = t.op
      /\ now.assets = t.assets /\ now.dispatch = {}
  <2>1. CASE t.op \in LoadsCampaignLate
    <3> DEFINE m == [op |-> t.op, stage |-> t.stage, assets |-> t.assets,
                     campaign |-> campaign, status |-> t.status, blocked |-> t.blocked,
                     cols |-> t.cols, next |-> t.next, dispatch |-> t.dispatch]
    <3>1. [t EXCEPT !.campaign = campaign] = m
      BY <1>2, SMT DEF OpenTx, TxRecords
    <3>2. m \in OpenTx
      BY <1>2, TxParts, MakeTx DEF Types
    <3>3. Staged(m) /\ m.stage = "loaded" /\ m.op = t.op /\ m.assets = t.assets /\ m.dispatch = {}
      BY <1>2 DEF Staged
    <3> HIDE DEF m
    <3> QED
      BY <2>1, <3>1, <3>2, <3>3
  <2>2. CASE t.op \notin LoadsCampaignLate
    BY <1>2, <2>2 DEF Staged
  <2> QED
    BY <2>1, <2>2
<1> DEFINE r == Reviewed(now, extra)
           n == Flushed(r)
<1>4. Still /\ tx' = [tx EXCEPT ![p] = n]
  BY <1>1 DEF Step, Still
<1> HIDE DEF now
<1>5. /\ r \in OpenTx /\ SameTx(now, r) /\ DOMAIN r.cols = now.assets
      /\ \A a \in Assets : Writes(r, a) =>
           /\ a \in now.assets
           /\ r.status[a] \in WithDraft => now.op \in OnDrafts
           /\ r.status[a] \in {"approved", "scheduled"} =>
                now.op \in {"approve", "uiApprove"} \cup Unlogged
  BY <1>2, <1>3, ReviewedTx
<1> HIDE DEF r
<1>6. r.op = t.op /\ r.assets = t.assets /\ DOMAIN r.cols = r.assets /\ r.dispatch = {}
  BY <1>3, <1>5 DEF SameTx
<1>7. /\ n \in OpenTx /\ Staged(n) /\ Asked(n)
      /\ n.op = r.op /\ n.stage = "flushed" /\ n.assets = r.assets /\ n.dispatch = {}
      /\ n.cols = r.cols /\ n.status = r.status
  BY <1>5, <1>6, FlushedTx DEF Asked
<1> HIDE DEF n
<1>8. \A a \in Assets : Writes(n, a) =>
        /\ a \in n.assets
        /\ n.status[a] \in WithDraft => n.op \in OnDrafts
        /\ n.status[a] \in {"approved", "scheduled"} =>
             n.op \in {"approve", "uiApprove"} \cup Unlogged
  BY <1>3, <1>5, <1>6, <1>7 DEF Writes
<1> QED
  BY <1>4, <1>6, <1>7, <1>8 DEF t

\* The updates of a generation: its rows' status, and extra_metadata when it ends.
Generating(t) ==
  [t EXCEPT !.stage = "generating", !.status = [a \in t.assets |-> "generating"]]

Unchecked(t) ==
  [t EXCEPT !.stage = "flushed", !.status = [a \in t.assets |-> "failed"],
            !.cols = [a \in t.assets |-> {"status", "blocked"}]]

Drafted(t, flagged) ==
  [t EXCEPT !.status = [a \in t.assets |-> "drafted"],
            !.blocked = [a \in t.assets |-> flagged],
            !.cols = [a \in t.assets |-> {"status", "blocked"}]]

LEMMA GeneratingTx ==
  ASSUME NEW t \in OpenTx, Staged(t), t.stage \in {"loaded", "generating"}
  PROVE  LET n == Generating(t)
         IN  /\ n \in OpenTx /\ n.op = t.op /\ n.stage = "generating" /\ n.assets = t.assets
             /\ n.next = "none" /\ n.dispatch = {} /\ DOMAIN n.cols = t.assets
             /\ n.campaign = t.campaign
             /\ \A a \in t.assets : n.cols[a] = {} /\ n.blocked[a] = t.blocked[a]
<1> DEFINE st == [a \in t.assets |-> "generating"]
           co == t.cols
           bl == t.blocked
           n == [op |-> t.op, stage |-> "generating", assets |-> t.assets, campaign |-> t.campaign,
                 status |-> st, blocked |-> bl, cols |-> co, next |-> t.next,
                 dispatch |-> t.dispatch]
<1>1. /\ DOMAIN t.cols = t.assets /\ t.next = "none" /\ t.dispatch = {}
      /\ \A a \in t.assets : t.cols[a] = {}
      /\ t.cols \in [t.assets -> SUBSET Columns] /\ t.blocked \in [t.assets -> BOOLEAN]
  BY TxParts DEF Staged
<1>2. /\ st \in [t.assets -> AssetStatus] /\ co \in [t.assets -> SUBSET Columns]
      /\ bl \in [t.assets -> BOOLEAN] /\ DOMAIN co = t.assets
      /\ \A a \in t.assets : st[a] = "generating" /\ co[a] = {}
  BY <1>1 DEF AssetStatus, Columns
<1>3. Generating(t) = [t EXCEPT !.stage = "generating", !.status = st]
  BY DEF Generating
<1> HIDE DEF st
<1>4. Generating(t) = n
  BY <1>3 DEF OpenTx, TxRecords
<1>5. n \in OpenTx
  BY <1>1, <1>2, TxParts, MakeTx DEF Stages
<1> QED
  BY <1>1, <1>2, <1>4, <1>5, SMT

LEMMA UncheckedTx ==
  ASSUME NEW t \in OpenTx, Staged(t), t.stage \in {"loaded", "generating"}
  PROVE  LET n == Unchecked(t)
         IN  /\ n \in OpenTx /\ n.op = t.op /\ n.stage = "flushed" /\ n.assets = t.assets
             /\ n.next = "none" /\ n.dispatch = {} /\ DOMAIN n.cols = t.assets
             /\ n.campaign = t.campaign
             /\ \A a \in t.assets : n.status[a] = "failed" /\ n.cols[a] = {"status", "blocked"}
<1> DEFINE st == [a \in t.assets |-> "failed"]
           co == [a \in t.assets |-> {"status", "blocked"}]
           bl == t.blocked
           n == [op |-> t.op, stage |-> "flushed", assets |-> t.assets, campaign |-> t.campaign,
                 status |-> st, blocked |-> bl, cols |-> co, next |-> t.next,
                 dispatch |-> t.dispatch]
<1>1. /\ DOMAIN t.cols = t.assets /\ t.next = "none" /\ t.dispatch = {}
      /\ \A a \in t.assets : t.cols[a] = {}
      /\ t.cols \in [t.assets -> SUBSET Columns] /\ t.blocked \in [t.assets -> BOOLEAN]
  BY TxParts DEF Staged
<1>2. /\ st \in [t.assets -> AssetStatus] /\ co \in [t.assets -> SUBSET Columns]
      /\ bl \in [t.assets -> BOOLEAN] /\ DOMAIN co = t.assets
      /\ \A a \in t.assets : st[a] = "failed" /\ co[a] = {"status", "blocked"}
  BY <1>1 DEF AssetStatus, Columns
<1>3. Unchecked(t) = [t EXCEPT !.stage = "flushed", !.status = st, !.cols = co]
  BY DEF Unchecked
<1> HIDE DEF st, co
<1>4. Unchecked(t) = n
  BY <1>3 DEF OpenTx, TxRecords
<1>5. n \in OpenTx
  BY <1>1, <1>2, TxParts, MakeTx DEF Stages
<1> QED
  BY <1>1, <1>2, <1>4, <1>5, SMT

LEMMA DraftedTx ==
  ASSUME NEW t \in OpenTx, Staged(t), t.stage \in {"loaded", "generating"},
         NEW flagged \in BOOLEAN
  PROVE  LET n == Drafted(t, flagged)
         IN  /\ n \in OpenTx /\ n.op = t.op /\ n.stage = t.stage /\ n.assets = t.assets
             /\ n.next = "none" /\ n.dispatch = {} /\ DOMAIN n.cols = t.assets
             /\ n.campaign = t.campaign
             /\ \A a \in t.assets : n.status[a] = "drafted" /\ n.cols[a] = {"status", "blocked"}
<1> DEFINE st == [a \in t.assets |-> "drafted"]
           co == [a \in t.assets |-> {"status", "blocked"}]
           bl == [a \in t.assets |-> flagged]
           n == [op |-> t.op, stage |-> t.stage, assets |-> t.assets, campaign |-> t.campaign,
                 status |-> st, blocked |-> bl, cols |-> co, next |-> t.next,
                 dispatch |-> t.dispatch]
<1>1. /\ DOMAIN t.cols = t.assets /\ t.next = "none" /\ t.dispatch = {}
      /\ \A a \in t.assets : t.cols[a] = {}
      /\ t.cols \in [t.assets -> SUBSET Columns] /\ t.blocked \in [t.assets -> BOOLEAN]
  BY TxParts DEF Staged
<1>2. /\ st \in [t.assets -> AssetStatus] /\ co \in [t.assets -> SUBSET Columns]
      /\ bl \in [t.assets -> BOOLEAN] /\ DOMAIN co = t.assets
      /\ \A a \in t.assets : st[a] = "drafted" /\ co[a] = {"status", "blocked"}
  BY <1>1 DEF AssetStatus, Columns
<1>3. Drafted(t, flagged) = [t EXCEPT !.status = st, !.blocked = bl, !.cols = co]
  BY DEF Drafted
<1> HIDE DEF st, co, bl
<1>4. Drafted(t, flagged) = n
  BY <1>3 DEF OpenTx, TxRecords
<1>5. n \in OpenTx
  BY <1>1, <1>2, TxParts, MakeTx DEF Stages
<1> QED
  BY <1>1, <1>2, <1>4, <1>5, SMT

\* A generation under way has written no column, a finished one a draft or a
\* failure.
LEMMA GenerateStep ==
  ASSUME Types, NEW p \in Sessions, Generate(p) \/ Draft(p) \/ DraftUnchecked(p)
  PROVE  \E n \in OpenTx :
           /\ Still /\ tx' = [tx EXCEPT ![p] = n] /\ Staged(n) /\ Asked(n)
           /\ n.op = "generate" /\ tx[p].op = "generate"
           /\ n.stage \in {"generating", "flushed"}
           /\ n.assets = tx[p].assets /\ n.dispatch = {}
           /\ \A a \in Assets : Writes(n, a) =>
                a \in n.assets /\ n.status[a] \in {"drafted", "failed"}
<1> DEFINE t == tx[p]
<1>1. t \in OpenTx /\ Staged(t) /\ t.op = "generate" /\ t.stage \in {"loaded", "generating"}
  BY OpenIsTx DEF Generate, Draft, DraftUnchecked, Staged
<1>2. CASE Generate(p)
  <2> DEFINE n == Generating(t)
  <2>2. Still /\ tx' = [tx EXCEPT ![p] = n]
    BY <1>2 DEF Generate, Step, Still, Generating
  <2>3. /\ n \in OpenTx /\ n.op = t.op /\ n.stage = "generating" /\ n.assets = t.assets
        /\ n.next = "none" /\ n.dispatch = {} /\ DOMAIN n.cols = t.assets
        /\ \A a \in t.assets : n.cols[a] = {}
    BY <1>1, GeneratingTx
  <2> HIDE DEF n
  <2>4. Staged(n) /\ Asked(n) /\ \A a \in Assets : ~Writes(n, a)
    BY <1>1, <2>3 DEF Staged, Asked, Writes
  <2> QED
    BY <1>1, <2>2, <2>3, <2>4
<1>3. CASE DraftUnchecked(p)
  <2> DEFINE n == Unchecked(t)
  <2>2. Still /\ tx' = [tx EXCEPT ![p] = n]
    BY <1>3 DEF DraftUnchecked, Step, Still, Unchecked
  <2>3. /\ n \in OpenTx /\ n.op = t.op /\ n.stage = "flushed" /\ n.assets = t.assets
        /\ n.next = "none" /\ n.dispatch = {} /\ DOMAIN n.cols = t.assets
        /\ \A a \in t.assets : n.status[a] = "failed"
    BY <1>1, UncheckedTx
  <2> HIDE DEF n
  <2>4. /\ Staged(n) /\ Asked(n)
        /\ \A a \in Assets : Writes(n, a) => a \in n.assets /\ n.status[a] = "failed"
    BY <1>1, <2>3 DEF Staged, Asked, Writes
  <2> QED
    BY <1>1, <2>2, <2>3, <2>4
<1>4. CASE Draft(p)
  <2>1. PICK flagged \in BOOLEAN : Step(p, Flushed(Drafted(t, flagged)))
    BY <1>4 DEF Draft, Drafted
  <2> DEFINE r == Drafted(t, flagged)
             n == Flushed(r)
  <2>2. Still /\ tx' = [tx EXCEPT ![p] = n]
    BY <2>1 DEF Step, Still
  <2>3. /\ r \in OpenTx /\ r.op = t.op /\ r.assets = t.assets
        /\ r.dispatch = {} /\ DOMAIN r.cols = t.assets
        /\ \A a \in t.assets : r.status[a] = "drafted"
    BY <1>1, DraftedTx, SMT
  <2> HIDE DEF r
  <2>4. /\ n \in OpenTx /\ Staged(n) /\ Asked(n)
        /\ n.op = r.op /\ n.stage = "flushed" /\ n.assets = r.assets /\ n.dispatch = {}
        /\ n.cols = r.cols /\ n.status = r.status
    BY <2>3, FlushedTx DEF Asked
  <2> HIDE DEF n
  <2>5. \A a \in Assets : Writes(n, a) => a \in n.assets /\ n.status[a] = "drafted"
    BY <2>3, <2>4 DEF Writes
  <2> QED
    BY <1>1, <2>2, <2>3, <2>4, <2>5
<1> QED
  BY <1>2, <1>3, <1>4

-----------------------------------------------------------------------------
\* The facts that back what a transaction is about to write.

\* The commit of t will record a draft of a.
Drafting(t, a) == t.op = "generate" /\ a \in t.assets /\ t.status[a] \in WithDraft

\* What is true of an open transaction t: it reviews drafts, it writes a status
\* past generation only where there is a draft or it commits one, and so for every
\* required asset once it is to submit or launch the campaign.
TxHasContent(t, req, con) ==
  /\ t.op \in OnDrafts => \A a \in t.assets : con[a]
  /\ \A a \in Assets : Writes(t, a) /\ t.status[a] \in WithDraft => con[a] \/ Drafting(t, a)
  /\ \/ t.next \in {"submit_for_approval", "start_launch"}
     \/ t.stage = "entered" /\ t.campaign \in Submitted
     => \A a \in Assets : Needs(t, req, a) => con[a] \/ Drafting(t, a)

\* The inductive invariant of ReviewedHasContent.
ContentInv ==
  /\ Types
  /\ \A a \in Assets : status[a] \in WithDraft => content[a]
  /\ \A a \in Assets : required[a] /\ campaign \in Submitted => content[a]
  /\ \A p \in Sessions : Open(p) => TxHasContent(tx[p], required, content)
-----------------------------------------------------------------------------
\* The commit of t will log an approval of a.
Deciding(t, a) == t.op \in {"approve", "uiApprove"} /\ a \in t.assets

\* What is true of an open transaction t, the assistant's apart: it approves,
\* schedules or dispatches only what has a decision or gets one with its commit,
\* and so for every required asset once it is to launch the campaign.
TxHasDecision(t, req, dec) ==
  /\ t.op \notin Unlogged
  /\ \A a \in Assets :
       Writes(t, a) /\ t.status[a] \in {"approved", "scheduled"} => dec[a] \/ Deciding(t, a)
  /\ \A a \in t.dispatch : dec[a] \/ Deciding(t, a)
  /\ \/ t.next = "start_launch"
     \/ t.stage = "entered" /\ t.campaign = "ready_to_launch"
     => \A a \in Assets : Needs(t, req, a) => dec[a] \/ Deciding(t, a)

\* The inductive invariant of DecisionBeforeDispatch.
DecisionInv ==
  /\ Types
  /\ \A a \in Assets : status[a] \in {"approved", "scheduled"} => decided[a]
  /\ DecisionBeforeDispatch
  /\ \A p \in Sessions : Open(p) => TxHasDecision(tx[p], required, decided)
-----------------------------------------------------------------------------
LEMMA StillContent ==
  ASSUME ContentInv, NEW p \in Sessions, NEW n \in OpenTx \cup {NoTx}, Still,
         tx' = [tx EXCEPT ![p] = n],
         n # NoTx => Staged(n) /\ TxHasContent(n, required, content)
  PROVE  ContentInv'
<1>1. Types'
  BY StillTypes DEF ContentInv
<1>2. \A q \in Sessions : tx'[q] = IF q = p THEN n ELSE tx[q]
  BY DEF ContentInv, Types
<1>3. UNCHANGED <<campaign, status, required, content>>
  BY DEF Still, table, ghosts
<1>4. \A q \in Sessions : Open(q)' => TxHasContent(tx'[q], required', content')
  BY <1>2, <1>3, SMT DEF ContentInv, Open, NoTx
<1> QED
  BY <1>1, <1>3, <1>4 DEF ContentInv

LEMMA StillDecision ==
  ASSUME DecisionInv, NEW p \in Sessions, NEW n \in OpenTx \cup {NoTx}, Still,
         tx' = [tx EXCEPT ![p] = n],
         n # NoTx => Staged(n) /\ TxHasDecision(n, required, decided)
  PROVE  DecisionInv'
<1>1. Types'
  BY StillTypes DEF DecisionInv
<1>2. \A q \in Sessions : tx'[q] = IF q = p THEN n ELSE tx[q]
  BY DEF DecisionInv, Types
<1>3. UNCHANGED <<campaign, status, required, decided, dispatches>>
  BY DEF Still, table, ghosts
<1>4. \A q \in Sessions : Open(q)' => TxHasDecision(tx'[q], required', decided')
  BY <1>2, <1>3, SMT DEF DecisionInv, Open, NoTx
<1> QED
  BY <1>1, <1>3, <1>4 DEF DecisionInv, DecisionBeforeDispatch
-----------------------------------------------------------------------------
\* The rows on_enter changes, and those it schedules.
Changed(t) == {a \in Assets : Entered(t).status[a] # View(t).status[a]}

Scheduling(t) == {a \in Changed(t) : Entered(t).status[a] = "scheduled"}

EnterColumns(t, warned, a) ==
  (IF a \in t.assets THEN t.cols[a] ELSE {})
  \cup (IF a \in Changed(t)
        THEN IF a \in Scheduling(t) \ warned THEN {"status"} ELSE {"status", "blocked"}
        ELSE {})

Entering(t, warned) ==
  [t EXCEPT
     !.stage = "entered",
     !.campaign = Entered(t).campaign,
     !.dispatch = Scheduling(t),
     !.status = [a \in t.assets \cup Changed(t) |->
                   IF a \in Changed(t) THEN Entered(t).status[a] ELSE t.status[a]],
     !.blocked = [a \in t.assets \cup Changed(t) |->
                    IF a \in t.assets THEN t.blocked[a] ELSE blocked[a]],
     !.cols = [a \in t.assets \cup Changed(t) |-> EnterColumns(t, warned, a)]]

\* What entering a transition adds to a transaction: the rows on_enter changed.
LEMMA EnteringTx ==
  ASSUME Types, NEW t \in OpenTx, Staged(t), t.stage = "flushed", t.next # "none",
         NEW warned
  PROVE  LET n == Entering(t, warned)
         IN  /\ n \in OpenTx /\ Staged(n)
             /\ n.op = t.op /\ n.stage = "entered" /\ n.assets = t.assets /\ n.next = t.next
             /\ n.campaign = Entered(t).campaign /\ n.dispatch = Scheduling(t)
             /\ \A a \in Assets :
                  /\ Needs(n, required, a) <=> Needs(t, required, a)
                  /\ a \in Changed(t) => n.status[a] = Entered(t).status[a]
                  /\ a \in t.assets \ Changed(t) => n.status[a] = t.status[a]
                  /\ Writes(n, a) <=> a \in Changed(t) \/ Writes(t, a)
                  /\ a \in DOMAIN n.cols <=> a \in t.assets \cup Changed(t)
                  /\ a \in t.assets => /\ t.cols[a] \subseteq n.cols[a]
                                       /\ n.blocked[a] = t.blocked[a]
                  /\ a \in Changed(t) \ t.assets => n.blocked[a] = blocked[a]
<1> DEFINE D == t.assets \cup Changed(t)
           v == Entered(t)
           di == Scheduling(t)
           st == [a \in D |-> IF a \in Changed(t) THEN v.status[a] ELSE t.status[a]]
           bl == [a \in D |-> IF a \in t.assets THEN t.blocked[a] ELSE blocked[a]]
           co == [a \in D |-> EnterColumns(t, warned, a)]
           n == [op |-> t.op, stage |-> "entered", assets |-> t.assets, campaign |-> v.campaign,
                 status |-> st, blocked |-> bl, cols |-> co, next |-> t.next,
                 dispatch |-> di]
<1>1. /\ DOMAIN t.cols = t.assets /\ t.assets \subseteq Assets
      /\ t.status \in [t.assets -> AssetStatus] /\ t.blocked \in [t.assets -> BOOLEAN]
      /\ t.cols \in [t.assets -> SUBSET Columns]
  BY TxParts DEF Staged
<1>2. v.status \in [Assets -> AssetStatus] /\ v.campaign \in CampaignStatus
  BY EnteredView DEF IsView
<1>3. /\ Changed(t) \subseteq Assets /\ di \subseteq Assets
      /\ D \in SUBSET Assets /\ t.assets \in SUBSET D
  BY <1>1 DEF Changed, Scheduling
<1>4. \A a \in Assets :
        /\ EnterColumns(t, warned, a) \in SUBSET Columns
        /\ "required" \in EnterColumns(t, warned, a) <=> a \in t.assets /\ "required" \in t.cols[a]
        /\ "status" \in EnterColumns(t, warned, a) <=>
             a \in Changed(t) \/ (a \in t.assets /\ "status" \in t.cols[a])
        /\ a \in t.assets => t.cols[a] \subseteq EnterColumns(t, warned, a)
  BY <1>1 DEF EnterColumns, Columns
<1>5. Entering(t, warned) =
        [t EXCEPT !.stage = "entered", !.campaign = v.campaign, !.dispatch = di,
                  !.status = st, !.blocked = bl, !.cols = co]
  BY DEF Entering
<1> HIDE DEF v, di
<1>6. st \in [D -> AssetStatus]
  BY <1>1, <1>2, <1>3
<1>7. bl \in [D -> BOOLEAN]
  BY <1>1, <1>3 DEF Types
<1>8. co \in [D -> SUBSET Columns]
  BY <1>3, <1>4
<1>9. /\ DOMAIN co = D
      /\ \A a \in D : /\ st[a] = IF a \in Changed(t) THEN v.status[a] ELSE t.status[a]
                      /\ bl[a] = IF a \in t.assets THEN t.blocked[a] ELSE blocked[a]
                      /\ co[a] = EnterColumns(t, warned, a)
  OBVIOUS
<1> HIDE DEF st, bl, co
<1>10. Entering(t, warned) = n
  BY <1>5 DEF OpenTx, TxRecords
<1> HIDE DEF D
<1>11. n \in OpenTx
  BY <1>2, <1>3, <1>6, <1>7, <1>8, TxParts, MakeTx DEF Stages
<1>12. Staged(n)
  BY DEF Staged
<1>13. \A a \in Assets :
         /\ Needs(n, required, a) <=> Needs(t, required, a)
         /\ a \in Changed(t) => n.status[a] = v.status[a]
         /\ a \in t.assets \ Changed(t) => n.status[a] = t.status[a]
         /\ Writes(n, a) <=> a \in Changed(t) \/ Writes(t, a)
  BY <1>1, <1>3, <1>4, <1>9, SMT DEF Needs, Writes, D
<1>14. \A a \in Assets :
         /\ a \in DOMAIN n.cols <=> a \in t.assets \cup Changed(t)
         /\ a \in t.assets => t.cols[a] \subseteq n.cols[a] /\ n.blocked[a] = t.blocked[a]
         /\ a \in Changed(t) \ t.assets => n.blocked[a] = blocked[a]
  BY <1>4, <1>9, SMT DEF D
<1> QED
  BY <1>10, <1>11, <1>12, <1>13, <1>14, SMT DEF v, di

LEMMA EnterStep ==
  ASSUME Types, NEW p \in Sessions, Enter(p)
  PROVE  \E warned :
           /\ Still /\ tx' = [tx EXCEPT ![p] = Entering(tx[p], warned)]
           /\ tx[p] \in OpenTx /\ Staged(tx[p]) /\ tx[p].stage = "flushed"
           /\ tx[p].next # "none"
<1>1. tx[p] \in OpenTx /\ Staged(tx[p]) /\ tx[p].stage = "flushed" /\ tx[p].next # "none"
  BY OpenIsTx DEF Enter
<1>2. \E warned : Step(p, Entering(tx[p], warned))
  BY DEF Enter, Entering, EnterColumns, Changed, Scheduling
<1> QED
  BY <1>1, <1>2 DEF Step, Still
-----------------------------------------------------------------------------
\* The rows and histories after a commit: t's writes over the rows, is_required
\* only cleared, drafts and decisions only added (Commit).
LEMMA CommitStep ==
  ASSUME Types, NEW p \in Sessions, Commit(p)
  PROVE  LET t == tx[p]
         IN  /\ Types' /\ t \in OpenTx
             /\ t.stage = "entered" \/ (t.stage = "flushed" /\ t.next = "none")
             /\ campaign' = IF t.stage = "entered" THEN t.campaign ELSE campaign
             /\ \A a \in Assets :
                  /\ status'[a] = Seen(t, a)
                  /\ required'[a] <=> Needs(t, required, a)
                  /\ content[a] \/ Drafting(t, a) => content'[a]
                  /\ decided'[a] <=> decided[a] \/ Deciding(t, a)
                  /\ dispatches'[a] = IF a \in t.dispatch THEN dispatches[a] + 1
                                                          ELSE dispatches[a]
             /\ \A q \in Sessions : Open(q)' => q # p /\ Open(q) /\ tx'[q] = tx[q]
<1> DEFINE t == tx[p]
<1>1. t \in OpenTx /\ Staged(t)
  BY OpenIsTx DEF Commit
<1>2. /\ View(t).status \in [Assets -> AssetStatus]
      /\ View(t).required \in [Assets -> BOOLEAN]
      /\ View(t).blocked \in [Assets -> BOOLEAN]
      /\ \A a \in Assets :
           /\ View(t).status[a] = Seen(t, a)
           /\ View(t).required[a] <=> Needs(t, required, a)
  BY <1>1, ViewRows DEF Seen
<1>3. /\ campaign' = IF t.stage = "entered" THEN t.campaign ELSE campaign
      /\ t.stage = "entered" \/ (t.stage = "flushed" /\ t.next = "none")
      /\ status' = View(t).status /\ required' = View(t).required
      /\ blocked' = View(t).blocked /\ tx' = [tx EXCEPT ![p] = NoTx]
  BY DEF Commit
<1>4. /\ content' \in [Assets -> BOOLEAN]
      /\ \A a \in Assets : content[a] \/ Drafting(t, a) => content'[a]
  BY DEF Commit, Drafting, WithDraft, Types
<1>5. /\ decided' \in [Assets -> BOOLEAN]
      /\ \A a \in Assets : decided'[a] <=> decided[a] \/ Deciding(t, a)
  BY DEF Commit, Deciding, Types
<1>6. /\ dispatches' \in [Assets -> Nat]
      /\ \A a \in Assets :
           dispatches'[a] = IF a \in t.dispatch THEN dispatches[a] + 1 ELSE dispatches[a]
  BY SMT DEF Commit, Types
<1>7. /\ tx' \in [Sessions -> OpenTx \cup {NoTx}]
      /\ \A q \in Sessions : tx'[q] = IF q = p THEN NoTx ELSE tx[q]
  BY <1>3 DEF Types
<1>8. \A q \in Sessions : Open(q)' => q # p /\ Open(q) /\ tx'[q] = tx[q]
  BY <1>7, SMT DEF Open, NoTx
<1>9. campaign' \in CampaignStatus
  BY <1>1, <1>3, TxParts DEF Types
<1>10. Types'
  BY <1>2, <1>3, <1>4, <1>5, <1>6, <1>7, <1>8, <1>9 DEF Types
<1> QED
  BY <1>1, <1>2, <1>3, <1>4, <1>5, <1>6, <1>8, <1>10

\* What is true of a transaction stays true as rows lose is_required and gain drafts
\* and decisions.
LEMMA ContentKept ==
  ASSUME NEW t, NEW req, NEW con, NEW req1, NEW con1, TxHasContent(t, req, con),
         \A a \in Assets : (req1[a] => req[a]) /\ (con[a] => con1[a]),
         t.assets \subseteq Assets
  PROVE  TxHasContent(t, req1, con1)
BY DEF TxHasContent, Needs

LEMMA DecisionKept ==
  ASSUME NEW t, NEW req, NEW dec, NEW req1, NEW dec1, TxHasDecision(t, req, dec),
         \A a \in Assets : (req1[a] => req[a]) /\ (dec[a] => dec1[a]),
         t.dispatch \subseteq Assets
  PROVE  TxHasDecision(t, req1, dec1)
BY DEF TxHasDecision, Needs

\* A transaction is given up, or its task is (Abort, Exhaust).
LEMMA GiveUpStep ==
  ASSUME NEW p \in Sessions, Abort(p) \/ Exhaust(p)
  PROVE  Still /\ tx' = [tx EXCEPT ![p] = NoTx]
BY DEF Abort, Exhaust, Still
-----------------------------------------------------------------------------
LEMMA ContentInit ==
  Init => ContentInv
<1> SUFFICES ASSUME Init PROVE ContentInv
  OBVIOUS
<1>1. \A p \in Sessions : ~Open(p)
  BY DEF Init, Open, NoTx
<1>2. Types
  BY <1>1 DEF Init, Types, AssetStatus, CampaignStatus
<1> QED
  BY <1>1, <1>2 DEF Init, ContentInv, WithDraft, Submitted

\* What a transaction sees of an asset past generation is backed by a draft.
LEMMA SeenHasContent ==
  ASSUME ContentInv, NEW t, TxHasContent(t, required, content), NEW a \in Assets,
         Seen(t, a) \in WithDraft
  PROVE  content[a] \/ Drafting(t, a)
BY DEF ContentInv, TxHasContent, Seen

LEMMA ContentFlush ==
  ASSUME ContentInv, NEW p \in Sessions,
         Flush(p) \/ Generate(p) \/ Draft(p) \/ DraftUnchecked(p)
  PROVE  ContentInv'
<1>1. Types
  BY DEF ContentInv
<1>2. Open(p) /\ TxHasContent(tx[p], required, content)
  BY DEF ContentInv, Flush, Generate, Draft, DraftUnchecked
<1>3. PICK n \in OpenTx :
        /\ Still /\ tx' = [tx EXCEPT ![p] = n] /\ Staged(n) /\ Asked(n)
        /\ n.stage # "entered" /\ n.assets = tx[p].assets
        /\ n.op \in OnDrafts => n.op = tx[p].op
        /\ \A a \in Assets : Writes(n, a) =>
             /\ a \in n.assets
             /\ n.status[a] \in WithDraft => n.op \in OnDrafts \/ n.op = "generate"
  <2>1. CASE Flush(p)
    BY <1>1, <2>1, FlushStep
  <2>2. CASE ~Flush(p)
    BY <1>1, <2>2, GenerateStep DEF OnDrafts
  <2> QED
    BY <2>1, <2>2
<1>4. n.op \in OnDrafts => \A a \in n.assets : content[a]
  BY <1>2, <1>3 DEF TxHasContent
<1>5. \A a \in Assets : Writes(n, a) /\ n.status[a] \in WithDraft => content[a] \/ Drafting(n, a)
  BY <1>3, <1>4 DEF Drafting
<1>6. ASSUME NEW a \in Assets, Seen(n, a) \in WithDraft
      PROVE  content[a] \/ Drafting(n, a)
  BY <1>5, <1>6 DEF Seen, ContentInv
<1>7. ASSUME NEW a \in Assets PROVE Seen(n, a) \in AssetStatus
  <2>1. CASE Writes(n, a)
    BY <2>1, TxParts DEF Seen, Writes
  <2>2. CASE ~Writes(n, a)
    BY <1>1, <2>2 DEF Seen, Types
  <2> QED
    BY <2>1, <2>2
<1>8. ASSUME n.next \in {"submit_for_approval", "start_launch"},
             NEW a \in Assets, Needs(n, required, a)
      PROVE  content[a] \/ Drafting(n, a)
  <2>1. Seen(n, a) \in WithDraft
    BY <1>3, <1>7, <1>8 DEF Asked, WithDraft, AssetStatus
  <2> QED
    BY <1>6, <2>1
<1>9. TxHasContent(n, required, content)
  BY <1>3, <1>4, <1>5, <1>8 DEF TxHasContent
<1> QED
  BY <1>3, <1>9, StillContent

LEMMA ContentEnter ==
  ASSUME ContentInv, NEW p \in Sessions, Enter(p)
  PROVE  ContentInv'
<1>1. Types /\ TxHasContent(tx[p], required, content)
  BY DEF ContentInv, Enter
<1> DEFINE t == tx[p]
           v == Entered(t)
<1>2. PICK warned :
        /\ Still /\ tx' = [tx EXCEPT ![p] = Entering(t, warned)]
        /\ t \in OpenTx /\ Staged(t) /\ t.stage = "flushed" /\ t.next # "none"
  BY <1>1, EnterStep
<1> DEFINE n == Entering(t, warned)
<1>3. /\ n \in OpenTx /\ Staged(n)
      /\ n.op = t.op /\ n.assets = t.assets /\ n.next = t.next
      /\ n.campaign = v.campaign
      /\ \A a \in Assets :
           /\ Needs(n, required, a) <=> Needs(t, required, a)
           /\ a \in Changed(t) => n.status[a] = v.status[a]
           /\ a \in t.assets \ Changed(t) => n.status[a] = t.status[a]
           /\ Writes(n, a) => a \in Changed(t) \/ Writes(t, a)
  BY <1>1, <1>2, EnteringTx, SMT
<1>4. /\ \A a \in Assets :
           \/ v.status[a] = View(t).status[a]
           \/ View(t).status[a] = "drafted" /\ v.status[a] = "pending_approval"
           \/ View(t).status[a] = "approved" /\ v.status[a] = "scheduled"
      /\ v.campaign \in Submitted =>
           \/ t.next \in {"submit_for_approval", "start_launch"}
           \/ \A a \in Assets : View(t).required[a] => View(t).status[a] = "approved"
  BY <1>1, <1>2, EnteredView
<1>5. \A a \in Assets : /\ View(t).status[a] = Seen(t, a)
                        /\ View(t).required[a] <=> Needs(t, required, a)
  BY <1>1, <1>2, ViewRows DEF Seen
<1>6. \A a \in Assets : Seen(t, a) \in WithDraft => content[a] \/ Drafting(t, a)
  BY <1>1, SeenHasContent
<1>7. \A a \in Changed(t) :
        a \in Assets /\ Seen(t, a) \in WithDraft /\ v.status[a] \in WithDraft
  BY <1>4, <1>5 DEF Changed, WithDraft
<1>8. DOMAIN t.cols = t.assets /\ t.assets \subseteq Assets
  BY <1>2, TxParts DEF Staged
<1> HIDE DEF n, v, t
<1>9. ASSUME NEW a \in Assets, Drafting(t, a) PROVE Drafting(n, a)
  BY <1>3, <1>7, <1>9 DEF Drafting
<1>10. \A a \in Assets : Writes(n, a) /\ n.status[a] \in WithDraft => content[a] \/ Drafting(n, a)
  <2> SUFFICES ASSUME NEW a \in Assets, Writes(n, a), n.status[a] \in WithDraft
               PROVE  content[a] \/ Drafting(n, a)
    OBVIOUS
  <2>1. CASE a \in Changed(t)
    BY <1>6, <1>7, <1>9, <2>1
  <2>2. CASE a \notin Changed(t)
    <3>1. Writes(t, a) /\ a \in t.assets /\ n.status[a] = t.status[a]
      BY <1>3, <1>8, <2>2 DEF Writes
    <3> QED
      BY <1>6, <1>9, <3>1 DEF Seen
  <2> QED
    BY <2>1, <2>2
<1>11. ASSUME n.next \in {"submit_for_approval", "start_launch"} \/ n.campaign \in Submitted,
              NEW a \in Assets, Needs(n, required, a)
       PROVE  content[a] \/ Drafting(n, a)
  <2>1. Needs(t, required, a)
    BY <1>3, <1>11
  <2>2. CASE t.next \in {"submit_for_approval", "start_launch"}
    BY <1>1, <1>9, <2>1, <2>2 DEF TxHasContent, t
  <2>3. CASE t.next \notin {"submit_for_approval", "start_launch"}
    <3>1. Seen(t, a) = "approved"
      BY <1>3, <1>4, <1>5, <1>11, <2>1, <2>3, SMT
    <3> QED
      BY <1>6, <1>9, <3>1 DEF WithDraft
  <2> QED
    BY <2>2, <2>3
<1>12. n.op \in OnDrafts => \A a \in n.assets : content[a]
  BY <1>1, <1>3 DEF TxHasContent, t
<1>13. TxHasContent(n, required, content)
  BY <1>10, <1>11, <1>12 DEF TxHasContent
<1> QED
  BY <1>2, <1>3, <1>13, StillContent DEF n

LEMMA ContentCommit ==
  ASSUME ContentInv, NEW p \in Sessions, Commit(p)
  PROVE  ContentInv'
<1> DEFINE t == tx[p]
<1>1. Types /\ TxHasContent(t, required, content)
  BY DEF ContentInv, Commit
<1>2. /\ Types' /\ t \in OpenTx
      /\ campaign' = IF t.stage = "entered" THEN t.campaign ELSE campaign
      /\ \A a \in Assets :
           /\ status'[a] = Seen(t, a)
           /\ required'[a] <=> Needs(t, required, a)
           /\ content[a] \/ Drafting(t, a) => content'[a]
           /\ decided'[a] <=> decided[a] \/ Deciding(t, a)
      /\ \A q \in Sessions : Open(q)' => q # p /\ Open(q) /\ tx'[q] = tx[q]
  BY <1>1, CommitStep
<1>3. \A a \in Assets : status'[a] \in WithDraft => content'[a]
  BY <1>1, <1>2, SeenHasContent
<1>4. \A a \in Assets : required'[a] /\ campaign' \in Submitted => content'[a]
  <2> SUFFICES ASSUME NEW a \in Assets, required'[a], campaign' \in Submitted
               PROVE  content[a] \/ Drafting(t, a)
    BY <1>2
  <2>1. Needs(t, required, a)
    BY <1>2
  <2>2. CASE t.stage = "entered"
    BY <1>1, <1>2, <2>1, <2>2 DEF TxHasContent
  <2>3. CASE t.stage # "entered"
    BY <1>2, <2>1, <2>3 DEF ContentInv, Needs
  <2> QED
    BY <2>2, <2>3
<1>5. \A a \in Assets : /\ required'[a] => required[a]
                        /\ content[a] => content'[a]
                        /\ decided[a] => decided'[a]
  BY <1>2 DEF Needs
<1>6. ASSUME NEW q \in Sessions, Open(q)' PROVE TxHasContent(tx'[q], required', content')
  <2>1. Open(q) /\ tx'[q] = tx[q]
    BY <1>2, <1>6
  <2>2. tx[q].assets \subseteq Assets /\ tx[q].dispatch \subseteq Assets
    BY <1>1, <2>1, OpenIsTx, TxParts
  <2>3. TxHasContent(tx[q], required, content)
    BY <2>1 DEF ContentInv
  <2> QED
    BY <1>5, <2>1, <2>2, <2>3, ContentKept
<1> QED
  BY <1>2, <1>3, <1>4, <1>6 DEF ContentInv

LEMMA ContentStep ==
  ContentInv /\ [Next]_vars => ContentInv'
<1> SUFFICES ASSUME ContentInv, [Next]_vars PROVE ContentInv'
  OBVIOUS
<1>1. CASE UNCHANGED vars
  <2>1. UNCHANGED <<campaign, status, required, blocked, tx, content, decided, dispatches>>
    BY <1>1 DEF vars, table, ghosts
  <2> QED
    BY <2>1 DEF ContentInv, Types, Open
<1>2. ASSUME NEW p \in Sessions,
             \/ \E a \in Assets :
                  LoadGenerate(p, a) \/ \E op \in ReviewOps : LoadReview(p, op, a)
             \/ LoadApproveAll(p)
             \/ \E name \in Transitions : LoadTransition(p, name)
      PROVE  ContentInv'
  <2>1. PICK n \in OpenTx :
          /\ Still /\ tx' = [tx EXCEPT ![p] = n] /\ Staged(n)
          /\ n.stage = "loaded" /\ n.next = "none"
          /\ \A a \in Assets : ~Writes(n, a)
          /\ n.op \in OnDrafts => \A a \in n.assets : status[a] \in WithDraft
    BY <1>2, BeginStep DEF ContentInv
  <2>2. n.assets \subseteq Assets
    BY TxParts
  <2>3. TxHasContent(n, required, content)
    BY <2>1, <2>2 DEF TxHasContent, ContentInv
  <2> QED
    BY <2>1, <2>3, StillContent
<1>3. ASSUME NEW p \in Sessions, Abort(p) \/ Exhaust(p) PROVE ContentInv'
  BY <1>3, GiveUpStep, StillContent
<1> QED
  BY <1>1, <1>2, <1>3, ContentFlush, ContentEnter, ContentCommit DEF Next

\* Nothing empty is ever reviewed (ReviewedHasContent), for any assets, any sessions
\* and any operations: not although the submission check, the flip to
\* pending_approval and the commit are separate steps of every session.
THEOREM NothingEmptyReviewed == Spec => []ReviewedHasContent
<1>1. ContentInv => ReviewedHasContent
  BY DEF ContentInv, ReviewedHasContent, WithDraft, Submitted
<1> QED
  BY <1>1, ContentInit, ContentStep, PTL DEF Spec
-----------------------------------------------------------------------------
LEMMA DecisionInit ==
  Init => DecisionInv
<1> SUFFICES ASSUME Init PROVE DecisionInv
  OBVIOUS
<1>1. \A p \in Sessions : ~Open(p)
  BY DEF Init, Open, NoTx
<1>2. Types
  BY ContentInit DEF ContentInv
<1>3. DecisionBeforeDispatch
  BY SMT DEF Init, DecisionBeforeDispatch
<1> QED
  BY <1>1, <1>2, <1>3 DEF Init, DecisionInv

\* What a transaction sees approved has a decision, or gets it with its commit.
LEMMA SeenHasDecision ==
  ASSUME DecisionInv, NEW t, TxHasDecision(t, required, decided), NEW a \in Assets,
         Seen(t, a) \in {"approved", "scheduled"}
  PROVE  decided[a] \/ Deciding(t, a)
BY DEF DecisionInv, TxHasDecision, Seen

LEMMA DecisionFlush ==
  ASSUME DecisionInv, NEW p \in Sessions,
         Flush(p) \/ Generate(p) \/ Draft(p) \/ DraftUnchecked(p)
  PROVE  DecisionInv'
<1>1. Types
  BY DEF DecisionInv
<1>2. Open(p) /\ TxHasDecision(tx[p], required, decided)
  BY DEF DecisionInv, Flush, Generate, Draft, DraftUnchecked
<1>3. PICK n \in OpenTx :
        /\ Still /\ tx' = [tx EXCEPT ![p] = n] /\ Staged(n) /\ Asked(n)
        /\ n.stage # "entered" /\ n.dispatch = {}
        /\ n.op = "generate" \/ n.op = tx[p].op
        /\ \A a \in Assets : Writes(n, a) =>
             /\ a \in n.assets
             /\ n.status[a] \in {"approved", "scheduled"} =>
                  n.op \in {"approve", "uiApprove"} \cup Unlogged
  <2>1. CASE Flush(p)
    BY <1>1, <2>1, FlushStep
  <2>2. CASE ~Flush(p)
    BY <1>1, <2>2, GenerateStep
  <2> QED
    BY <2>1, <2>2
<1>4. n.op \notin Unlogged
  BY <1>2, <1>3 DEF TxHasDecision, Unlogged
<1>5. \A a \in Assets :
        Writes(n, a) /\ n.status[a] \in {"approved", "scheduled"} => Deciding(n, a)
  BY <1>3, <1>4 DEF Deciding
<1>6. ASSUME n.next = "start_launch", NEW a \in Assets, Needs(n, required, a)
      PROVE  decided[a] \/ Deciding(n, a)
  <2>1. Seen(n, a) = "approved"
    BY <1>3, <1>6 DEF Asked
  <2> QED
    BY <1>5, <2>1 DEF Seen, DecisionInv
<1>7. TxHasDecision(n, required, decided)
  BY <1>3, <1>4, <1>5, <1>6 DEF TxHasDecision
<1> QED
  BY <1>3, <1>7, StillDecision

LEMMA DecisionEnter ==
  ASSUME DecisionInv, NEW p \in Sessions, Enter(p)
  PROVE  DecisionInv'
<1>1. Types /\ TxHasDecision(tx[p], required, decided)
  BY DEF DecisionInv, Enter
<1> DEFINE t == tx[p]
           v == Entered(t)
<1>2. PICK warned :
        /\ Still /\ tx' = [tx EXCEPT ![p] = Entering(t, warned)]
        /\ t \in OpenTx /\ Staged(t) /\ t.stage = "flushed" /\ t.next # "none"
  BY <1>1, EnterStep
<1> DEFINE n == Entering(t, warned)
<1>3. /\ n \in OpenTx /\ Staged(n)
      /\ n.op = t.op /\ n.assets = t.assets /\ n.next = t.next
      /\ n.campaign = v.campaign /\ n.dispatch = Scheduling(t)
      /\ \A a \in Assets :
           /\ Needs(n, required, a) <=> Needs(t, required, a)
           /\ a \in Changed(t) => n.status[a] = v.status[a]
           /\ a \in t.assets \ Changed(t) => n.status[a] = t.status[a]
           /\ Writes(n, a) => a \in Changed(t) \/ Writes(t, a)
  BY <1>1, <1>2, EnteringTx, SMT
<1>4. /\ \A a \in Assets :
           \/ v.status[a] = View(t).status[a]
           \/ View(t).status[a] = "drafted" /\ v.status[a] = "pending_approval"
           \/ View(t).status[a] = "approved" /\ v.status[a] = "scheduled"
      /\ v.campaign = "ready_to_launch" =>
           \/ t.next = "start_launch"
           \/ \A a \in Assets : View(t).required[a] => View(t).status[a] = "approved"
  BY <1>1, <1>2, EnteredView
<1>5. \A a \in Assets : /\ View(t).status[a] = Seen(t, a)
                        /\ View(t).required[a] <=> Needs(t, required, a)
  BY <1>1, <1>2, ViewRows DEF Seen
<1>6. \A a \in Assets :
        Seen(t, a) \in {"approved", "scheduled"} => decided[a] \/ Deciding(t, a)
  BY <1>1, SeenHasDecision
<1>7. /\ \A a \in Changed(t) :
           /\ a \in Assets
           /\ v.status[a] \in {"approved", "scheduled"} => Seen(t, a) = "approved"
      /\ \A a \in Scheduling(t) : a \in Assets /\ Seen(t, a) = "approved"
  BY <1>4, <1>5 DEF Changed, Scheduling
<1>8. DOMAIN t.cols = t.assets /\ t.assets \subseteq Assets
  BY <1>2, TxParts DEF Staged
<1> HIDE DEF n, v, t
<1>9. \A a \in Assets : Deciding(t, a) => Deciding(n, a)
  BY <1>3 DEF Deciding
<1>10. \A a \in Assets :
         Writes(n, a) /\ n.status[a] \in {"approved", "scheduled"} =>
           decided[a] \/ Deciding(n, a)
  <2> SUFFICES ASSUME NEW a \in Assets, Writes(n, a),
                      n.status[a] \in {"approved", "scheduled"}
               PROVE  decided[a] \/ Deciding(n, a)
    OBVIOUS
  <2>1. CASE a \in Changed(t)
    BY <1>3, <1>6, <1>7, <1>9, <2>1
  <2>2. CASE a \notin Changed(t)
    <3>1. Writes(t, a) /\ a \in t.assets /\ n.status[a] = t.status[a]
      BY <1>3, <1>8, <2>2 DEF Writes
    <3> QED
      BY <1>6, <1>9, <3>1 DEF Seen
  <2> QED
    BY <2>1, <2>2
<1>11. ASSUME n.next = "start_launch" \/ n.campaign = "ready_to_launch",
              NEW a \in Assets, Needs(n, required, a)
       PROVE  decided[a] \/ Deciding(n, a)
  <2>1. Needs(t, required, a)
    BY <1>3, <1>11
  <2>2. CASE t.next = "start_launch"
    BY <1>1, <1>9, <2>1, <2>2 DEF TxHasDecision, t
  <2>3. CASE t.next # "start_launch"
    <3>1. Seen(t, a) = "approved"
      BY <1>3, <1>4, <1>5, <1>11, <2>1, <2>3
    <3> QED
      BY <1>6, <1>9, <3>1
  <2> QED
    BY <2>2, <2>3
<1>12. \A a \in n.dispatch : decided[a] \/ Deciding(n, a)
  BY <1>3, <1>6, <1>7, <1>9
<1>13. n.op \notin Unlogged
  BY <1>1, <1>3 DEF TxHasDecision, t
<1>14. TxHasDecision(n, required, decided)
  BY <1>10, <1>11, <1>12, <1>13 DEF TxHasDecision
<1> QED
  BY <1>2, <1>3, <1>14, StillDecision DEF n

LEMMA DecisionCommit ==
  ASSUME DecisionInv, NEW p \in Sessions, Commit(p)
  PROVE  DecisionInv'
<1> DEFINE t == tx[p]
<1>1. Types /\ TxHasDecision(t, required, decided)
  BY DEF DecisionInv, Commit
<1>2. /\ Types' /\ t \in OpenTx
      /\ campaign' = IF t.stage = "entered" THEN t.campaign ELSE campaign
      /\ \A a \in Assets :
           /\ status'[a] = Seen(t, a)
           /\ required'[a] <=> Needs(t, required, a)
           /\ content[a] \/ Drafting(t, a) => content'[a]
           /\ decided'[a] <=> decided[a] \/ Deciding(t, a)
           /\ dispatches'[a] = IF a \in t.dispatch THEN dispatches[a] + 1 ELSE dispatches[a]
      /\ \A q \in Sessions : Open(q)' => q # p /\ Open(q) /\ tx'[q] = tx[q]
  BY <1>1, CommitStep
<1>3. \A a \in Assets : status'[a] \in {"approved", "scheduled"} => decided'[a]
  BY <1>1, <1>2, SeenHasDecision
<1>4. \A a \in Assets : dispatches'[a] > 0 => decided'[a]
  <2>1. \A a \in Assets : a \notin t.dispatch => dispatches'[a] = dispatches[a]
    BY <1>2
  <2> QED
    BY <1>1, <1>2, <2>1 DEF DecisionInv, DecisionBeforeDispatch, TxHasDecision
<1>5. ASSUME campaign' = "ready_to_launch", NEW a \in Assets, required'[a] PROVE decided'[a]
  <2>1. Needs(t, required, a)
    BY <1>2, <1>5
  <2>2. CASE t.stage = "entered"
    BY <1>1, <1>2, <1>5, <2>1, <2>2 DEF TxHasDecision
  <2>3. CASE t.stage # "entered"
    BY <1>2, <1>5, <2>1, <2>3 DEF DecisionInv, DecisionBeforeDispatch, Needs
  <2> QED
    BY <2>2, <2>3
<1>6. \A a \in Assets : /\ required'[a] => required[a]
                        /\ content[a] => content'[a]
                        /\ decided[a] => decided'[a]
  BY <1>2 DEF Needs
<1>7. ASSUME NEW q \in Sessions, Open(q)' PROVE TxHasDecision(tx'[q], required', decided')
  <2>1. Open(q) /\ tx'[q] = tx[q]
    BY <1>2, <1>7
  <2>2. tx[q].assets \subseteq Assets /\ tx[q].dispatch \subseteq Assets
    BY <1>1, <2>1, OpenIsTx, TxParts
  <2>3. TxHasDecision(tx[q], required, decided)
    BY <2>1 DEF DecisionInv
  <2> QED
    BY <1>6, <2>1, <2>2, <2>3, DecisionKept
<1> QED
  BY <1>2, <1>3, <1>4, <1>5, <1>7 DEF DecisionInv, DecisionBeforeDispatch

\* A step after which no open transaction is an approval by the assistant.
LEMMA DecisionStep ==
  ASSUME DecisionInv, [Next]_vars, \A p \in Sessions : tx'[p].op \notin Unlogged
  PROVE  DecisionInv'
<1>1. CASE UNCHANGED vars
  <2>1. UNCHANGED <<campaign, status, required, blocked, tx, content, decided, dispatches>>
    BY <1>1 DEF vars, table, ghosts
  <2> QED
    BY <2>1 DEF DecisionInv, DecisionBeforeDispatch, Types, Open
<1>2. ASSUME NEW p \in Sessions,
             \/ \E a \in Assets :
                  LoadGenerate(p, a) \/ \E op \in ReviewOps : LoadReview(p, op, a)
             \/ LoadApproveAll(p)
             \/ \E name \in Transitions : LoadTransition(p, name)
      PROVE  DecisionInv'
  <2>1. PICK n \in OpenTx :
          /\ Still /\ tx' = [tx EXCEPT ![p] = n] /\ Staged(n)
          /\ n.stage = "loaded" /\ n.next = "none" /\ n.dispatch = {}
          /\ \A a \in Assets : ~Writes(n, a)
    BY <1>2, BeginStep DEF DecisionInv
  <2>2. n.op \notin Unlogged
    BY <2>1 DEF DecisionInv, Types
  <2>3. TxHasDecision(n, required, decided)
    BY <2>1, <2>2 DEF TxHasDecision
  <2> QED
    BY <2>1, <2>3, StillDecision
<1>3. ASSUME NEW p \in Sessions, Abort(p) \/ Exhaust(p) PROVE DecisionInv'
  BY <1>3, GiveUpStep, StillDecision
<1> QED
  BY <1>1, <1>2, <1>3, DecisionFlush, DecisionEnter, DecisionCommit DEF Next

\* Every open transaction is one of the operations in use.
OpsInv == Types /\ \A p \in Sessions : Open(p) => tx[p].op \in Ops

LEMMA OpsStep ==
  OpsInv /\ [Next]_vars => OpsInv'
<1> SUFFICES ASSUME OpsInv, [Next]_vars PROVE OpsInv'
  OBVIOUS
<1>1. Types
  BY DEF OpsInv
<1>2. ASSUME NEW p \in Sessions, NEW n \in OpenTx \cup {NoTx}, Still,
             tx' = [tx EXCEPT ![p] = n], n # NoTx => Staged(n) /\ n.op \in Ops
      PROVE  OpsInv'
  <2>1. Types'
    BY <1>1, <1>2, StillTypes
  <2>2. \A q \in Sessions : tx'[q] = IF q = p THEN n ELSE tx[q]
    BY <1>1, <1>2 DEF Types
  <2> QED
    BY <1>2, <2>1, <2>2, SMT DEF OpsInv, Open, NoTx
<1>3. CASE UNCHANGED vars
  <2>1. UNCHANGED <<campaign, status, required, blocked, tx, content, decided, dispatches>>
    BY <1>3 DEF vars, table, ghosts
  <2> QED
    BY <2>1 DEF OpsInv, Types, Open
<1>4. ASSUME NEW p \in Sessions,
             \/ \E a \in Assets :
                  LoadGenerate(p, a) \/ \E op \in ReviewOps : LoadReview(p, op, a)
             \/ LoadApproveAll(p)
             \/ \E name \in Transitions : LoadTransition(p, name)
      PROVE  OpsInv'
  <2>1. PICK n \in OpenTx :
          Still /\ tx' = [tx EXCEPT ![p] = n] /\ Staged(n) /\ n.op \in Ops
    BY <1>1, <1>4, BeginStep
  <2> QED
    BY <1>2, <2>1
<1>5. ASSUME NEW p \in Sessions, Flush(p) \/ Generate(p) \/ Draft(p) \/ DraftUnchecked(p)
      PROVE  OpsInv'
  <2>1. PICK n \in OpenTx :
          Still /\ tx' = [tx EXCEPT ![p] = n] /\ Staged(n) /\ n.op = tx[p].op
    <3>1. CASE Flush(p)
      BY <1>1, <3>1, FlushStep
    <3>2. CASE ~Flush(p)
      BY <1>1, <1>5, <3>2, GenerateStep, SMT
    <3> QED
      BY <3>1, <3>2
  <2>2. tx[p].op \in Ops
    BY <1>5 DEF OpsInv, Flush, Generate, Draft, DraftUnchecked
  <2> QED
    BY <1>2, <2>1, <2>2
<1>6. ASSUME NEW p \in Sessions, Enter(p) PROVE OpsInv'
  <2>1. PICK warned :
          /\ Still /\ tx' = [tx EXCEPT ![p] = Entering(tx[p], warned)]
          /\ tx[p] \in OpenTx /\ Staged(tx[p]) /\ tx[p].stage = "flushed"
          /\ tx[p].next # "none"
    BY <1>1, <1>6, EnterStep
  <2> DEFINE n == Entering(tx[p], warned)
  <2>2. n \in OpenTx /\ Staged(n) /\ n.op = tx[p].op
    BY <1>1, <2>1, EnteringTx
  <2>3. tx[p].op \in Ops
    BY <1>6 DEF OpsInv, Enter
  <2> HIDE DEF n
  <2> QED
    BY <1>2, <2>1, <2>2, <2>3 DEF n
<1>7. ASSUME NEW p \in Sessions, Commit(p) PROVE OpsInv'
  <2>1. Types' /\ \A q \in Sessions : Open(q)' => q # p /\ Open(q) /\ tx'[q] = tx[q]
    BY <1>1, <1>7, CommitStep
  <2> QED
    BY <2>1 DEF OpsInv
<1>8. ASSUME NEW p \in Sessions, Abort(p) \/ Exhaust(p) PROVE OpsInv'
  BY <1>2, <1>8, GiveUpStep
<1> QED
  BY <1>3, <1>4, <1>5, <1>6, <1>7, <1>8 DEF Next

\* Where the assistant does not approve, nothing is handed to distribution and no
\* campaign is ready to launch without a logged approval of each asset it needs
\* (DecisionBeforeDispatch), whatever reviews, rejections, regenerations and
\* submissions run at the same time.
THEOREM LoggedBeforeDispatch ==
  ASSUME Ops \cap Unlogged = {}
  PROVE  Spec => []DecisionBeforeDispatch
<1>1. Init => OpsInv
  BY ContentInit, SMT DEF ContentInv, OpsInv, Init, Open, NoTx
<1>2. OpsInv /\ DecisionInv /\ OpsInv' /\ [Next]_vars => DecisionInv'
  <2> SUFFICES ASSUME OpsInv, DecisionInv, OpsInv', [Next]_vars PROVE DecisionInv'
    OBVIOUS
  <2>1. \A p \in Sessions : tx'[p].op \notin Unlogged
    BY DEF OpsInv, Open, Unlogged
  <2> QED
    BY <2>1, DecisionStep
<1>3. DecisionInv => DecisionBeforeDispatch
  BY DEF DecisionInv
<1> QED
  BY <1>1, <1>2, <1>3, OpsStep, DecisionInit, PTL DEF Spec
-----------------------------------------------------------------------------
\* Everything a reviewer can decide through the API and the pages, the manager's
\* clearance, and generation.
SerialOps == {"generate", "approve", "reject", "regenerate", "clear", "uiApprove", "uiReject"}

\* Those that set the status of their asset.
Reviewing == SerialOps \ {"generate", "clear"}

\* What the workflow may not leave in a view: a blocked asset approved, everything
\* approved and not launched; and, but for a clearance, everything drafted and not
\* submitted.
Unflagged(v) ==
  \A a \in Assets : v.status[a] \in {"approved", "scheduled"} => ~v.blocked[a]

Unsubmitted(v) ==
  /\ v.campaign = "content_in_production"
  /\ \E a \in Assets : v.required[a]
  /\ \A a \in Assets : v.required[a] => v.status[a] = "drafted" /\ ~v.blocked[a]

Unlaunched(v) ==
  /\ v.campaign = "approval_pending"
  /\ \A a \in Assets : v.required[a] /\ v.status[a] = "approved"

Right(v) == Unflagged(v) /\ ~Unlaunched(v)

\* The committed rows as a view.
Committed ==
  [campaign |-> campaign, status |-> status, required |-> required, blocked |-> blocked]

Approvals == {"approve", "uiApprove"}

\* The guards accept a view that waits for them.
LEMMA GuardAcceptsReady ==
  ASSUME Assets # {}, NEW v, IsView(v)
  PROVE  /\ Unsubmitted(v) => Applies("submit_for_approval", v)
         /\ Unlaunched(v) => Applies("start_launch", v)
<1>1. DOMAIN v.status = Assets
  BY DEF IsView
<1>2. Unsubmitted(v) => AllRequiredAssetsDrafted(v)
  BY <1>1 DEF Unsubmitted, AllRequiredAssetsDrafted, RequiredAssets
<1>3. Unlaunched(v) => AllRequiredAssetsApproved(v)
  BY <1>1 DEF Unlaunched, AllRequiredAssetsApproved, RequiredAssets
<1> QED
  BY <1>2, <1>3 DEF Applies, Unsubmitted, Unlaunched

\* Where a review or generation has no follow-up, the view it leaves is right: only
\* an approval could complete the approvals, and it tries the launch.
LEMMA NoFollowUpRight ==
  ASSUME Assets # {}, NEW u, IsView(u), Unflagged(u),
         NEW op \in Reviewing \cup {"generate"}, FollowUp(op, u) = "none", NEW own \in Assets,
         op \notin Approvals => u.status[own] # "approved"
  PROVE  Right(u)
<1>1. ASSUME Unlaunched(u) PROVE FALSE
  <2>1. /\ u.status[own] = "approved" /\ Applies("start_launch", u)
        /\ u.campaign = "approval_pending"
    BY <1>1, GuardAcceptsReady DEF Unlaunched
  <2>2. op \in Approvals
    BY <2>1
  <2>3. CASE op = "approve"
    BY <2>1, <2>3 DEF FollowUp, Advancing, Transitions
  <2>4. CASE op = "uiApprove"
    BY <2>1, <2>4 DEF FollowUp, Advancing, Transitions
  <2> QED
    BY <2>2, <2>3, <2>4 DEF Approvals
<1> QED
  BY <1>1 DEF Right

\* The operations that try submit_for_approval where it is due.
Submitting == {"generate", "uiApprove", "uiReject"}

\* One of them that has no follow-up leaves nothing to submit.
LEMMA NoFollowUpSubmitted ==
  ASSUME Assets # {}, NEW u, IsView(u), NEW op \in Submitting, FollowUp(op, u) = "none"
  PROVE  ~Unsubmitted(u)
<1> SUFFICES ASSUME Unsubmitted(u) PROVE FALSE
  OBVIOUS
<1>1. Applies("submit_for_approval", u) /\ u.campaign = "content_in_production"
  BY GuardAcceptsReady DEF Unsubmitted
<1>2. CASE op = "generate"
  BY <1>1, <1>2 DEF FollowUp, Advancing, Transitions
<1>3. CASE op \in {"uiApprove", "uiReject"}
  BY <1>1, <1>3 DEF FollowUp, Advancing, Transitions
<1> QED
  BY <1>2, <1>3 DEF Submitting

\* An operation that takes its own assets out of `drafted` and leaves the others, and
\* what is required, alone completes no drafts.
LEMMA OthersUnsubmitted ==
  ASSUME NEW u, NEW S, Unsubmitted(u), u.campaign = campaign,
         \A a \in Assets : u.required[a] <=> required[a],
         \A a \in S : u.status[a] # "drafted",
         \A a \in Assets \ S : u.status[a] = status[a] /\ u.blocked[a] = blocked[a]
  PROVE  Unsubmitted(Committed)
<1>1. \E a \in Assets : required[a]
  BY DEF Unsubmitted
<1>2. ASSUME NEW a \in Assets, required[a] PROVE status[a] = "drafted" /\ ~blocked[a]
  <2>1. u.status[a] = "drafted" /\ ~u.blocked[a]
    BY <1>2 DEF Unsubmitted
  <2> QED
    BY <2>1
<1> QED
  BY <1>1, <1>2 DEF Unsubmitted, Committed

\* A transition and, for the pages, the launch that follows it leave a right view.
LEMMA EnteredRight ==
  ASSUME Assets # {}, Types, NEW t \in OpenTx, t.op \in SerialOps, t.next # "none",
         t.next = FollowUp(t.op, View(t)), Unflagged(View(t)), NEW own \in Assets,
         t.op = "generate" => View(t).status[own] # "approved"
  PROVE  LET v == Entered(t)
         IN  /\ IsView(v) /\ Right(v) /\ ~Unsubmitted(v)
             /\ v.blocked = View(t).blocked /\ v.required = View(t).required
             /\ View(t).campaign # "ready_to_launch"
             /\ v.campaign # "ready_to_launch" =>
                  \A a \in Assets : v.status[a] = "scheduled" => View(t).status[a] = "scheduled"
<1> DEFINE u == View(t)
           v == Applied(t.next, u)
           w == Applied("start_launch", v)
<1>1. IsView(u) /\ Applies(t.next, u) /\ t.next \in Transitions
  BY ViewIsView, FollowUpApplies
<1>2. t.next = "submit_for_approval" => t.op \in {"generate"} \cup Advancing
  BY DEF FollowUp, SerialOps, Transitions, Advancing
<1>3. Entered(t) = IF t.op \in Advancing /\ Applies("start_launch", v) THEN w ELSE v
  BY DEF Entered
<1> HIDE DEF u
<1>4. u.campaign \in {"content_in_production", "approval_pending"}
  BY <1>1 DEF Applies, Transitions
<1>5. ASSUME NEW x, IsView(x), Unflagged(x)
      PROVE  LET y == Applied("start_launch", x)
             IN  IsView(y) /\ Right(y) /\ ~Unsubmitted(y) /\ y.campaign = "ready_to_launch"
                 /\ y.blocked = x.blocked /\ y.required = x.required
  <2> DEFINE y == Applied("start_launch", x)
  <2>1. /\ y.campaign = "ready_to_launch" /\ y.blocked = x.blocked /\ y.required = x.required
        /\ y.status = ScheduleApprovedAssets(x)
    BY <1>5 DEF Applied, IsView
  <2>2. IsView(y)
    BY <1>5, AppliedView DEF Transitions
  <2>3. \A a \in Assets :
          y.status[a] = IF x.status[a] = "approved" THEN "scheduled" ELSE x.status[a]
    BY <1>5, <2>1 DEF ScheduleApprovedAssets, IsView
  <2> HIDE DEF y
  <2>4. Unflagged(y)
    BY <1>5, <2>1, <2>3 DEF Unflagged
  <2> QED
    BY <2>1, <2>2, <2>4 DEF Right, Unsubmitted, Unlaunched, y
<1>6. CASE t.next = "start_launch"
  <2>1. IsView(v) /\ Right(v) /\ ~Unsubmitted(v) /\ v.campaign = "ready_to_launch"
        /\ v.blocked = u.blocked /\ v.required = u.required
    BY <1>1, <1>5, <1>6 DEF u
  <2>2. ~Applies("start_launch", v)
    BY <2>1 DEF Applies
  <2> HIDE DEF v, w
  <2> QED
    BY <1>3, <1>4, <2>1, <2>2 DEF u
<1>7. CASE t.next = "submit_for_approval"
  <2>1. /\ v.campaign = "approval_pending" /\ v.blocked = u.blocked /\ v.required = u.required
        /\ v.status = FlipDraftedAssetsToPendingApproval(u)
    BY <1>1, <1>7 DEF Applied, IsView
  <2>2. IsView(v)
    BY <1>1, AppliedView
  <2>3. \A a \in Assets :
          v.status[a] = IF u.required[a] /\ u.status[a] = "drafted"
                        THEN "pending_approval" ELSE u.status[a]
    BY <1>1, <2>1 DEF FlipDraftedAssetsToPendingApproval, IsView
  <2> HIDE DEF v
  <2>4. Unflagged(v)
    BY <2>1, <2>3 DEF Unflagged, u
  <2>5. CASE t.op \in Advancing /\ Applies("start_launch", v)
    <3>1. IsView(w) /\ Right(w) /\ ~Unsubmitted(w) /\ w.campaign = "ready_to_launch"
          /\ w.blocked = v.blocked /\ w.required = v.required
      BY <1>5, <2>2, <2>4
    <3> HIDE DEF w
    <3> QED
      BY <1>3, <1>4, <2>1, <2>5, <3>1 DEF u
  <2>6. CASE ~(t.op \in Advancing /\ Applies("start_launch", v))
    <3>1. ~Unlaunched(v)
      <4> SUFFICES ASSUME Unlaunched(v) PROVE FALSE
        OBVIOUS
      <4>1. Applies("start_launch", v) /\ v.status[own] = "approved"
        BY <2>2, GuardAcceptsReady DEF Unlaunched
      <4>2. t.op = "generate"
        BY <1>2, <1>7, <2>6, <4>1
      <4> QED
        BY <2>3, <4>1, <4>2 DEF u
    <3>2. Right(v) /\ ~Unsubmitted(v)
      BY <2>1, <2>4, <3>1 DEF Right, Unsubmitted
    <3>3. \A a \in Assets : v.status[a] = "scheduled" => u.status[a] = "scheduled"
      BY <2>3
    <3> HIDE DEF w
    <3> QED
      BY <1>3, <1>4, <2>1, <2>2, <2>6, <3>2, <3>3 DEF u
  <2> QED
    BY <2>5, <2>6
<1>8. CASE t.next = "regenerate_after_rejection"
  <2>1. /\ v.campaign = "content_in_production" /\ v.blocked = u.blocked
        /\ v.required = u.required /\ v.status = u.status
    BY <1>1, <1>8 DEF Applied, IsView
  <2>2. IsView(v)
    BY <1>1, AppliedView
  <2>3. \E a \in Assets : u.required[a] /\ u.status[a] = "rejected"
    BY <1>1, <1>8 DEF Applies, AnyRequiredAssetRejected, RequiredAssets, IsView
  <2>4. ~Applies("start_launch", v)
    BY <2>1 DEF Applies
  <2> HIDE DEF v, w
  <2>5. Right(v) /\ ~Unsubmitted(v)
    BY <2>1, <2>3 DEF Right, Unflagged, Unsubmitted, Unlaunched, u
  <2> QED
    BY <1>3, <1>4, <2>1, <2>2, <2>4, <2>5 DEF u
<1> QED
  BY <1>1, <1>6, <1>7, <1>8 DEF Transitions
-----------------------------------------------------------------------------
\* The status a review gives its asset.
Result(op) ==
  IF op \in Approvals THEN "approved" ELSE IF op = "regenerate" THEN "requested" ELSE "rejected"

LEMMA ReviewedSerial ==
  ASSUME NEW t \in OpenTx, Staged(t), t.stage = "loaded",
         t.op \in Reviewing, NEW extra \in BOOLEAN
  PROVE  LET n == Reviewed(t, extra)
         IN  /\ n \in OpenTx /\ SameTx(t, n) /\ DOMAIN n.cols = t.assets
             /\ n.blocked = t.blocked
             /\ \A a \in t.assets :
                  /\ n.status[a] = Result(t.op)
                  /\ "status" \in n.cols[a] <=> t.status[a] # Result(t.op)
                  /\ t.op # "uiReject" => "required" \notin n.cols[a]
<1>1. DOMAIN t.cols = t.assets
  BY DEF Staged
<1> DEFINE s == Result(t.op)
           Good(n) == /\ n \in OpenTx /\ SameTx(t, n) /\ DOMAIN n.cols = t.assets
                      /\ n.blocked = t.blocked
                      /\ \A a \in t.assets : /\ n.status[a] = s
                                             /\ "status" \in n.cols[a] <=> t.status[a] # s
                                             /\ t.op # "uiReject" => "required" \notin n.cols[a]
<1>2. s \in AssetStatus
  BY DEF Result, AssetStatus
<1>3. t.op \in {"approve", "uiApprove", "reject", "regenerate", "uiReject"}
  BY DEF Reviewing, SerialOps
<1> HIDE DEF s
<1>4. Good(SetStatus(t, s))
  BY <1>1, <1>2, SetStatusTx, SMT
<1>5. ASSUME NEW col \in {"blocked", "required"}, col = "required" => t.op = "uiReject"
      PROVE  Good(WithColumn(SetStatus(t, s), col))
  <2> DEFINE n == SetStatus(t, s)
             m == WithColumn(n, col)
  <2>1. Good(n)
    BY <1>4
  <2> HIDE DEF n
  <2>2. n.assets = t.assets /\ DOMAIN n.cols = n.assets /\ col \in Columns
    BY <2>1 DEF SameTx, Columns
  <2>3. /\ m \in OpenTx /\ SameTx(n, m) /\ DOMAIN m.cols = n.assets
        /\ m.status = n.status /\ m.blocked = n.blocked
        /\ \A a \in n.assets : m.cols[a] = n.cols[a] \cup {col}
    BY <2>1, <2>2, WithColumnTx
  <2>4. SameTx(t, m)
    BY <2>1, <2>3 DEF SameTx
  <2>5. \A a \in t.assets : /\ "status" \in m.cols[a] <=> "status" \in n.cols[a]
                            /\ t.op # "uiReject" /\ "required" \in m.cols[a] =>
                                 "required" \in n.cols[a]
    BY <1>5, <2>2, <2>3, SMT
  <2> HIDE DEF m
  <2>6. Good(m)
    BY <2>1, <2>2, <2>3, <2>4, <2>5
  <2> QED
    BY <2>6 DEF m, n
<1>6. CASE t.op \in {"approve", "uiApprove"}
  <2>1. s = "approved"
    BY <1>6 DEF s, Result, Approvals
  <2>2. Reviewed(t, extra) \in {SetStatus(t, s), WithColumn(SetStatus(t, s), "blocked")}
    BY <1>6, <2>1, ReviewedArms DEF Approved, WithMetadata
  <2> HIDE DEF Good
  <2> QED
    BY <1>4, <1>5, <2>2 DEF Good, s
<1>7. CASE t.op \in {"reject", "uiReject", "regenerate"}
  <2>1. Reviewed(t, extra) = IF t.op = "uiReject" THEN WithColumn(SetStatus(t, s), "required")
                                                  ELSE SetStatus(t, s)
    <3>1. CASE t.op = "reject"
      BY <3>1, ReviewedArms DEF s, Result, Approvals, Rejected
    <3>2. CASE t.op = "uiReject"
      BY <3>2, ReviewedArms DEF s, Result, Approvals, Dropped
    <3>3. CASE t.op = "regenerate"
      BY <3>3, ReviewedArms DEF s, Result, Approvals, Regenerated
    <3> QED
      BY <1>7, <3>1, <3>2, <3>3
  <2> HIDE DEF Good
  <2> QED
    BY <1>4, <1>5, <2>1 DEF Good, s
<1> QED
  BY <1>3, <1>6, <1>7
-----------------------------------------------------------------------------
\* The reviewers' groups of operations (MCReviews).

\* The modes in which the assistant approves.
Assisted == {"assistant", "assistantAll"}

\* Through the API and the pages every dispatch has a logged approval
\* (DecisionLogged): only the assistant's approve_asset and approve_all_content log
\* none.
THEOREM LoggedUnlessAssisted == ReviewSpec => []DecisionLogged
<1> DEFINE Inv == mode \in DOMAIN OpsOf /\ (mode \notin Assisted => DecisionInv)
<1>1. ReviewInit => Inv
  BY DecisionInit DEF ReviewInit
<1>2. Inv /\ [ReviewNext]_<<vars, mode>> => Inv'
  <2> SUFFICES ASSUME Inv, [ReviewNext]_<<vars, mode>> PROVE Inv'
    OBVIOUS
  <2>1. mode' = mode
    BY DEF ReviewNext
  <2>2. ASSUME mode \notin Assisted PROVE DecisionInv'
    <3>1. DecisionInv
      BY <2>2
    <3>2. CASE ReviewNext
      <4>1. OpsOf[mode] \cap Unlogged = {} /\ NoTx.op \notin Unlogged
        BY <2>2, SMT DEF OpsOf, Assisted, Unlogged, NoTx
      <4>2. \A p \in Sessions : tx'[p].op \notin Unlogged
        BY <3>2, <4>1 DEF ReviewNext
      <4> QED
        BY <3>1, <3>2, <4>2, DecisionStep DEF ReviewNext
    <3>3. CASE UNCHANGED <<vars, mode>>
      <4>1. UNCHANGED <<campaign, status, required, blocked, tx, content, decided, dispatches>>
        BY <3>3 DEF vars, table, ghosts
      <4> QED
        BY <3>1, <4>1 DEF DecisionInv, DecisionBeforeDispatch, Types, Open
    <3> QED
      BY <3>2, <3>3
  <2> QED
    BY <2>1, <2>2
<1>3. Inv => DecisionLogged
  BY DEF DecisionLogged, DecisionInv, Assisted
<1> QED
  BY <1>1, <1>2, <1>3, PTL DEF ReviewSpec
-----------------------------------------------------------------------------
\* What is true of the only open transaction t, which sees u over the committed c:
\* what it loaded is still there, what it flushed is right but for the transition
\* it is to enter, and then right.
InOrder(t, u, c) ==
  /\ t.op \in SerialOps /\ t.assets # {}
  /\ t.stage # "entered" =>
       /\ t.campaign = c.campaign
       /\ \A a \in t.assets : "blocked" \notin t.cols[a] => t.blocked[a] = c.blocked[a]
  /\ t.stage = "loaded" =>
       \A a \in t.assets :
         /\ t.status[a] = c.status[a]
         /\ t.op \in Approvals => ~c.blocked[a]
  /\ t.stage = "flushed" =>
       /\ Unflagged(u)
       /\ t.op = "generate" => \A a \in t.assets : u.status[a] # "approved"
       /\ t.next = "none" => Right(u)
       /\ t.next = "none" /\ t.op # "clear" /\ Unsubmitted(u) => Unsubmitted(c)
       /\ t.next # "none" => t.next = FollowUp(t.op, u)
  /\ t.stage = "entered" =>
       /\ Right(u) /\ ~Unsubmitted(u)
       /\ c.campaign # "ready_to_launch"
       /\ t.dispatch # {} => t.campaign = "ready_to_launch"

SerialTx(t) == InOrder(t, View(t), Committed)

\* The inductive invariant of SerialWorkflow.
SerialInv ==
  /\ Types
  /\ Right(Committed)
  /\ \A a \in Assets : /\ dispatches[a] <= 1
                       /\ dispatches[a] > 0 => campaign = "ready_to_launch"
  /\ \A p, q \in Sessions : Open(p) /\ Open(q) => p = q
  /\ \A p \in Sessions : Open(p) => SerialTx(tx[p])
-----------------------------------------------------------------------------
\* A step of the only open transaction that changes no row.
LEMMA SerialStill ==
  ASSUME SerialInv, NEW p \in Sessions, NEW n \in OpenTx \cup {NoTx}, Still,
         tx' = [tx EXCEPT ![p] = n], n # NoTx => Staged(n) /\ SerialTx(n),
         \A q \in Sessions \ {p} : ~Open(q)
  PROVE  SerialInv'
<1>1. Types' /\ \A q \in Sessions : tx'[q] = IF q = p THEN n ELSE tx[q]
  BY StillTypes DEF SerialInv, Types
<1>2. UNCHANGED <<campaign, status, required, blocked, dispatches>>
  BY DEF Still, table, ghosts
<1>3. \A q \in Sessions : Open(q)' => q = p /\ tx'[q] = n /\ n # NoTx
  BY <1>1, SMT DEF Open, NoTx
<1>4. Committed' = Committed
  BY <1>2 DEF Committed
<1>5. ASSUME n # NoTx PROVE InOrder(n, View(n)', Committed')
  <2>1. View(n)' = View(n)
    BY <1>2 DEF View, Overlay
  <2> QED
    BY <1>4, <1>5, <2>1 DEF SerialTx
<1>6. \A q \in Sessions : Open(q)' => SerialTx(tx[q])'
  BY <1>3, <1>5 DEF SerialTx, View
<1>7. Right(Committed)'
  BY <1>4 DEF SerialInv, Right, Unflagged, Unsubmitted, Unlaunched
<1> QED
  BY <1>1, <1>2, <1>3, <1>6, <1>7 DEF SerialInv

\* The rows t sees, with extra_metadata.
LEMMA ViewFacts ==
  ASSUME Types, NEW t \in OpenTx
  PROVE  /\ IsView(View(t)) /\ View(t).campaign = t.campaign
         /\ \A a \in Assets :
              /\ View(t).status[a] = Seen(t, a)
              /\ View(t).required[a] <=> Needs(t, required, a)
              /\ View(t).blocked[a] = IF a \in DOMAIN t.cols /\ "blocked" \in t.cols[a]
                                      THEN t.blocked[a] ELSE blocked[a]
<1>1. \A a \in Assets :
        View(t).blocked[a] = IF a \in DOMAIN t.cols /\ "blocked" \in t.cols[a]
                             THEN t.blocked[a] ELSE blocked[a]
  BY DEF View, Overlay
<1> QED
  BY <1>1, ViewRows, ViewIsView DEF Seen

LEMMA SerialBegin ==
  ASSUME SerialInv, NEW p \in Sessions,
         \/ \E a \in Assets : LoadGenerate(p, a) \/ \E op \in ReviewOps : LoadReview(p, op, a)
         \/ LoadApproveAll(p)
         \/ \E name \in Transitions : LoadTransition(p, name),
         tx'[p].op \in SerialOps \cup {NoTx.op},
         \A q \in Sessions \ {p} : ~Open(q)
  PROVE  SerialInv'
<1>1. Types
  BY DEF SerialInv
<1>2. ASSUME NEW op \in Operations, NEW a \in Assets, Begin(p, Loaded(op, {a})),
             op \in Approvals => ~blocked[a]
      PROVE  SerialInv'
  <2> DEFINE n == Loaded(op, {a})
  <2>1. /\ n \in OpenTx /\ Staged(n)
        /\ n.op = op /\ n.assets = {a} /\ n.stage = "loaded"
    BY <1>1, <1>2, LoadedTx, SMT
  <2>2. n.campaign = campaign /\ n.status[a] = status[a] /\ n.blocked[a] = blocked[a]
    BY DEF Loaded
  <2>3. Still /\ tx' = [tx EXCEPT ![p] = n]
    BY <1>2 DEF Begin, Still
  <2>4. op \in SerialOps
    BY <1>1, <2>1, <2>3 DEF Types, NoTx, Operations, ReviewOps, Transitions
  <2> HIDE DEF n
  <2>5. SerialTx(n)
    BY <1>2, <2>1, <2>2, <2>4 DEF SerialTx, InOrder, Committed
  <2> QED
    BY <2>1, <2>3, <2>5, SerialStill
<1>3. ASSUME NEW op \in Operations \ SerialOps, NEW S \in SUBSET Assets,
             Begin(p, Loaded(op, S))
      PROVE  FALSE
  <2>1. tx'[p] = Loaded(op, S)
    BY <1>1, <1>3 DEF Begin, Types
  <2>2. tx'[p].op = op
    BY <2>1, SMT DEF Loaded
  <2> QED
    BY <1>3, <2>2 DEF NoTx, Operations, ReviewOps, Transitions
<1>4. ASSUME NEW a \in Assets, LoadGenerate(p, a) PROVE SerialInv'
  BY <1>2, <1>4 DEF LoadGenerate, Operations, Approvals
<1>5. ASSUME NEW a \in Assets, NEW op \in ReviewOps, LoadReview(p, op, a) PROVE SerialInv'
  <2>1. Begin(p, Loaded(op, {a})) /\ Eligible(op, a) /\ op \in Operations
    BY <1>5 DEF LoadReview, Operations
  <2>2. op \in Approvals => ~blocked[a]
    <3>1. CASE op = "approve"
      BY <2>1, <3>1 DEF Eligible, ReviewEligible
    <3>2. CASE op = "uiApprove"
      BY <2>1, <3>2 DEF Eligible, PageEligible
    <3> QED
      BY <3>1, <3>2 DEF Approvals
  <2> QED
    BY <1>2, <2>1, <2>2
<1>6. ASSUME LoadApproveAll(p) PROVE FALSE
  <2> DEFINE S == {a \in Assets : status[a] \in {"drafted", "pending_approval"}}
  <2>1. Begin(p, Loaded("assistantApproveAll", S))
    BY <1>6 DEF LoadApproveAll
  <2>2. "assistantApproveAll" \in Operations \ SerialOps /\ S \in SUBSET Assets
    BY DEF Operations, SerialOps
  <2> HIDE DEF S
  <2> QED
    BY <1>3, <2>1, <2>2
<1>7. ASSUME NEW name \in Transitions, LoadTransition(p, name) PROVE FALSE
  <2>1. name \in Operations \ SerialOps /\ {} \in SUBSET Assets
    BY DEF Operations, SerialOps, Transitions
  <2> QED
    BY <1>3, <1>7, <2>1 DEF LoadTransition
<1> QED
  BY <1>4, <1>5, <1>6, <1>7

\* What a clearance writes.
LEMMA ClearedTx ==
  ASSUME NEW t \in OpenTx, DOMAIN t.cols = t.assets, \A a \in t.assets : t.cols[a] = {}
  PROVE  LET n == Cleared(t)
         IN  /\ n \in OpenTx /\ SameTx(t, n) /\ DOMAIN n.cols = t.assets
             /\ \A a \in t.assets : n.cols[a] = {"blocked"}
             /\ \A a \in t.assets : ~n.blocked[a]
<1> DEFINE m == [t EXCEPT !.blocked = [a \in t.assets |-> FALSE]]
<1>1. /\ m \in OpenTx /\ SameTx(t, m) /\ m.cols = t.cols
      /\ m.blocked = [a \in t.assets |-> FALSE]
  BY UnblockedTx
<1>2. Cleared(t) = WithColumn(m, "blocked")
  BY DEF Cleared, WithMetadata
<1> HIDE DEF m
<1>3. m.assets = t.assets /\ DOMAIN m.cols = m.assets
  BY <1>1 DEF SameTx
<1>4. "blocked" \in Columns
  BY DEF Columns
<1> DEFINE n == WithColumn(m, "blocked")
<1>5. /\ n \in OpenTx /\ SameTx(m, n) /\ DOMAIN n.cols = m.assets /\ n.blocked = m.blocked
      /\ \A a \in m.assets : n.cols[a] = m.cols[a] \cup {"blocked"}
  BY <1>1, <1>3, <1>4, WithColumnTx
<1> HIDE DEF n
<1>6. SameTx(t, n)
  BY <1>1, <1>5 DEF SameTx
<1>7. \A a \in t.assets : n.cols[a] = {"blocked"}
  BY <1>1, <1>3, <1>5
<1>8. \A a \in t.assets : ~n.blocked[a]
  BY <1>1, <1>5
<1> QED
  BY <1>2, <1>3, <1>5, <1>6, <1>7, <1>8 DEF n

\* A clearance leaves its transaction a right view: it changes no status.
LEMMA ClearedSerial ==
  ASSUME Types, Right(Committed), NEW t \in OpenTx, Staged(t), t.stage = "loaded",
         t.op = "clear", InOrder(t, View(t), Committed),
         NEW extra \in BOOLEAN, NEW n, n = Flushed(Reviewed(t, extra))
  PROVE  n \in OpenTx /\ Staged(n) /\ SerialTx(n)
<1>1. /\ t.assets # {} /\ t.campaign = campaign /\ DOMAIN t.cols = t.assets
      /\ t.assets \subseteq Assets /\ t.dispatch = {} /\ \A a \in t.assets : t.cols[a] = {}
  BY TxParts DEF InOrder, Committed, Staged
<1> PICK r : r = Cleared(t)
  OBVIOUS
<1>2. /\ r \in OpenTx /\ SameTx(t, r) /\ DOMAIN r.cols = t.assets
      /\ \A a \in t.assets : r.cols[a] = {"blocked"}
      /\ \A a \in t.assets : ~r.blocked[a]
  BY <1>1, ClearedTx
<1>3. /\ r.op = "clear" /\ r.assets = t.assets /\ r.dispatch = {} /\ r.campaign = campaign
  BY <1>1, <1>2 DEF SameTx
<1>4. Reviewed(t, extra) = r
  BY ReviewedArms
<1>5. /\ n \in OpenTx /\ Staged(n) /\ n.op = r.op /\ n.stage = "flushed" /\ n.assets = r.assets
      /\ n.cols = r.cols /\ n.blocked = r.blocked /\ n.campaign = r.campaign
      /\ n.next = FollowUp(r.op, View(r))
  <2>1. n = Flushed(r) /\ DOMAIN r.cols = r.assets
    BY <1>2, <1>3, <1>4
  <2>2. LET q == Flushed(r)
        IN  /\ q \in OpenTx /\ Staged(q) /\ q.op = r.op /\ q.stage = "flushed"
            /\ q.assets = r.assets /\ q.cols = r.cols /\ q.blocked = r.blocked
            /\ q.campaign = r.campaign /\ q.next = FollowUp(r.op, View(r))
    BY <1>2, <1>3, <2>1, FlushedTx
  <2> QED
    BY <2>1, <2>2
<1>6. n.next = "none"
  BY <1>3, <1>5 DEF FollowUp, Advancing, Transitions
<1> PICK u : u = View(n)
  OBVIOUS
<1>7. /\ IsView(u) /\ u.campaign = n.campaign
      /\ \A a \in Assets :
           /\ u.status[a] = Seen(n, a) /\ (u.required[a] <=> Needs(n, required, a))
           /\ u.blocked[a] = IF a \in DOMAIN n.cols /\ "blocked" \in n.cols[a]
                             THEN n.blocked[a] ELSE blocked[a]
  BY <1>5, ViewFacts
<1>8. \A a \in Assets : ~Writes(n, a) /\ (Needs(n, required, a) <=> required[a])
  <2>1. "status" \notin {"blocked"} /\ "required" \notin {"blocked"}
    OBVIOUS
  <2> QED
    BY <1>2, <1>5, <2>1 DEF Writes, Needs
<1>9. /\ u.campaign = campaign
       /\ \A a \in Assets : u.status[a] = status[a] /\ (u.required[a] <=> required[a])
  BY <1>3, <1>5, <1>7, <1>8 DEF Seen
<1>10. \A a \in Assets : u.blocked[a] => blocked[a]
  BY <1>2, <1>3, <1>5, <1>7
<1>11. Right(u)
  <2>1. Unflagged(u)
    BY <1>9, <1>10 DEF Right, Unflagged, Committed
  <2>2. ~Unlaunched(u)
    BY <1>9 DEF Right, Unlaunched, Committed
  <2> QED
    BY <2>1, <2>2 DEF Right
<1>12. n.op \in SerialOps /\ n.op = "clear" /\ n.assets # {} /\ n.campaign = campaign
       /\ \A a \in n.assets : "blocked" \in n.cols[a]
  BY <1>1, <1>2, <1>3, <1>5 DEF SerialOps
<1>13. SerialTx(n)
  BY <1>5, <1>6, <1>11, <1>12 DEF SerialTx, InOrder, Committed, Right
<1> QED
  BY <1>5, <1>13

\* What a review leaves its transaction: the view is right, or its follow-up is next.
LEMMA FlushedSerial ==
  ASSUME Assets # {}, Types, Right(Committed), NEW t \in OpenTx, Staged(t),
         t.stage = "loaded", t.op \in Reviewing, InOrder(t, View(t), Committed),
         NEW extra \in BOOLEAN, NEW n, n = Flushed(Reviewed(t, extra))
  PROVE  n \in OpenTx /\ Staged(n) /\ SerialTx(n)
<1>1. /\ t.op \in SerialOps /\ t.assets # {} /\ t.campaign = campaign
      /\ DOMAIN t.cols = t.assets /\ t.assets \subseteq Assets /\ t.dispatch = {}
      /\ \A a \in t.assets : /\ t.status[a] = status[a] /\ t.blocked[a] = blocked[a]
                             /\ t.op \in Approvals => ~blocked[a]
  BY TxParts DEF InOrder, Committed, Staged
<1> PICK r : r = Reviewed(t, extra)
  OBVIOUS
<1>2. /\ r \in OpenTx /\ SameTx(t, r) /\ DOMAIN r.cols = t.assets /\ r.blocked = t.blocked
      /\ \A a \in t.assets : /\ r.status[a] = Result(t.op)
                             /\ "status" \in r.cols[a] <=> t.status[a] # Result(t.op)
                             /\ t.op # "uiReject" => "required" \notin r.cols[a]
  BY <1>1, ReviewedSerial, SMT
<1>3. /\ r.op = t.op /\ r.assets = t.assets /\ r.dispatch = {} /\ r.campaign = t.campaign
  BY <1>1, <1>2 DEF SameTx
<1>4. /\ n \in OpenTx /\ Staged(n) /\ n.op = r.op /\ n.stage = "flushed" /\ n.assets = r.assets
      /\ n.cols = r.cols /\ n.status = r.status /\ n.blocked = r.blocked
      /\ n.campaign = r.campaign /\ n.next = FollowUp(r.op, View(r))
  BY <1>2, <1>3, FlushedTx
<1>5. View(n) = View(r)
  BY <1>4 DEF View, Overlay
<1> PICK u : u = View(n)
  OBVIOUS
<1>6. /\ IsView(u) /\ u.campaign = n.campaign /\ \A a \in Assets : u.status[a] = Seen(n, a)
      /\ \A a \in Assets : u.required[a] <=> Needs(n, required, a)
      /\ \A a \in Assets : u.blocked[a] = IF a \in DOMAIN n.cols /\ "blocked" \in n.cols[a]
                                          THEN n.blocked[a] ELSE blocked[a]
  BY <1>4, ViewFacts
<1>7. \A a \in t.assets : u.status[a] = Result(t.op) /\ u.blocked[a] = blocked[a]
  BY <1>1, <1>2, <1>4, <1>6, SMT DEF Seen, Writes
<1>8. \A a \in Assets \ t.assets : u.status[a] = status[a] /\ u.blocked[a] = blocked[a]
  BY <1>2, <1>4, <1>6 DEF Seen, Writes
<1>9. Unflagged(u)
  <2> SUFFICES ASSUME NEW a \in Assets, u.status[a] \in {"approved", "scheduled"}
               PROVE  ~u.blocked[a]
    BY DEF Unflagged
  <2>1. CASE a \in t.assets
    BY <1>1, <1>7, <2>1 DEF Result
  <2>2. CASE a \notin t.assets
    BY <1>8, <2>2 DEF Right, Unflagged, Committed
  <2> QED
    BY <2>1, <2>2
<1>10. PICK own \in t.assets : own \in Assets
  BY <1>1
<1>11. t.op \notin Approvals => u.status[own] # "approved"
  BY <1>7, <1>10 DEF Result
<1>12. n.next = FollowUp(t.op, u)
  BY <1>3, <1>4, <1>5
<1>13. n.next = "none" => Right(u)
  BY <1>1, <1>6, <1>9, <1>10, <1>11, <1>12, NoFollowUpRight, ZenonT(40)
<1>14. \A a \in n.assets : "blocked" \notin n.cols[a] => n.blocked[a] = blocked[a]
  BY <1>1, <1>2, <1>3, <1>4, SMT
<1>15. ASSUME n.next = "none", Unsubmitted(u) PROVE Unsubmitted(Committed)
  <2>1. t.op \notin Submitting
    BY <1>6, <1>12, <1>15, NoFollowUpSubmitted
  <2>2. \A a \in Assets : u.required[a] <=> required[a]
    BY <1>2, <1>4, <1>6, <2>1 DEF Needs, Submitting
  <2>3. u.campaign = campaign /\ \A a \in t.assets : u.status[a] # "drafted"
    BY <1>1, <1>3, <1>4, <1>6, <1>7 DEF Result
  <2> QED
    BY <1>8, <1>15, <2>2, <2>3, OthersUnsubmitted
<1>16. ASSUME NEW c, c = Committed PROVE InOrder(n, u, c)
  <2>1. c.campaign = campaign /\ c.blocked = blocked
    BY <1>16 DEF Committed
  <2>2. n.op \in SerialOps /\ n.op # "generate" /\ n.stage = "flushed" /\ n.assets # {}
    BY <1>1, <1>3, <1>4 DEF Reviewing
  <2>3. /\ n.campaign = c.campaign
        /\ \A a \in n.assets : "blocked" \notin n.cols[a] => n.blocked[a] = c.blocked[a]
    BY <1>1, <1>3, <1>4, <1>14, <2>1
  <2>4. n.next = "none" /\ Unsubmitted(u) => Unsubmitted(c)
    BY <1>15, <1>16
  <2>5. n.next = FollowUp(n.op, u)
    BY <1>3, <1>4, <1>12
  <2> QED
    BY <1>9, <1>13, <2>2, <2>3, <2>4, <2>5 DEF InOrder
<1> QED
  BY <1>4, <1>16 DEF SerialTx

LEMMA SerialFlush ==
  ASSUME Assets # {}, SerialInv, NEW p \in Sessions, Flush(p),
         \A q \in Sessions \ {p} : ~Open(q)
  PROVE  SerialInv'
<1> DEFINE t == tx[p]
<1>1. /\ Types /\ Right(Committed) /\ t \in OpenTx /\ Staged(t) /\ t.stage = "loaded"
      /\ t.op # "generate" /\ InOrder(t, View(t), Committed)
  BY OpenIsTx DEF SerialInv, SerialTx, Flush
<1>2. PICK extra \in BOOLEAN :
        Step(p, Flushed(Reviewed(IF t.op \in LoadsCampaignLate
                                 THEN [t EXCEPT !.campaign = campaign] ELSE t, extra)))
  BY DEF Flush
<1> HIDE DEF t
<1>3. t.campaign = campaign
  BY <1>1 DEF InOrder, Committed
<1>4. [t EXCEPT !.campaign = campaign] = t
  <2>1. ASSUME NEW e, e = [t EXCEPT !.campaign = campaign] PROVE e = t
    BY <1>1, <1>3, <2>1 DEF OpenTx, TxRecords
  <2> QED
    BY <2>1
<1>5. Still /\ tx' = [tx EXCEPT ![p] = Flushed(Reviewed(t, extra))]
  BY <1>2, <1>4 DEF Step, Still
<1>6. LET n == Flushed(Reviewed(t, extra)) IN n \in OpenTx /\ Staged(n) /\ SerialTx(n)
  <2>1. t.op = "clear" \/ t.op \in Reviewing
    BY <1>1 DEF InOrder, Reviewing
  <2> QED
    BY <1>1, <2>1, ClearedSerial, FlushedSerial
<1> QED
  BY <1>5, <1>6, SerialStill

\* What a finished generation leaves its transaction.
LEMMA GeneratedSerial ==
  ASSUME Assets # {}, Types, Right(Committed), NEW n \in OpenTx, Staged(n),
         n.op = "generate", n.stage = "flushed", n.assets # {}, n.assets \subseteq Assets,
         n.campaign = campaign, DOMAIN n.cols = n.assets, NEW s \in {"drafted", "failed"},
         \A a \in n.assets : n.status[a] = s /\ n.cols[a] = {"status", "blocked"},
         \/ s = "failed" /\ n.next = "none"
         \/ n.next = FollowUp("generate", View(n))
  PROVE  SerialTx(n)
<1> PICK u : u = View(n)
  OBVIOUS
<1>1. /\ IsView(u) /\ u.campaign = n.campaign /\ \A a \in Assets : u.status[a] = Seen(n, a)
      /\ \A a \in Assets : u.required[a] <=> Needs(n, required, a)
      /\ \A a \in Assets : u.blocked[a] = IF a \in DOMAIN n.cols /\ "blocked" \in n.cols[a]
                                          THEN n.blocked[a] ELSE blocked[a]
  BY ViewFacts
<1>2. \A a \in n.assets : u.status[a] = s
  BY <1>1, SMT DEF Seen, Writes
<1>3. \A a \in Assets \ n.assets : u.status[a] = status[a] /\ u.blocked[a] = blocked[a]
  BY <1>1 DEF Seen, Writes
<1>4. Unflagged(u)
  <2> SUFFICES ASSUME NEW a \in Assets, u.status[a] \in {"approved", "scheduled"}
               PROVE  ~u.blocked[a]
    BY DEF Unflagged
  <2>1. a \notin n.assets
    BY <1>2
  <2> QED
    BY <1>3, <2>1 DEF Right, Unflagged, Committed
<1>5. PICK own \in n.assets : own \in Assets
  OBVIOUS
<1>6. n.next = "none" => Right(u)
  <2>1. CASE s = "failed"
    BY <1>2, <1>4, <1>5, <2>1 DEF Right, Unlaunched
  <2>2. CASE n.next = FollowUp("generate", u)
    <3>1. u.status[own] # "approved"
      BY <1>2, <1>5
    <3>2. "generate" \in Reviewing \cup {"generate"}
      OBVIOUS
    <3>3. ASSUME n.next = "none" PROVE Right(u)
      <4>1. FollowUp("generate", u) = "none"
        BY <2>2, <3>3
      <4> QED
        BY <1>1, <1>4, <1>5, <3>1, <3>2, <4>1, NoFollowUpRight
    <3> QED
      BY <3>3
  <2> QED
    BY <2>1, <2>2
<1>7. n.next # "none" => n.next = FollowUp("generate", u)
  OBVIOUS
<1>8. n.op \in SerialOps
  BY DEF SerialOps
<1>9. ASSUME n.next = "none", Unsubmitted(u) PROVE Unsubmitted(Committed)
  <2>1. s = "failed"
    BY <1>1, <1>9, NoFollowUpSubmitted DEF Submitting
  <2>2. \A a \in n.assets : "required" \notin n.cols[a]
    <3>1. "required" \notin {"status", "blocked"}
      OBVIOUS
    <3> QED
      BY <3>1
  <2>3. \A a \in Assets : u.required[a] <=> required[a]
    BY <1>1, <2>2 DEF Needs
  <2>4. u.campaign = campaign /\ \A a \in n.assets : u.status[a] # "drafted"
    BY <1>1, <1>2, <2>1
  <2> QED
    BY <1>3, <1>9, <2>3, <2>4, OthersUnsubmitted
<1> QED
  BY <1>2, <1>4, <1>6, <1>7, <1>8, <1>9 DEF SerialTx, InOrder, Committed

LEMMA SerialGenerate ==
  ASSUME Assets # {}, SerialInv, NEW p \in Sessions,
         Generate(p) \/ Draft(p) \/ DraftUnchecked(p),
         \A q \in Sessions \ {p} : ~Open(q)
  PROVE  SerialInv'
<1> DEFINE t == tx[p]
<1>1. /\ Types /\ Right(Committed) /\ t \in OpenTx /\ Staged(t) /\ t.op = "generate"
      /\ t.stage \in {"loaded", "generating"} /\ InOrder(t, View(t), Committed)
  BY OpenIsTx DEF SerialInv, SerialTx, Generate, Draft, DraftUnchecked, Staged
<1>2. /\ t.op \in SerialOps /\ t.assets # {} /\ t.campaign = campaign
      /\ DOMAIN t.cols = t.assets /\ t.assets \subseteq Assets /\ t.dispatch = {}
      /\ \A a \in t.assets : t.blocked[a] = blocked[a]
  BY <1>1, TxParts DEF InOrder, Committed, Staged
<1>3. CASE Generate(p)
  <2> DEFINE n == Generating(t)
  <2>1. Still /\ tx' = [tx EXCEPT ![p] = n]
    BY <1>3 DEF Generate, Step, Still, Generating
  <2>2. /\ n \in OpenTx /\ n.op = t.op /\ n.stage = "generating" /\ n.assets = t.assets
        /\ n.next = "none" /\ n.dispatch = {} /\ DOMAIN n.cols = t.assets
        /\ n.campaign = t.campaign
        /\ \A a \in t.assets : n.cols[a] = {} /\ n.blocked[a] = t.blocked[a]
    BY <1>1, GeneratingTx
  <2> HIDE DEF n
  <2>3. Staged(n) /\ SerialTx(n)
    BY <1>1, <1>2, <2>2, SMT DEF Staged, SerialTx, InOrder, Committed
  <2> QED
    BY <2>1, <2>2, <2>3, SerialStill
<1>4. CASE DraftUnchecked(p)
  <2> DEFINE n == Unchecked(t)
  <2>1. Still /\ tx' = [tx EXCEPT ![p] = n]
    BY <1>4 DEF DraftUnchecked, Step, Still, Unchecked
  <2>2. /\ n \in OpenTx /\ n.op = t.op /\ n.stage = "flushed" /\ n.assets = t.assets
        /\ n.next = "none" /\ n.dispatch = {} /\ DOMAIN n.cols = t.assets
        /\ n.campaign = t.campaign
        /\ \A a \in t.assets : n.status[a] = "failed" /\ n.cols[a] = {"status", "blocked"}
    BY <1>1, UncheckedTx
  <2> HIDE DEF n
  <2>3. Staged(n)
    BY <2>2 DEF Staged
  <2>4. SerialTx(n)
    BY <1>1, <1>2, <2>2, <2>3, GeneratedSerial
  <2> QED
    BY <2>1, <2>2, <2>3, <2>4, SerialStill
<1>5. CASE Draft(p)
  <2>1. PICK flagged \in BOOLEAN : Step(p, Flushed(Drafted(t, flagged)))
    BY <1>5 DEF Draft, Drafted
  <2> DEFINE r == Drafted(t, flagged)
             n == Flushed(r)
  <2>2. Still /\ tx' = [tx EXCEPT ![p] = n]
    BY <2>1 DEF Step, Still
  <2>3. /\ r \in OpenTx /\ r.op = t.op /\ r.assets = t.assets /\ r.campaign = t.campaign
        /\ r.dispatch = {} /\ DOMAIN r.cols = t.assets
        /\ \A a \in t.assets : r.status[a] = "drafted" /\ r.cols[a] = {"status", "blocked"}
    BY <1>1, DraftedTx, SMT
  <2> HIDE DEF r
  <2>4. /\ n \in OpenTx /\ Staged(n) /\ n.op = r.op /\ n.stage = "flushed"
        /\ n.assets = r.assets /\ n.cols = r.cols /\ n.status = r.status
        /\ n.blocked = r.blocked /\ n.campaign = r.campaign
        /\ n.next = FollowUp(r.op, View(r))
    BY <1>1, <2>3, FlushedTx
  <2> HIDE DEF n
  <2>5. View(n) = View(r)
    BY <2>4 DEF View, Overlay
  <2>6. n.next = FollowUp("generate", View(n))
    BY <1>1, <2>3, <2>4, <2>5
  <2>7. SerialTx(n)
    BY <1>1, <1>2, <2>3, <2>4, <2>6, GeneratedSerial, SMT
  <2> QED
    BY <2>2, <2>4, <2>7, SerialStill
<1> QED
  BY <1>3, <1>4, <1>5

\* What entering the transition leaves the transaction and its view.
LEMMA EnteringSerial ==
  ASSUME Assets # {}, Types, NEW t \in OpenTx, Staged(t), t.stage = "flushed",
         t.next # "none", NEW u, u = View(t), InOrder(t, u, Committed),
         NEW warned, NEW n, n = Entering(t, warned)
  PROVE  n \in OpenTx /\ Staged(n) /\ SerialTx(n)
<1> PICK v : v = Entered(t)
  OBVIOUS
<1>1. /\ n \in OpenTx /\ Staged(n)
      /\ n.op = t.op /\ n.stage = "entered" /\ n.assets = t.assets /\ n.next = t.next
      /\ n.campaign = v.campaign /\ n.dispatch = Scheduling(t)
  BY EnteringTx
<1>2. \A a \in Assets :
        /\ Needs(n, required, a) <=> Needs(t, required, a)
        /\ a \in Changed(t) => n.status[a] = v.status[a]
        /\ a \in t.assets \ Changed(t) => n.status[a] = t.status[a]
        /\ Writes(n, a) <=> a \in Changed(t) \/ Writes(t, a)
  BY EnteringTx, SMT
<1>3. \A a \in Assets :
        /\ a \in DOMAIN n.cols <=> a \in t.assets \cup Changed(t)
        /\ a \in t.assets => t.cols[a] \subseteq n.cols[a] /\ n.blocked[a] = t.blocked[a]
        /\ a \in Changed(t) \ t.assets => n.blocked[a] = blocked[a]
  BY EnteringTx, SMT
<1>4. /\ t.op \in SerialOps /\ t.assets # {} /\ t.campaign = campaign
      /\ DOMAIN t.cols = t.assets /\ t.assets \subseteq Assets
      /\ \A a \in t.assets : "blocked" \notin t.cols[a] => t.blocked[a] = blocked[a]
      /\ Unflagged(u) /\ t.next = FollowUp(t.op, u)
      /\ t.op = "generate" => \A a \in t.assets : u.status[a] # "approved"
  BY TxParts DEF InOrder, Committed, Staged
<1>5. PICK own \in t.assets : own \in Assets
  BY <1>4
<1>6. /\ IsView(v) /\ Right(v) /\ ~Unsubmitted(v) /\ v.blocked = u.blocked
      /\ v.required = u.required
      /\ u.campaign # "ready_to_launch"
      /\ v.campaign # "ready_to_launch" =>
           \A a \in Assets : v.status[a] = "scheduled" => u.status[a] = "scheduled"
  BY <1>4, <1>5, EnteredRight
<1>7. /\ u.campaign = t.campaign
      /\ \A a \in Assets :
           /\ u.status[a] = Seen(t, a)
           /\ u.required[a] <=> Needs(t, required, a)
           /\ u.blocked[a] = IF a \in DOMAIN t.cols /\ "blocked" \in t.cols[a]
                             THEN t.blocked[a] ELSE blocked[a]
  BY ViewFacts
<1>8. \A a \in Assets : a \notin Changed(t) => v.status[a] = u.status[a]
  BY DEF Changed
<1>9. Scheduling(t) # {} => v.campaign = "ready_to_launch"
  BY <1>6 DEF Scheduling, Changed
<1> PICK w : w = View(n)
  OBVIOUS
<1>10. /\ w.campaign = n.campaign
       /\ \A a \in Assets :
            /\ w.status[a] = Seen(n, a)
            /\ w.required[a] <=> Needs(n, required, a)
            /\ w.blocked[a] = IF a \in DOMAIN n.cols /\ "blocked" \in n.cols[a]
                              THEN n.blocked[a] ELSE blocked[a]
  BY <1>1, ViewFacts
<1>11. ASSUME NEW a \in Assets
       PROVE  w.status[a] = v.status[a]
  <2>1. CASE a \in Changed(t)
    BY <1>2, <1>10, <1>11, <2>1 DEF Seen
  <2>2. CASE a \notin Changed(t)
    <3>1. Writes(n, a) <=> Writes(t, a)
      BY <1>2, <2>2
    <3>2. Writes(t, a) => n.status[a] = t.status[a]
      BY <1>2, <1>4, <2>2 DEF Writes
    <3> QED
      BY <1>7, <1>8, <1>10, <2>2, <3>1, <3>2, SMT DEF Seen
  <2> QED
    BY <2>1, <2>2
<1>12. ASSUME NEW a \in Assets
       PROVE  w.blocked[a] = v.blocked[a]
  <2>1. CASE a \in t.assets
    BY <1>3, <1>4, <1>6, <1>7, <1>10, <2>1, SMT
  <2>2. CASE a \notin t.assets
    BY <1>3, <1>4, <1>6, <1>7, <1>10, <2>2, SMT
  <2> QED
    BY <2>1, <2>2
<1>13. \A a \in Assets : w.required[a] <=> v.required[a]
  BY <1>2, <1>6, <1>7, <1>10
<1>14. w.campaign = v.campaign
  BY <1>1, <1>10
<1>15. Right(w) /\ ~Unsubmitted(w)
  BY <1>6, <1>11, <1>12, <1>13, <1>14, SMT DEF Right, Unflagged, Unsubmitted, Unlaunched
<1>16. SerialTx(n)
  BY <1>1, <1>4, <1>6, <1>7, <1>9, <1>15 DEF SerialTx, InOrder, Committed
<1> QED
  BY <1>1, <1>16

LEMMA SerialEnter ==
  ASSUME Assets # {}, SerialInv, NEW p \in Sessions, Enter(p),
         \A q \in Sessions \ {p} : ~Open(q)
  PROVE  SerialInv'
<1>1. Types /\ InOrder(tx[p], View(tx[p]), Committed)
  BY DEF SerialInv, SerialTx, Enter
<1>2. PICK warned :
        /\ Still /\ tx' = [tx EXCEPT ![p] = Entering(tx[p], warned)]
        /\ tx[p] \in OpenTx /\ Staged(tx[p]) /\ tx[p].stage = "flushed"
        /\ tx[p].next # "none"
  BY <1>1, EnterStep
<1>3. LET n == Entering(tx[p], warned) IN n \in OpenTx /\ Staged(n) /\ SerialTx(n)
  BY <1>1, <1>2, EnteringSerial
<1> QED
  BY <1>2, <1>3, SerialStill

LEMMA SerialCommit ==
  ASSUME SerialInv, NEW p \in Sessions, Commit(p), \A q \in Sessions \ {p} : ~Open(q)
  PROVE  SerialInv' /\ (Unsubmitted(Committed)' =>
                          Unsubmitted(Committed) \/ tx[p].op = "clear")
<1> DEFINE t == tx[p]
           u == View(t)
<1>1. Types /\ InOrder(t, u, Committed) /\ Staged(t)
  BY OpenIsTx DEF SerialInv, SerialTx, Commit
<1>2. /\ Types' /\ t \in OpenTx
      /\ t.stage = "entered" \/ (t.stage = "flushed" /\ t.next = "none")
      /\ campaign' = IF t.stage = "entered" THEN t.campaign ELSE campaign
      /\ \A a \in Assets :
           dispatches'[a] = IF a \in t.dispatch THEN dispatches[a] + 1 ELSE dispatches[a]
      /\ \A q \in Sessions : Open(q)' => q # p /\ Open(q)
  BY <1>1, CommitStep
<1>3. status' = u.status /\ required' = u.required /\ blocked' = u.blocked
  BY DEF Commit
<1>4. u.campaign = t.campaign
  BY DEF View
<1> HIDE DEF u, t
<1>5. Right(u) /\ campaign' = u.campaign
  BY <1>1, <1>2, <1>4 DEF InOrder, Committed
<1>6. Right(Committed)'
  BY <1>3, <1>5 DEF Right, Committed, Unflagged, Unsubmitted, Unlaunched
<1>7. \A q \in Sessions : ~Open(q)'
  BY <1>2
<1>8. ASSUME NEW a \in Assets
      PROVE  dispatches'[a] <= 1 /\ (dispatches'[a] > 0 => campaign' = "ready_to_launch")
  <2>1. /\ dispatches[a] \in Nat /\ dispatches[a] <= 1
        /\ dispatches[a] > 0 => campaign = "ready_to_launch"
    BY <1>1, <1>8 DEF SerialInv, Types
  <2>2. CASE a \in t.dispatch
    <3>1. /\ t.stage = "entered" /\ campaign # "ready_to_launch"
          /\ t.campaign = "ready_to_launch"
      BY <1>1, <1>2, <2>2 DEF InOrder, Staged, Committed
    <3> QED
      BY <1>2, <2>1, <2>2, <3>1, SMT
  <2>3. CASE a \notin t.dispatch
    <3>1. dispatches'[a] = dispatches[a]
      BY <1>2, <1>8, <2>3
    <3>2. campaign = "ready_to_launch" => campaign' = campaign
      BY <1>1, <1>2 DEF InOrder, Committed
    <3> QED
      BY <2>1, <3>1, <3>2
  <2> QED
    BY <2>2, <2>3
<1>9. Unsubmitted(Committed)' => Unsubmitted(Committed) \/ t.op = "clear"
  <2>1. Unsubmitted(Committed)' => Unsubmitted(u)
    BY <1>3, <1>5 DEF Unsubmitted, Committed
  <2> QED
    BY <1>1, <1>2, <2>1 DEF InOrder
<1> QED
  BY <1>2, <1>6, <1>7, <1>8, <1>9 DEF SerialInv, t
-----------------------------------------------------------------------------
LEMMA SerialStep ==
  ASSUME Assets # {}, SerialInv, Next,
         \A p \in Sessions : tx'[p].op \in SerialOps \cup {NoTx.op},
         \A p, q \in Sessions : tx'[p] # NoTx /\ tx'[q] # NoTx => p = q
  PROVE  SerialInv'
<1>1. ASSUME NEW p \in Sessions, Open(p) PROVE \A q \in Sessions \ {p} : ~Open(q)
  BY <1>1 DEF SerialInv
<1>2. ASSUME NEW p \in Sessions,
             \/ \E a \in Assets :
                  LoadGenerate(p, a) \/ \E op \in ReviewOps : LoadReview(p, op, a)
             \/ LoadApproveAll(p)
             \/ \E name \in Transitions : LoadTransition(p, name)
      PROVE  SerialInv'
  <2>1. PICK n \in OpenTx : tx' = [tx EXCEPT ![p] = n]
    BY <1>2, BeginStep DEF SerialInv
  <2>2. /\ n # NoTx
        /\ \A q \in Sessions : tx'[q] = IF q = p THEN n ELSE tx[q]
    <3>1. n.op \in Operations /\ NoTx.op \notin Operations
      BY TxParts DEF NoTx, Operations, ReviewOps, Transitions
    <3> QED
      BY <2>1, <3>1 DEF SerialInv, Types
  <2>3. \A q \in Sessions \ {p} : ~Open(q)
    BY <2>2, SMT DEF Open, NoTx
  <2> QED
    BY <1>2, <2>3, SerialBegin
<1>3. ASSUME NEW p \in Sessions, Abort(p) \/ Exhaust(p) PROVE SerialInv'
  <2>1. Open(p)
    BY <1>3 DEF Abort, Exhaust
  <2> QED
    BY <1>1, <1>3, <2>1, GiveUpStep, SerialStill
<1>4. ASSUME NEW p \in Sessions,
             \/ Flush(p) \/ Generate(p) \/ Draft(p) \/ DraftUnchecked(p)
             \/ Enter(p) \/ Commit(p)
      PROVE  SerialInv'
  <2>1. Open(p)
    BY <1>4 DEF Flush, Generate, Draft, DraftUnchecked, Enter, Commit
  <2> QED
    BY <1>1, <1>4, <2>1, SerialFlush, SerialGenerate, SerialEnter, SerialCommit
<1> QED
  BY <1>2, <1>3, <1>4 DEF Next

\* Only a commit writes the tables.
LEMMA OnlyCommitWrites ==
  ASSUME Next, \A p \in Sessions : ~Commit(p)
  PROVE  UNCHANGED <<campaign, status, required, blocked>>
<1>1. PICK p \in Sessions :
        \/ \E a \in Assets : LoadGenerate(p, a) \/ \E op \in ReviewOps : LoadReview(p, op, a)
        \/ LoadApproveAll(p)
        \/ \E name \in Transitions : LoadTransition(p, name)
        \/ Flush(p) \/ Generate(p) \/ Draft(p) \/ DraftUnchecked(p)
        \/ Enter(p) \/ Abort(p) \/ Exhaust(p)
  BY DEF Next
<1>2. CASE \/ \E a \in Assets : LoadGenerate(p, a) \/ \E op \in ReviewOps : LoadReview(p, op, a)
           \/ LoadApproveAll(p)
           \/ \E name \in Transitions : LoadTransition(p, name)
  BY <1>2 DEF LoadGenerate, LoadReview, LoadApproveAll, LoadTransition, Begin, table
<1>3. CASE Flush(p) \/ Generate(p) \/ Draft(p) \/ DraftUnchecked(p) \/ Enter(p)
  BY <1>3 DEF Flush, Generate, Draft, DraftUnchecked, Enter, Step, table
<1>4. CASE Abort(p) \/ Exhaust(p)
  BY <1>4 DEF Abort, Exhaust, table
<1> QED
  BY <1>1, <1>2, <1>3, <1>4

\* Whatever completes the drafts submits them, unless it is a clearance.
LEMMA SerialSubmits ==
  ASSUME SerialInv, Next
  PROVE  OnlyClearingLeavesUnsubmitted
<1>1. /\ AwaitsSubmission <=> Unsubmitted(Committed)
      /\ AwaitsSubmission' <=> Unsubmitted(Committed)'
  BY DEF AwaitsSubmission, Unsubmitted, Committed
<1>2. CASE \E p \in Sessions : Commit(p)
  <2>1. PICK p \in Sessions : Commit(p)
    BY <1>2
  <2>2. \A q \in Sessions \ {p} : ~Open(q)
    BY <2>1 DEF SerialInv, Commit
  <2> QED
    BY <1>1, <2>1, <2>2, SerialCommit DEF OnlyClearingLeavesUnsubmitted
<1>3. CASE \A p \in Sessions : ~Commit(p)
  BY <1>3, OnlyCommitWrites DEF OnlyClearingLeavesUnsubmitted, AwaitsSubmission
<1> QED
  BY <1>2, <1>3

\* One transaction at a time, the review workflow is right for any campaign with
\* assets, whatever generations are redelivered and however often reviewers reject,
\* regenerate and clear (SerialWorkflow): no blocked asset is approved, whatever
\* completes the drafts submits them unless it is the manager's clearance,
\* approvals complete are launched, and an asset is handed to distribution at most
\* once.
THEOREM SerialReviewsAreRight ==
  ASSUME Assets # {}
  PROVE  ReviewSpec => SerialWorkflow
<1> DEFINE Inv == mode = "serial" => SerialInv
<1>1. ReviewInit => Inv
  <2> SUFFICES ASSUME Init PROVE SerialInv
    BY DEF ReviewInit
  <2>1. Types /\ \A p \in Sessions : ~Open(p)
    BY ContentInit DEF ContentInv, Init, Open, NoTx
  <2>2. Right(Committed)
    BY DEF Init, Right, Committed, Unflagged, Unsubmitted, Unlaunched
  <2>3. \A a \in Assets : dispatches[a] = 0
    BY DEF Init
  <2> QED
    BY <2>1, <2>2, <2>3, SMT DEF SerialInv
<1>2. Inv /\ [ReviewNext]_<<vars, mode>> => Inv'
  <2> SUFFICES ASSUME Inv, [ReviewNext]_<<vars, mode>>, mode' = "serial" PROVE SerialInv'
    OBVIOUS
  <2>1. mode = "serial" /\ SerialInv
    BY DEF ReviewNext
  <2>2. CASE ReviewNext
    <3>1. OpsOf["serial"] = SerialOps
      BY DEF OpsOf, SerialOps
    <3> QED
      BY <2>1, <2>2, <3>1, SerialStep DEF ReviewNext, Bounds
  <2>3. CASE UNCHANGED <<vars, mode>>
    <3>1. UNCHANGED <<campaign, status, required, blocked, tx, content, decided, dispatches>>
      BY <2>3 DEF vars, table, ghosts
    <3>2. Committed' = Committed
      BY <3>1 DEF Committed
    <3>3. \A q \in Sessions : View(tx[q])' = View(tx[q])
      BY <3>1 DEF View, Overlay
    <3>4. Types'
      BY <2>1, <3>1 DEF SerialInv, Types, Open
    <3>5. \A q \in Sessions : SerialTx(tx[q]) => SerialTx(tx[q])'
      BY <3>1, <3>2, <3>3 DEF SerialTx
    <3>6. Right(Committed)'
      BY <2>1, <3>2 DEF SerialInv, Right, Unflagged, Unsubmitted, Unlaunched
    <3> QED
      BY <2>1, <3>1, <3>4, <3>5, <3>6 DEF SerialInv, Open
  <2> QED
    BY <2>2, <2>3
<1>3. SerialInv => NoFlaggedApproval /\ ApprovedMeansLaunched /\ ScheduledOnce
  <2> SUFFICES ASSUME SerialInv
               PROVE  NoFlaggedApproval /\ ApprovedMeansLaunched /\ ScheduledOnce
    OBVIOUS
  <2>1. Right(Committed)
    BY DEF SerialInv
  <2>2. NoFlaggedApproval
    BY <2>1 DEF Right, Unflagged, Committed, NoFlaggedApproval
  <2>3. ApprovedMeansLaunched
    BY <2>1 DEF Right, Unlaunched, Committed, ApprovedMeansLaunched
  <2>4. ScheduledOnce
    BY DEF SerialInv, ScheduledOnce
  <2> QED
    BY <2>2, <2>3, <2>4
<1>4. Inv /\ Inv' /\ (SerialInv' =>
                       (NoFlaggedApproval /\ ApprovedMeansLaunched /\ ScheduledOnce)')
        /\ [ReviewNext]_<<vars, mode>> =>
        [mode = "serial" =>
           /\ (NoFlaggedApproval /\ ApprovedMeansLaunched /\ ScheduledOnce)'
           /\ OnlyClearingLeavesUnsubmitted]_<<vars, mode>>
  <2> SUFFICES ASSUME mode = "serial", SerialInv, mode' = "serial" => SerialInv', ReviewNext
               PROVE  OnlyClearingLeavesUnsubmitted /\ SerialInv'
    OBVIOUS
  <2>1. Next /\ mode' = mode
    BY DEF ReviewNext
  <2> QED
    BY <2>1, SerialSubmits
<1> QED
  BY <1>1, <1>2, <1>3, <1>4, PTL DEF ReviewSpec, SerialWorkflow
=============================================================================
