------------------------------ MODULE Outbound ------------------------------
(* Outbound personalisation of one campaign and one uploaded audience: the  *)
(* CSV upload, the bulk enrichment from the external people directory, the  *)
(* segment templates drafted by the language model, and the drafts rendered *)
(* per contact when a page is viewed.  A payload keeps the fields the code  *)
(* branches on: seniority, title (the keywords a word-boundary search finds *)
(* in it) and other, which stands for company and linkedin_url.  "" and {}  *)
(* are missing values.  A template row holds its text twice, in content and *)
(* in metadata.fields.body; each is the number of its last rewriting.       *)
EXTENDS Naturals, Sequences, FiniteSets
CONSTANTS Sessions,   \* tool calls that may be in flight
          Members,    \* rows of the CSV file
          Uploads,    \* payloads a row may hold
          Persons,    \* records the directory may return
          MaxEnrich,  \* max_to_enrich
          MaxCalls    \* bound on the tool calls
VARIABLES payload,    \* [Members -> payload], or <<>> before the upload
          uploaded,   \* what the file held
          templates,  \* the content_asset rows of the outbound flow
          calls, raced, tx
vars == <<payload, uploaded, templates, calls, raced, tx>>

Idle == [op |-> "idle"]
Channels == <<"linkedin_dm", "email">>

(* SENIORITY_BUCKETS, highest first. *)
Buckets == <<"c_suite", "vp", "director", "manager", "ic">>
SeniorityValues == [b \in {Buckets[i] : i \in 1..5} |->
  CASE b = "c_suite"  -> {"c_suite", "owner", "founder", "partner"}
    [] b = "vp"       -> {"vp", "head"}
    [] b = "director" -> {"director", "senior_director"}
    [] b = "manager"  -> {"manager", "senior_manager", "lead"}
    [] b = "ic"       -> {"entry", "senior", "intern", "ic", ""}]
TitleKeywords == [b \in {Buckets[i] : i \in 1..5} |->
  CASE b = "c_suite"  -> {"ceo", "cto", "chief", "founder", "president", "owner"}
    [] b = "vp"       -> {"vp", "vice president", "head of", "svp", "evp"}
    [] b = "director" -> {"director", "head of"}
    [] b = "manager"  -> {"manager", "lead"}
    [] b = "ic"       -> {}]

(* The least index satisfying P, or 5, the catch-all. *)
FirstBucket(hits) ==
  IF hits = {} THEN 5 ELSE CHOOSE i \in hits : \A j \in hits : i <= j

BucketForMember(p) ==
  LET bySeniority == {i \in 1..5 : p.seniority \in SeniorityValues[Buckets[i]]}
      byTitle == {i \in 1..5 : TitleKeywords[Buckets[i]] \cap p.title # {}}
  IN IF p.seniority # "" /\ bySeniority # {} THEN FirstBucket(bySeniority)
     ELSE FirstBucket(byTitle)

(* Empty buckets are dropped, and with them the catch-all. *)
SegmentMembersKnown(people) == {BucketForMember(people[m]) : m \in DOMAIN people} \ {5}
SegmentMembers(people) == {BucketForMember(people[m]) : m \in DOMAIN people}

NeedsEnrichment(p) == p.seniority = "" \/ p.title = {} \/ p.other = ""

(* The directory's value wins over the file's. *)
MergeOverwriting(p, person) ==
  [seniority |-> IF person.seniority # "" THEN person.seniority ELSE p.seniority,
   title |-> IF person.title # {} THEN person.title ELSE p.title,
   other |-> IF person.other # "" THEN person.other ELSE p.other]

MergeIntoPayload(p, person) ==
  [seniority |-> IF p.seniority = "" THEN person.seniority ELSE p.seniority,
   title |-> IF p.title = {} THEN person.title ELSE p.title,
   other |-> IF p.other = "" THEN person.other ELSE p.other]

Overlaps == raced \/ \E o \in Sessions : tx[o] # Idle

Begin(s, t) ==
  /\ tx[s] = Idle /\ calls < MaxCalls
  /\ calls' = calls + 1 /\ raced' = Overlaps
  /\ tx' = [tx EXCEPT ![s] = t]

End(s) == tx' = [tx EXCEPT ![s] = Idle] /\ UNCHANGED <<calls, raced>>

Init ==
  /\ payload = <<>> /\ uploaded = <<>> /\ templates = <<>>
  /\ calls = 0 /\ raced = FALSE /\ tx = [s \in Sessions |-> Idle]

UploadSubmit(rows) ==
  /\ payload = <<>>
  /\ payload' = rows /\ uploaded' = rows
  /\ UNCHANGED <<templates, calls, raced, tx>>

(* enrich_audience reads every row, asks the directory about the rows with  *)
(* a gap and writes the rows it knew, MaxEnrich of them at most; a row the  *)
(* directory does not know, or fails on, is passed over.                    *)
LoadMembers(s) ==
  /\ payload # <<>> /\ Begin(s, [op |-> "enrich", members |-> payload])
  /\ UNCHANGED <<payload, uploaded, templates>>

EnrichAudience(s, found) ==
  /\ tx[s].op = "enrich"
  /\ Cardinality(DOMAIN found) <= MaxEnrich
  /\ \A m \in DOMAIN found : NeedsEnrichment(tx[s].members[m])
  /\ payload' = [m \in Members |-> IF m \in DOMAIN found
                   THEN MergeIntoPayload(tx[s].members[m], found[m])
                   ELSE payload[m]]
  /\ End(s) /\ UNCHANGED <<uploaded, templates>>

(* The rows of a segment and channel that nobody has approved yet. *)
RowsDrafted(segment, channel) ==
  {i \in DOMAIN templates : templates[i].segment = segment
                            /\ templates[i].channel = channel
                            /\ templates[i].status = "drafted"}
Rows(segment, channel) ==
  {i \in DOMAIN templates : templates[i].segment = segment
                            /\ templates[i].channel = channel}

Pairs(people) == SegmentMembers(people) \X {Channels[i] : i \in 1..2}
Before(p, q) == p[1] < q[1] \/ (p[1] = q[1] /\ p[2] = "linkedin_dm" /\ q[2] = "email")

(* scalar_one_or_none raises on a pair that has two rows: the pairs before  *)
(* it are still drafted, since the router turns the exception into a reply. *)
Reached(people) ==
  {p \in Pairs(people) : \A q \in Pairs(people) :
     q = p \/ Before(q, p) => Cardinality(Rows(q[1], q[2])) <= 1}

(* draft_outbound after the confirmation: which pairs it will draft, which  *)
(* row each overwrites (0: a new one) and the status it read there.         *)
LoadTemplates(s, overwrite) ==
  /\ payload # <<>>
  /\ LET Row(p) == IF Rows(p[1], p[2]) = {} THEN 0
                   ELSE CHOOSE i \in Rows(p[1], p[2]) : TRUE
         todo == {p \in Reached(payload) : Row(p) = 0 \/ overwrite}
     IN Begin(s, [op |-> "draft", covers |-> Reached(payload) = Pairs(payload),
                  row |-> [p \in todo |-> Row(p)],
                  read |-> [p \in todo |-> IF Row(p) = 0 THEN "none"
                                           ELSE templates[Row(p)].status]])
  /\ UNCHANGED <<payload, uploaded, templates>>

(* Both texts anew. *)
Regenerated(t) ==
  LET new == t.body + t.content IN [t EXCEPT !.body = new, !.content = new, !.edited = FALSE]

(* The overwritten row keeps its status. *)
RewrittenInPlace(t, read) == Regenerated(t)

(* The overwritten row: a status equal to the one read is not written.      *)
Rewritten(t, read) ==
  [Regenerated(t) EXCEPT !.status = IF read = "drafted" THEN @ ELSE "drafted"]

NewRow(p) == [segment |-> p[1], channel |-> p[2], content |-> 1, body |-> 1,
              edited |-> FALSE, approved |-> 0, required |-> TRUE, status |-> "drafted"]

(* The new rows of the pairs, in the order of the segments and channels. *)
NewRows(pairs) ==
  LET Nth(i) == CHOOSE p \in pairs : Cardinality({q \in pairs : Before(q, p)}) = i - 1
  IN [i \in 1..Cardinality(pairs) |-> NewRow(Nth(i))]

(* The model writes a usable text for the pairs in good only; a failure of  *)
(* one pair is recorded in the summary and the others go on.                *)
GenerateOutreachDrafts(s, good) ==
  /\ tx[s].op = "draft"
  /\ templates' =
       [i \in DOMAIN templates |->
          IF \E p \in good : tx[s].row[p] = i
          THEN Rewritten(templates[i], tx[s].read[CHOOSE p \in good : tx[s].row[p] = i])
          ELSE templates[i]]
       \o NewRows({p \in good : tx[s].row[p] = 0})
  /\ End(s) /\ UNCHANGED <<payload, uploaded>>

(* submit_for_approval of the campaign: the rows are required by default.   *)
Submitted(t) == t.status = "drafted" /\ t.required
SubmitForApproval ==
  /\ \E i \in DOMAIN templates : Submitted(templates[i])
  /\ templates' = [i \in DOMAIN templates |-> [templates[i] EXCEPT
                    !.status = IF Submitted(templates[i]) THEN "pending_approval" ELSE @]]
  /\ calls < MaxCalls /\ calls' = calls + 1 /\ raced' = Overlaps
  /\ UNCHANGED <<payload, uploaded, tx>>

(* A reviewer approves a template, as it stands or with an edited content   *)
(* or an edited body field: each edit leaves the other text alone.          *)
Approved(t, edit) ==
  LET e == [t EXCEPT !.content = IF edit = "content" THEN @ + 1 ELSE @,
                     !.body = IF edit = "body" THEN @ + 1 ELSE @]
  IN  [e EXCEPT !.status = "approved", !.approved = e.body, !.edited = @ \/ edit # "none"]

Decide(i, decided, eligible) ==
  /\ calls < MaxCalls /\ templates[i].status \in eligible
  /\ templates' = [templates EXCEPT ![i] = decided]
  /\ calls' = calls + 1 /\ raced' = Overlaps
  /\ UNCHANGED <<payload, uploaded, tx>>

ApproveAsset(i, edit) ==
  Decide(i, Approved(templates[i], edit), {"pending_approval", "rejected"})

(* The page's form edits the content and the subject only. *)
ApproveViaUi(i, edit) ==
  /\ edit # "body"
  /\ Decide(i, Approved(templates[i], edit), {"pending_approval", "rejected", "drafted"})

(* The API enqueues a regeneration too, which fails on these rows: they     *)
(* name no channel_platform.  The page drops the row from the campaign.     *)
RejectAsset(i) == Decide(i, [templates[i] EXCEPT !.status = "rejected"], {"pending_approval"})
RejectViaUi(i) ==
  Decide(i, [templates[i] EXCEPT !.status = "rejected", !.required = FALSE],
         {"pending_approval", "drafted"})

Found == UNION {[D -> Persons] : D \in SUBSET Members}

Next ==
  \/ \E rows \in [Members -> Uploads] : UploadSubmit(rows)
  \/ \E s \in Sessions :
       \/ LoadMembers(s)
       \/ \E found \in Found : EnrichAudience(s, found)
       \/ \E overwrite \in BOOLEAN : LoadTemplates(s, overwrite)
       \/ \E good \in SUBSET (IF tx[s].op = "draft" THEN DOMAIN tx[s].row ELSE {}) :
            GenerateOutreachDrafts(s, good)
  \/ SubmitForApproval
  \/ \E i \in DOMAIN templates :
       \/ \E edit \in {"none", "content", "body"} : ApproveAsset(i, edit) \/ ApproveViaUi(i, edit)
       \/ RejectAsset(i) \/ RejectViaUi(i)

Spec == Init /\ [][Next]_vars

(* render_personalised_drafts: the template of the bucket the member is in  *)
(* now; the last of several rows of a pair.                                 *)
Rendered(m, channel) ==
  {i \in DOMAIN templates : templates[i].segment = BucketForMember(payload[m])
                            /\ templates[i].channel = channel}

(* Enrichment never replaces a value the uploader provided                  *)
(* (merge_into_payload), also when two enrichments overlap.                 *)
UploadedKept ==
  \A m \in DOMAIN uploaded :
    /\ uploaded[m].seniority \in {"", payload[m].seniority}
    /\ uploaded[m].title \in {{}, payload[m].title}
    /\ uploaded[m].other \in {"", payload[m].other}

(* One template per segment and channel while tool calls do not overlap; a  *)
(* second row would make every later draft_outbound fail at that pair.      *)
OneTemplate ==
  raced \/ \A i, j \in DOMAIN templates :
    templates[i].segment = templates[j].segment
    /\ templates[i].channel = templates[j].channel => i = j

(* What is rendered from an approved template is the body that was          *)
(* approved: regenerating it with overwrite puts it back to drafted.  It is *)
(* the content the reviewer saw only if nobody edited on approval: drafts   *)
(* are rendered from metadata.fields.body, which an edited content leaves   *)
(* as it was.                                                               *)
ApprovedText ==
  raced \/ \A i \in DOMAIN templates :
    LET t == templates[i]
    IN  t.status = "approved" => t.body = t.approved /\ (t.edited \/ t.body = t.content)

(* A drafting call in which no pair fails leaves every contact a draft on   *)
(* both channels, whichever bucket the contact falls in.                    *)
DraftedReachesAllStep ==
  \A s \in Sessions :
    tx[s].op = "draft" /\ tx'[s] = Idle /\ tx[s].covers /\ ~raced
    /\ (\A p \in DOMAIN tx[s].row : tx[s].row[p] = 0 =>
          \E i \in DOMAIN templates' : templates'[i].segment = p[1]
                                       /\ templates'[i].channel = p[2])
    => \A m \in Members, c \in 1..2 : Rendered(m, Channels[c])' # {}
=============================================================================
