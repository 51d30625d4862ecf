----------------------------- MODULE Audiences -----------------------------
(***************************************************************************)
(* How contacts enter a tenant and how a segment of them is taken: the CSV *)
(* parser and its upload (app/audiences/csv_upload.py, app/api/            *)
(* audiences.py), the segmentation criteria (app/audiences/                *)
(* segmentation.py), the materialisation of an audience (app/agents/       *)
(* audience_targeting.py) and the enrichment of an audience's rows in      *)
(* place (app/outbound/enrichment.py).                                     *)
(*                                                                         *)
(* A contact has one audience_member row per audience it is in.  A row of  *)
(* a file keeps what the parser tells apart: its email, whether a name is  *)
(* too long, its country ("" absent, "bad" not two letters), its tags.     *)
(* The title, seniority, profile link and company are one field, rich:     *)
(* whether the payload has all of them.                                    *)
(***************************************************************************)
EXTENDS Integers, Sequences, SequencesExt

CONSTANTS
  Sessions,    \* uploads and materialisations that may be open at a time
  Emails,      \* well-formed addresses
  Files,       \* the files uploaded: sequences of rows, after their header
  Criteria,    \* the criteria in use: [include, exclude], sets of rules
  People,      \* what Apollo answers of a person: [country, rich]
  MaxRows,     \* DEFAULT_MAX_ROWS
  MaxCalls     \* bound: requests in a behaviour

VARIABLES
  members,     \* the audience_member rows; added_at also tells their audience
  upload,      \* history: the last file committed and what was made of it
  segments,    \* history: what each materialisation knew
  known,       \* history: the row of a contact that was written last
  calls, clock, raced, tx

vars == <<members, upload, segments, known, calls, clock, raced, tx>>

Idle == [op |-> "none"]

\* A contact no row is known of.
Unknown == [payload |-> [country |-> "?", tags |-> {}, rich |-> FALSE], at |-> 0]
-----------------------------------------------------------------------------
\* The checks of parse_csv on one row, in order; "ok" when all pass.
RowFault(row) ==
  CASE row.email = ""            -> "missing_required_field"
    [] row.email \notin Emails \cup {""} -> "invalid_email_format"
    [] row.long                  -> "field_too_long"
    [] row.country = "bad"       -> "invalid_country_code"
    [] OTHER                     -> "ok"

\* Mutant of ParseRow: an address is taken as seen before the row is validated.
ParseRowSeenFirst(result, row) ==
  LET fault == IF row.email \in result.seen THEN "duplicate_in_file" ELSE RowFault(row)
      read  == [result EXCEPT !.total = @ + 1, !.seen = @ \cup {row.email}]
  IN IF result.total >= MaxRows
     THEN IF result.stopped THEN result
          ELSE [result EXCEPT !.total = @ + 1, !.stopped = TRUE,
                              !.errors = Append(@, "file_exceeds_max_rows")]
     ELSE IF fault = "ok"
          THEN [read EXCEPT !.valid = Append(@, row)]
          ELSE [read EXCEPT !.errors = Append(@, fault)]

\* parse_csv's loop body.  The row past the limit is counted and reported, and
\* ends the loop.
ParseRow(result, row) ==
  LET fault == IF RowFault(row) = "ok" /\ row.email \in result.seen
               THEN "duplicate_in_file" ELSE RowFault(row)
      read  == [result EXCEPT !.total = @ + 1]
  IN IF result.total >= MaxRows
     THEN IF result.stopped THEN result
          ELSE [result EXCEPT !.total = @ + 1, !.stopped = TRUE,
                              !.errors = Append(@, "file_exceeds_max_rows")]
     ELSE IF fault = "ok"
          THEN [read EXCEPT !.valid = Append(@, row), !.seen = @ \cup {row.email}]
          ELSE [read EXCEPT !.errors = Append(@, fault)]

ParseCsv(file) ==
  FoldLeft(ParseRow,
           [total |-> 0, stopped |-> FALSE, seen |-> {}, valid |-> <<>>, errors |-> <<>>],
           file)

\* The payload a valid row becomes.
PayloadOf(row) == [country |-> row.country, tags |-> row.tags, rich |-> row.rich]
-----------------------------------------------------------------------------
\* _rule_to_condition on a payload, in SQL's three values: an absent field
\* compares as null, array containment is true or false.
Holds(rule, payload) ==
  CASE rule.op = "eq"  -> IF payload.country = "" THEN "null"
                          ELSE IF payload.country = rule.value THEN "true" ELSE "false"
    [] rule.op = "has" -> IF rule.value \in payload.tags THEN "true" ELSE "false"

\* Mutant of Matches: the exclude clauses are not negated.
MatchesNotNegated(criteria, payload) ==
  /\ \A rule \in criteria.include : Holds(rule, payload) = "true"
  /\ \A rule \in criteria.exclude : Holds(rule, payload) = "true"

\* The WHERE of _base_query: a negated null is null, and the row is left out.
Matches(criteria, payload) ==
  /\ \A rule \in criteria.include : Holds(rule, payload) = "true"
  /\ \A rule \in criteria.exclude : Holds(rule, payload) = "false"

\* build: the contacts with a matching row in any audience of the tenant.
Build(criteria) == {r.id : r \in {m \in members : Matches(criteria, m.payload)}}

\* Mutant of Freshest: ascending order.
Oldest(id) ==
  CHOOSE r \in members : r.id = id /\ \A q \in members : q.id = id => q.at >= r.at

\* DISTINCT ON (external_id) ... ORDER BY external_id, added_at DESC.
Freshest(id) ==
  CHOOSE r \in members : r.id = id /\ \A q \in members : q.id = id => q.at <= r.at
-----------------------------------------------------------------------------
Init ==
  /\ members = {}
  /\ upload = [file |-> <<>>, valid |-> <<>>, total |-> 0, errors |-> <<>>]
  /\ segments = {}
  /\ known = [e \in Emails |-> Unknown]
  /\ calls = 0
  /\ clock = 0
  /\ raced = FALSE
  /\ tx = [s \in Sessions |-> Idle]

\* added_at is now(): the time the transaction began.
Begin(s, t) ==
  /\ tx[s] = Idle
  /\ calls < MaxCalls
  /\ calls' = calls + 1
  /\ clock' = clock + 1
  /\ tx' = [tx EXCEPT ![s] = t]
  /\ UNCHANGED <<members, upload, segments, known, raced>>

End(s) ==
  /\ tx' = [tx EXCEPT ![s] = Idle]
  /\ raced' = (raced \/ \E q \in Sessions \ {s} : tx[q] # Idle)
  /\ UNCHANGED <<calls, clock>>

LastWritten(rows) ==
  [e \in Emails |->
     IF \E r \in rows : r.id = e
     THEN LET row == CHOOSE r \in rows : r.id = e
          IN [payload |-> row.payload, at |-> row.at]
     ELSE known[e]]

\* upload_audience_csv: the file is parsed, and the audience and its members are
\* inserted.  A file without an email column is refused before that.
ReadCsv(s, file) == Begin(s, [op |-> "upload", at |-> clock, file |-> file])

UploadAudienceCsv(s) ==
  /\ tx[s].op = "upload"
  /\ LET result == ParseCsv(tx[s].file)
         new == {[id |-> result.valid[i].email, payload |-> PayloadOf(result.valid[i]),
                  at |-> tx[s].at] : i \in DOMAIN result.valid}
     IN /\ members' = members \cup new
        /\ upload' = [file |-> tx[s].file, valid |-> result.valid, total |-> result.total,
                      errors |-> result.errors]
        /\ known' = LastWritten(new)
  /\ End(s)
  /\ UNCHANGED segments

\* materialise: the segment is built ...
BuildSegment(s, criteria) ==
  Begin(s, [op |-> "materialise", at |-> clock, criteria |-> criteria,
            ids |-> Build(criteria)])

\* ... and a second query takes the payload of each contact in it.
Materialise(s) ==
  /\ tx[s].op = "materialise"
  /\ LET new == {[id |-> e, payload |-> Freshest(e).payload, at |-> tx[s].at] :
                   e \in tx[s].ids}
     IN /\ members' = members \cup new
        /\ segments' = segments \cup
             {[criteria |-> tx[s].criteria, rows |-> members, known |-> known,
               taken |-> {[id |-> r.id, payload |-> r.payload] : r \in new}]}
        /\ known' = LastWritten(new)
  /\ End(s)
  /\ UNCHANGED upload

\* merge_into_payload: a field the payload has is never overwritten.
Merge(person, payload) ==
  [payload EXCEPT !.country = IF @ = "" THEN person.country ELSE @,
                  !.rich = @ \/ person.rich]

\* enrich_audience: the rows of one audience are read ...
LoadMembers(s, audience) ==
  Begin(s, [op |-> "enrich", at |-> audience, rows |-> {m \in members : m.at = audience}])

\* ... and for those with a gap Apollo is asked; what it answers is written over
\* the payload that was read, and added_at stays.  A person it does not know, a
\* failed request and the cap on requests leave the row alone.
EnrichAudience(s) ==
  /\ tx[s].op = "enrich"
  /\ \E asked \in SUBSET {r \in tx[s].rows : ~r.payload.rich} :
       \E answer \in [asked -> People] :
         LET new == {[r EXCEPT !.payload = Merge(answer[r], @)] : r \in asked}
             kept == {m \in members : \A r \in new : m.id # r.id \/ m.at # r.at}
         IN /\ members' = kept \cup new
            /\ known' = LastWritten(new)
  /\ End(s)
  /\ UNCHANGED <<upload, segments>>

Rollback(s) ==
  /\ tx[s] # Idle
  /\ tx' = [tx EXCEPT ![s] = Idle]
  /\ UNCHANGED <<members, upload, segments, known, calls, clock, raced>>

Next ==
  \E s \in Sessions :
    \/ \E file \in Files : ReadCsv(s, file)
    \/ UploadAudienceCsv(s)
    \/ \E criteria \in Criteria : BuildSegment(s, criteria)
    \/ Materialise(s)
    \/ \E audience \in {m.at : m \in members} : LoadMembers(s, audience)
    \/ EnrichAudience(s)
    \/ Rollback(s)

Spec == Init /\ [][Next]_vars
-----------------------------------------------------------------------------
\* The rows an upload imports are, for each address, the first row of the file
\* (up to the limit) that is well formed: a malformed row before it does not
\* claim the address, a later one does not replace it, and every row read is
\* imported or reported.
FirstAcceptableImported ==
  LET acceptable(i) == /\ upload.file[i].email \in Emails
                       /\ ~upload.file[i].long
                       /\ upload.file[i].country # "bad"
      read == 1..(IF Len(upload.file) < MaxRows THEN Len(upload.file) ELSE MaxRows)
  IN /\ ToSet(upload.valid) =
          {upload.file[i] : i \in {j \in read :
             /\ acceptable(j)
             /\ \A k \in 1..(j - 1) :
                  acceptable(k) => upload.file[k].email # upload.file[j].email}}
     /\ Len(upload.valid) + Len(upload.errors) = upload.total

\* With requests one at a time, the payload a materialised member carries is the
\* one last written for the contact, in whichever audience ("the snapshot
\* carries the freshest known data per contact"), unless the last write was an
\* enrichment of a row that another audience's row is newer than: enrichment
\* leaves added_at alone, and the snapshot goes by it.
SnapshotIsFreshest ==
  raced \/ \A g \in segments : \A m \in g.taken :
    \/ m.payload = g.known[m.id].payload
    \/ \E r \in g.rows : r.id = m.id /\ r.at > g.known[m.id].at

\* The rule of two values a marketer writes.
Meets(payload, criteria) ==
  LET says(rule) == IF rule.op = "eq" THEN payload.country = rule.value
                                      ELSE rule.value \in payload.tags
  IN /\ \A rule \in criteria.include : says(rule)
     /\ \A rule \in criteria.exclude : ~says(rule)

\* With requests one at a time, a segment takes every contact all of whose rows
\* have a country and meet every include rule and no exclude rule, and no
\* contact none of whose rows does.
SegmentExact ==
  raced \/ \A g \in segments : \A e \in {r.id : r \in g.rows} :
    LET rows  == {r \in g.rows : r.id = e}
        taken == \E m \in g.taken : m.id = e
    IN /\ (\A r \in rows : r.payload.country # "" /\ Meets(r.payload, g.criteria)) => taken
       /\ taken => \E r \in rows : Meets(r.payload, g.criteria)
=============================================================================
