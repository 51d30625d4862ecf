------------------------------ MODULE Previews ------------------------------
(***************************************************************************)
(* Asset previews: merge fields (app/agents/_preview.py) and the audience  *)
(* audit (app/api/preview.py), next to the merge of the mail itself        *)
(* (dispatch_email_asset, send_batch).                                     *)
(*                                                                         *)
(* text is the asset: the placeholders of content, of title and of the     *)
(* entries of metadata.fields: body and subject, each {} when it is        *)
(* missing and otherwise the set of the one text, and other (preheader,    *)
(* cta).  A placeholder is [name, plain], plain when it is spelled exactly *)
(* {{name}} in lower case without spaces.  audiences is the history of the *)
(* campaign's audiences, newest last: each maps a member to the values of  *)
(* its payload.  A value is "text", "blank", "number", "flag" (a boolean)  *)
(* or "absent".  report and mail are the last audit and the last dispatch, *)
(* with the text and the number of audiences there were; footer says       *)
(* whether compliance settings exist.                                      *)
(***************************************************************************)
EXTENDS Integers, Sequences, FiniteSets

CONSTANTS Members, Names, Audiences, Texts, MaxAudiences, MaxEdits

VARIABLES text, audiences, footer, report, mail, edits

vars == <<text, audiences, footer, report, mail, edits>>

Never == [at |-> 0]

Init ==
  /\ text \in Texts /\ footer \in BOOLEAN
  /\ audiences = <<>> /\ report = Never /\ mail = Never /\ edits = 0

\* _asset_text_fields: content and every entry of metadata.fields, where an entry
\* named body takes the place of content; the title is not looked at.
AssetTextFields(t) ==
  (IF t.body = {} THEN t.content ELSE UNION t.body) \cup UNION t.subject \cup t.other

\* _message_from_asset: content, under the subject or else the title.
MessageFromAsset(t) ==
  t.content \cup (IF t.subject = {} THEN t.title ELSE UNION t.subject)

\* extract_merge_fields: names are compared in lower case.
Referenced(fields) == {f.name : f \in fields}

ValueOf(p, n) == IF n \in Names THEN p[n] ELSE "absent"

\* Mutant of IsResolvable: a blank value is a value.
IsPresent(v) == v # "absent"

\* _is_resolvable
IsResolvable(v) == v \notin {"absent", "blank"}

\* The campaign's most recent audience, for the audit and the dispatch alike.
Latest == audiences[Len(audiences)]

\* audit_audience_resolution
AuditAudienceResolution(fields, aud) ==
  [f \in fields |-> Cardinality({m \in Members : ~IsResolvable(ValueOf(aud[m], f))})]

\* Mutant of StringOnlyPayload: text only.
StringsOfPayload(p) == {n \in Names : p[n] \in {"text", "blank"}}

\* _string_only_payload: the names whose values the mail's merge gets.
StringOnlyPayload(p) == {n \in Names : p[n] \in {"text", "blank", "number"}}

\* The substitutions of one recipient: exact spellings of the merged names.
Substituted(p) == StringOnlyPayload(p) \cup IF footer THEN {"unsubscribe_url"} ELSE {}

\* Where member m reads a placeholder or nothing, in a mail with these fields.
Holes(fields, aud, m) ==
  {f.name : f \in {g \in fields : \/ ~g.plain \/ g.name \notin Substituted(aud[m])
                                  \/ ValueOf(aud[m], g.name) = "blank"}}
-----------------------------------------------------------------------------
\* The text is rewritten: a regeneration, or an approval with edits.
Rewrite(t) ==
  /\ edits < MaxEdits /\ edits' = edits + 1 /\ text' = t
  /\ UNCHANGED <<audiences, footer, report, mail>>

\* An upload, a list or a segment becomes the campaign's newest audience.
NewAudience(aud) ==
  /\ Len(audiences) < MaxAudiences
  /\ audiences' = Append(audiences, aud)
  /\ UNCHANGED <<text, footer, report, mail, edits>>

\* audit_against_audience
Audit ==
  /\ audiences # <<>>
  /\ report' = [at |-> Len(audiences), text |-> text,
                counts |-> AuditAudienceResolution(Referenced(AssetTextFields(text)), Latest)]
  /\ UNCHANGED <<text, audiences, footer, mail, edits>>

\* The mail of the asset leaves, merged for the members of the newest audience that
\* the A/B split, the missing and the suppressed addresses, the deduplication and
\* the frequency cap leave over.
Dispatch(to) ==
  /\ audiences # <<>>
  /\ mail' = [at |-> Len(audiences), text |-> text,
              holes |-> [m \in to |-> Holes(MessageFromAsset(text), Latest, m)]]
  /\ UNCHANGED <<text, audiences, footer, report, edits>>

Next ==
  \/ \E t \in Texts : Rewrite(t)
  \/ \E aud \in Audiences : NewAudience(aud)
  \/ Audit
  \/ \E to \in SUBSET Members : Dispatch(to)

Spec == Init /\ [][Next]_vars
-----------------------------------------------------------------------------
\* Placeholders both readers spell alike and values both accept.
Ordinary(t, aud) ==
  /\ \A f \in AssetTextFields(t) \cup MessageFromAsset(t) : f.plain /\ f.name # "unsubscribe_url"
  /\ \A m \in Members, n \in Names : aud[m][n] # "flag"

\* What the audit counted is what the members then read: for plainly spelled
\* placeholders over text and number values, the unresolved count of a field that
\* both the audit and the mail look at is the number of mails with a gap at it plus
\* the members without a value who got no mail, if text and audience are still the
\* ones audited (audit_against_audience, and the merge of send_batch).
AuditPredictsMail ==
  report # Never /\ mail # Never /\ report.at = mail.at /\ report.text = mail.text
    /\ Ordinary(mail.text, audiences[mail.at]) =>
      \A n \in Referenced(AssetTextFields(mail.text)) \cap Referenced(MessageFromAsset(mail.text)) :
        LET to == DOMAIN mail.holes
            Lacks(m) == ~IsResolvable(ValueOf(audiences[mail.at][m], n))
        IN  report.counts[n] = Cardinality({m \in to : n \in mail.holes[m]}
                                             \cup {m \in Members \ to : Lacks(m)})
=============================================================================
