------------------------------- MODULE MCEdge -------------------------------
\* The edge on small instances of its components.
EXTENDS Edge, TLC

Symmetry == Permutations(Sessions)

\* Batches of the mail provider: an opt-out after an open, both with an id of their
\* own or both with that of their message only, one body with an event that has
\* neither, a kind that is not mapped, and one without a recipient.
Report(id, msg, kind, who) == [id |-> id, msg |-> msg, kind |-> kind, who |-> who]
EventBatches ==
  LET seen == Report(1, 8, "open", "A")
      quit == Report(2, 8, "group_unsubscribe", "A")
      dropped == Report(3, 9, "dropped", "b")
  IN  {<<seen, quit>>, <<quit, dropped>>, <<dropped, Report(0, 0, "open", "a"), seen>>,
       <<Report(0, 9, "open", "b"), Report(0, 9, "unsubscribe", "b")>>,
       <<Report(4, 9, "deferred", "b")>>, <<Report(5, 9, "spamreport", "nobody")>>}

\* Rows of an uploaded file and records of the directory.
Contact(seniority, title, other) == [seniority |-> seniority, title |-> title, other |-> other]
UploadedPayloads ==
  {Contact("", {}, ""), Contact("", {"head of", "director"}, "acme"),
   Contact("astronaut", {"lead"}, "")}
DirectoryPersons == {Contact("", {"ceo"}, "acme"), Contact("vp", {}, "")}

\* Assets with their merge fields: a generated mail with a subject and a preheader, a
\* mail without a subject, an outbound template whose content was edited, and odd
\* spellings; and audiences whose values are text, numbers, flags, blank or absent.
MergeField(name, plain) == [name |-> name, plain |-> plain]
MergeTexts ==
  LET first == MergeField("first_name", TRUE)
      city == MergeField("city", TRUE)
      Asset(content, body, subject, title, other) ==
        [content |-> content, body |-> body, subject |-> subject, title |-> title, other |-> other]
  IN  {Asset({first}, {}, {{}}, {}, {city}), Asset({first}, {}, {{city}}, {city}, {}),
       Asset({first}, {}, {}, {city}, {}), Asset({first, city}, {{first}}, {{}}, {}, {}),
       Asset({MergeField("first_name", FALSE)}, {}, {{MergeField("unsubscribe_url", TRUE)}}, {}, {})}
MergeValues(first, city) == "first_name" :> first @@ "city" :> city
MergePayloads ==
  {"m1" :> MergeValues("text", "number") @@ "m2" :> MergeValues("number", "text"),
   "m1" :> MergeValues("text", "blank") @@ "m2" :> MergeValues("absent", "text"),
   "m1" :> MergeValues("blank", "absent") @@ "m2" :> MergeValues("text", "absent"),
   "m1" :> MergeValues("flag", "text") @@ "m2" :> MergeValues("blank", "number")}

\* The lower-case spellings of the addresses.
MCLower == "a" :> "a" @@ "A" :> "a" @@ "b" :> "b"
=============================================================================
