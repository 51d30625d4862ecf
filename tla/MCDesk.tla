------------------------------- MODULE MCDesk -------------------------------
\* The desk on small instances of its components.
EXTENDS Desk, TLC

Symmetry == Permutations(Sessions)

\* Strategy answers: a good plan, one that keeps an override of email at 40, and
\* one that lists email three times, which makes four touches on a day.
Channel(platform, pct, override) ==
  [platform |-> platform, numeric |-> TRUE, pct |-> pct, amount |-> "ok",
   rationale |-> TRUE, override |-> override]
Answer(channels) == [channels |-> channels, kpis |-> {}]
StrategyAnswers ==
  {Answer(<<Channel("email", 60, FALSE), Channel("linkedin", 40, FALSE)>>),
   Answer(<<Channel("email", 40, TRUE), Channel("linkedin", 60, FALSE)>>),
   Answer(<<Channel("email", 30, FALSE), Channel("email", 30, FALSE), Channel("email", 30, FALSE),
            Channel("linkedin", 10, FALSE)>>)}

\* Approval settings without a limit, with a limit of zero, and in another
\* currency; budgets at and above them.
Bodies ==
  {[above |-> NoAmount, cap |-> 2, currency |-> "USD"], [above |-> 0, cap |-> 2, currency |-> "USD"],
   [above |-> 1, cap |-> 0, currency |-> "EUR"]}
Budgets ==
  {[total |-> 1, currency |-> "USD"], [total |-> 2, currency |-> "USD"],
   [total |-> 1, currency |-> "EUR"]}

\* Files with a duplicate, a row too long, a bad country, no address and an
\* address that is not one.  The rows of b need no enrichment.
FileRow(email, long, country, tags) ==
  [email |-> email, long |-> long, country |-> country, tags |-> tags, rich |-> email = "b"]
Files ==
  LET aUs == FileRow("a", FALSE, "US", {})
      aVip == FileRow("a", FALSE, "", {"vip"})
      bVip == FileRow("b", FALSE, "DE", {"vip"})
  IN  {<<aUs, aVip>>, <<FileRow("a", TRUE, "US", {}), aUs, bVip>>,
       <<FileRow("a", FALSE, "bad", {}), aVip>>, <<bVip, aUs>>,
       <<FileRow("", FALSE, "US", {}), FileRow("x", FALSE, "US", {}), aUs, bVip>>}
Criteria ==
  LET us == [op |-> "eq", value |-> "US"]
      vip == [op |-> "has", value |-> "vip"]
  IN  {[include |-> {}, exclude |-> {vip}], [include |-> {vip}, exclude |-> {us}],
       [include |-> {us}, exclude |-> {}]}

\* What Apollo knows of a person: a country only, or all the rest.
Persons == {[country |-> "US", rich |-> FALSE], [country |-> "", rich |-> TRUE]}

\* No channel converts, both do, and only the first does.
Measured(spend, clicks, conversions) ==
  [spend |-> spend, clicks |-> clicks, conversions |-> conversions]
Snapshots ==
  {"x" :> Measured(60, 10, 0) @@ "y" :> Measured(50, 10, 0),
   "x" :> Measured(10, 10, 1) @@ "y" :> Measured(50, 10, 2),
   "x" :> Measured(10, 10, 1) @@ "y" :> Measured(50, 10, 0)}

\* Inputs of the pure algorithms: campaigns of up to 65 days on one or two
\* channels under every cap, and runs of up to three answers, good and faulty.
CalendarCases ==
  {[channels |-> channels, duration |-> days, caps |-> <<[platform |-> "email", per |-> per, limit |-> limit]>>] :
     channels \in {<<Channel("email", 100, FALSE)>>, <<Channel("email", 40, FALSE), Channel("linkedin", 60, FALSE)>>},
     days \in 1..65, per \in {"day", "week", "month"}, limit \in 1..4}
ProposingCases ==
  LET short == Answer(<<Channel("email", 40, TRUE), Channel("linkedin", 50, FALSE)>>)
      unknown == Answer(<<Channel("tiktok", 30, FALSE), Channel("email", 60, FALSE)>>)
      pool == StrategyAnswers \union {short, unknown}
  IN  [answers : UNION {[1..n -> pool] : n \in 1..3},
       ctx : [active : {{"email", "linkedin"}}, forbidden : {{}, {"linkedin"}},
              overrides : {<<>>}]]
Gaps == [1..8 -> {0, 2, 6}]

\* The parameters that are functions.
MCHash == "r1" :> 10 @@ "r2" :> 60
MCSplits == {1 :> 50 @@ 2 :> 50}
MCPlan == "x" :> 10015 @@ "y" :> 20000
MCFloor == "x" :> 0 @@ "y" :> 16000
MCCampaignOf == "a1" :> "c1" @@ "a2" :> "c1"
MCChannelOf == "a1" :> "h1" @@ "a2" :> "null"
WeeklyEmail == {[platform |-> "email", per |-> "week", limit |-> 1]}
=============================================================================
