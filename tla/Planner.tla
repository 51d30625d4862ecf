------------------------------- MODULE Planner -------------------------------
(***************************************************************************)
(* The Strategist's planner (app/agents/_strategist_planner.py): what it    *)
(* refuses in an answer of the model, and which answer it keeps.  Pure.    *)
(*                                                                         *)
(* An answer is [channels |-> sequence of channels, kpis |-> set of faults  *)
(* of its KPI part].  A channel is a record                                *)
(*   platform   the platform, or NoPlatform when it names none             *)
(*   numeric    do its numbers parse                                       *)
(*   pct        its share of the budget, in percent                        *)
(*   amount     "ok", "off" (does not match pct) or "negative"             *)
(*   rationale  does it have one                                           *)
(*   override   is it flagged human_override                               *)
(* A context is [active, forbidden, overrides]: the platforms with an      *)
(* active channel, those a constraint forbids, and the human overrides, a   *)
(* sequence of [platform, pct], that the plan has to keep.                 *)
(***************************************************************************)
EXTENDS Integers, Sequences, SequencesExt, FiniteSets, FiniteSetsExt

CONSTANT NoPlatform

MaxPlanAttempts == 3

Distance(a, b) == IF a < b THEN b - a ELSE a - b

\* _carry_overrides: the human overrides of a proposal, for the next one to keep.
CarryOverrides(answer) ==
  LET kept == SelectSeq(answer.channels,
                        LAMBDA c : c.override /\ c.numeric /\ c.platform # NoPlatform)
  IN  [i \in DOMAIN kept |-> [platform |-> kept[i].platform, pct |-> kept[i].pct]]

\* The channels _validate gets to count: known, not met before, with numbers.
Judged(channels, ctx) ==
  {i \in DOMAIN channels :
     /\ channels[i].platform \in ctx.active \ ctx.forbidden
     /\ \A j \in 1..(i - 1) : channels[j].platform # channels[i].platform}

ChannelFaults(channels, i, ctx) ==
  LET c == channels[i]
  IN  CASE c.platform = NoPlatform -> {"shape"}
        [] c.platform \in ctx.forbidden -> {"forbidden_channel"}
        [] c.platform # NoPlatform /\ c.platform \notin ctx.forbidden \cup ctx.active ->
             {"unknown_channel"}
        [] c.platform \in ctx.active \ ctx.forbidden /\ i \notin Judged(channels, ctx) ->
             {"duplicate_channel"}
        [] i \in Judged(channels, ctx) /\ ~c.numeric -> {"shape"}
        [] OTHER ->
             (IF c.pct \notin 0..100 THEN {"out_of_range"} ELSE {})
               \cup (IF c.amount = "negative" THEN {"amount_out_of_range"} ELSE {})
               \cup (IF c.amount # "ok" THEN {"amount_mismatch"} ELSE {})
               \cup (IF c.rationale THEN {} ELSE {"missing_rationale"})

OverrideFaults(channels, o) ==
  LET own == {i \in DOMAIN channels : channels[i].platform = o.platform}
      c == channels[Min(own)]
  IN  IF own = {} THEN {"missing_override"}
      ELSE IF ~c.numeric THEN {}
      ELSE (IF Distance(c.pct, o.pct) > 1 THEN {"override_drift"} ELSE {})
             \cup (IF c.override THEN {} ELSE {"override_unflagged"})

Total(channels, ctx) ==
  FoldSet(LAMBDA i, sum : sum + channels[i].pct, 0,
          {i \in Judged(channels, ctx) : channels[i].numeric})

\* Mutant of Violations: what a human overrode is not looked at.
ViolationsButOverrides(answer, ctx) ==
  LET ch == answer.channels
  IN  UNION {{<<"channel", i, f>> : f \in ChannelFaults(ch, i, ctx)} : i \in DOMAIN ch}
        \cup (IF Distance(Total(ch, ctx), 100) > 1
              THEN {<<"plan", 0, "allocation_sum">>} ELSE {})
        \cup {<<"kpis", 0, f>> : f \in answer.kpis}

\* _validate: everything that is wrong with an answer.  An answer without any
\* channel is only told so.
Violations(answer, ctx) ==
  LET ch == answer.channels
  IN  IF ch = <<>> THEN {<<"plan", 0, "shape">>}
      ELSE UNION {{<<"channel", i, f>> : f \in ChannelFaults(ch, i, ctx)} : i \in DOMAIN ch}
             \cup (IF Distance(Total(ch, ctx), 100) > 1
                   THEN {<<"plan", 0, "allocation_sum">>} ELSE {})
             \cup UNION {{<<"override", k, f>> : f \in OverrideFaults(ch, ctx.overrides[k])} :
                         k \in DOMAIN ctx.overrides}
             \cup {<<"kpis", 0, f>> : f \in answer.kpis}

\* Mutant of Propose: the last answer is kept, whatever came before it.
ProposeLast(answers, ctx) ==
  LET valid == {i \in DOMAIN answers : Violations(answers[i], ctx) = {}}
      last == IF valid = {} THEN Len(answers) ELSE Min(valid)
  IN  [answer |-> answers[last], warnings |-> Violations(answers[last], ctx), attempts |-> last]

\* StrategistPlanner.propose, given the answers the model would give: it stops at
\* the first that has no violation, and after MaxPlanAttempts keeps the one with
\* the fewest, the earliest of several.
Propose(answers, ctx) ==
  LET faults(i) == Cardinality(Violations(answers[i], ctx))
      valid == {i \in DOMAIN answers : faults(i) = 0}
      asked == 1..(IF valid = {} THEN Len(answers) ELSE Min(valid))
      best == CHOOSE i \in asked : /\ \A j \in asked : faults(i) <= faults(j)
                                   /\ \A j \in 1..(i - 1) : faults(i) < faults(j)
  IN  [answer |-> answers[best], warnings |-> Violations(answers[best], ctx),
       attempts |-> Max(asked)]
-----------------------------------------------------------------------------
\* The planner keeps the best answer it saw: none it asked for has fewer faults,
\* it asks no more than it may, and the plan comes with warnings only if every
\* answer was faulty (StrategistPlanner.propose).
BestAnswerKept(answers, ctx) ==
  LET p == Propose(answers, ctx)
  IN  /\ p.attempts <= MaxPlanAttempts
      /\ p.warnings = Violations(p.answer, ctx)
      /\ \A i \in 1..p.attempts : Cardinality(p.warnings) <= Cardinality(Violations(answers[i], ctx))
      /\ p.warnings # {} => \A i \in DOMAIN answers : Violations(answers[i], ctx) # {}
=============================================================================
