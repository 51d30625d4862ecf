----------------------------- MODULE Experiment -----------------------------
(***************************************************************************)
(* A/B tests over the variants of one touchpoint: definition, launch, stop, *)
(* evaluation and promotion (app/api/ab_tests.py, app/ab_testing/), and the *)
(* dispatch that asks which recipients a variant goes to.                  *)
(*                                                                         *)
(* Variants are the numbers 1, 2, ... (their order is that of their ids);   *)
(* hash[r] is the blake2b bucket of recipient r.  tests is the table        *)
(* ab_test, group[v] the extra_metadata.ab_test_group_id of a variant,      *)
(* assigned the table ab_test_assignment, a set of <<test, recipient,       *)
(* variant>>, and opens[v] the events attributed to a variant.  sent        *)
(* records <<recipient, variant, test>> of every mail that left, with the   *)
(* test that chose its recipient, or 0.                                    *)
(*                                                                         *)
(* As in Planning, a session reads when it loads and acts when it commits,  *)
(* and raced remembers that two transactions were ever open at once.       *)
(***************************************************************************)
EXTENDS Integers, Sequences, FiniteSets

CONSTANTS Sessions, Recipients, hash, Splits, MaxVariants, MaxTests, MaxOpens, Scale, MaxCalls

VARIABLES tests, asset, group, assigned, sent, opens, calls, raced, tx

vars == <<tests, asset, group, assigned, sent, opens, calls, raced, tx>>

Variants == 1..MaxVariants
Active == {"designing", "running"}
Idle == [kind |-> "none"]
Open == {s \in Sessions : tx[s] # Idle}
NewTest(a, b, split) ==
  [status |-> "designing", a |-> a, b |-> b, split |-> split, winner |-> 0,
   throttled |-> FALSE, expired |-> FALSE]

\* seed_assets_for_campaign creates two variants of a touchpoint and their test,
\* without a traffic split; or the test was defined with create_ab_test.  The
\* variants may have been approved, and the test launched, before we look.
Init ==
  /\ \E split \in Splits \cup {<<>>}, launched \in BOOLEAN :
       /\ tests = <<[NewTest(1, 2, split) EXCEPT !.status = IF launched THEN "running" ELSE @]>>
       /\ asset = [v \in Variants |-> IF v > 2 THEN "none"
                                     ELSE IF launched THEN "scheduled" ELSE "requested"]
  /\ group = [v \in Variants |-> IF v <= 2 THEN 1 ELSE 0]
  /\ assigned = {} /\ sent = {} /\ opens = [v \in Variants |-> 0]
  /\ calls = 0 /\ raced = FALSE
  /\ tx = [s \in Sessions |-> Idle]

Begin(s, t) ==
  /\ tx[s] = Idle /\ calls < MaxCalls
  /\ tx' = [tx EXCEPT ![s] = t]
  /\ calls' = calls + 1
  /\ raced' = (raced \/ Open # {})

End(s) == tx' = [tx EXCEPT ![s] = Idle]

\* _list_variants, and the canonical pair when no asset names the test.
VariantsOf(i) ==
  LET own == {v \in Variants : group[v] = i}
  IN  IF own = {} THEN {tests[i].a, tests[i].b} ELSE own
-----------------------------------------------------------------------------
\* A variant is drafted, approved and scheduled (see ContentApproval).
Approve(v) ==
  /\ asset[v] = "requested"
  /\ asset' = [asset EXCEPT ![v] = "scheduled"]
  /\ UNCHANGED <<tests, group, assigned, sent, opens, calls, raced, tx>>

\* add_variant: the traffic split is left as it is.
LoadAddVariant(s) ==
  /\ \E i \in DOMAIN tests :
       LET own == {v \in Variants : group[v] = i}
       IN  /\ own # {} /\ Cardinality(own) < MaxVariants
           /\ Begin(s, [kind |-> "add", test |-> i])
  /\ UNCHANGED <<tests, asset, group, assigned, sent, opens>>

CommitAddVariant(s) ==
  /\ tx[s].kind = "add"
  /\ \E v \in Variants :
       /\ asset[v] = "none" /\ \A u \in 1..(v - 1) : asset[u] # "none"
       /\ asset' = [asset EXCEPT ![v] = "requested"]
       /\ group' = [group EXCEPT ![v] = tx[s].test]
  /\ End(s)
  /\ UNCHANGED <<tests, assigned, sent, opens, calls, raced>>

\* Mutant of FamilyFree: no partial unique index.
FamilyAlwaysFree(a, row) == row \in 0..MaxTests /\ a \in Variants

\* uq_ab_test_active_per_variant_a lets a row with first variant a be active.
FamilyFree(a, row) ==
  ~\E i \in DOMAIN tests \ {row} : tests[i].a = a /\ tests[i].status \in Active

\* create_ab_test on two existing variants: the split covers them and sums to 100.
LoadCreate(s) ==
  /\ \E a, b \in {v \in Variants : asset[v] # "none"} : \E split \in Splits :
       a # b /\ DOMAIN split = {a, b} /\ Begin(s, [kind |-> "create", a |-> a, b |-> b,
                                                   split |-> split])
  /\ UNCHANGED <<tests, asset, group, assigned, sent, opens>>

CommitCreate(s) ==
  /\ tx[s].kind = "create" /\ FamilyFree(tx[s].a, 0) /\ Len(tests) < MaxTests
  /\ tests' = Append(tests, NewTest(tx[s].a, tx[s].b, tx[s].split))
  /\ group' = [v \in Variants |-> IF v \in {tx[s].a, tx[s].b} THEN Len(tests) + 1 ELSE group[v]]
  /\ End(s)
  /\ UNCHANGED <<asset, assigned, sent, opens, calls, raced>>

\* launch_ab_test: only when every variant is approved.
LoadLaunch(s) ==
  /\ \E i \in DOMAIN tests :
       /\ tests[i].status = "designing"
       /\ \A v \in VariantsOf(i) : asset[v] = "scheduled"
       /\ Begin(s, [kind |-> "launch", test |-> i])
  /\ UNCHANGED <<tests, asset, group, assigned, sent, opens>>

CommitLaunch(s) ==
  /\ tx[s].kind = "launch" /\ FamilyFree(tests[tx[s].test].a, tx[s].test)
  /\ tests' = [tests EXCEPT ![tx[s].test].status = "running"]
  /\ End(s)
  /\ UNCHANGED <<asset, group, assigned, sent, opens, calls, raced>>

\* stop_ab_test
LoadStop(s) ==
  /\ \E i \in DOMAIN tests : tests[i].status \in Active /\ Begin(s, [kind |-> "stop", test |-> i])
  /\ UNCHANGED <<tests, asset, group, assigned, sent, opens>>

CommitStop(s) ==
  /\ tx[s].kind = "stop"
  /\ tests' = [tests EXCEPT ![tx[s].test].status = "stopped"]
  /\ End(s)
  /\ UNCHANGED <<asset, group, assigned, sent, opens, calls, raced>>
-----------------------------------------------------------------------------
\* _arm_sample: the recipients assigned to a variant, and the events of its mails.
\* A recipient stands for Scale of them.
ArmSample(i, v) ==
  [n |-> Scale * Cardinality({t \in assigned : t[1] = i /\ t[3] = v}), x |-> Scale * opens[v]]

\* _two_proportion_test at 95%: z^2 > 3.8415, with both sides multiplied out.  A
\* rate above one, from several events of a recipient, makes the pooled variance
\* negative (then it counts as none) or the square root of the interval raise.
TwoProportionTest(a, b) ==
  LET n == a.n + b.n
      x == a.x + b.x
      d == b.x * a.n - a.x * b.n
      spread == a.x * (a.n - a.x) * b.n * b.n * b.n + b.x * (b.n - b.x) * a.n * a.n * a.n
  IN  CASE a.n = 0 \/ b.n = 0 -> "inconclusive"
        [] a.n > 0 /\ b.n > 0 /\ x * (n - x) <= 0 -> "inconclusive"
        [] a.n > 0 /\ b.n > 0 /\ x * (n - x) > 0 /\ spread < 0 -> "raises"
        [] OTHER -> IF 10000 * d * d * n > 38415 * a.n * b.n * x * (n - x)
                    THEN (IF d > 0 THEN "b" ELSE "a") ELSE "undecided"

\* Mutant of Judge: a test that was stopped is evaluated all the same.
JudgeAny(i) ==
  IF tests[i].throttled THEN "skipped"
  ELSE TwoProportionTest(ArmSample(i, tests[i].a), ArmSample(i, tests[i].b))

\* evaluate_test, up to its decision.
Judge(i) ==
  IF tests[i].status # "running" \/ tests[i].throttled THEN "skipped"
  ELSE TwoProportionTest(ArmSample(i, tests[i].a), ArmSample(i, tests[i].b))

LoadEvaluate(s) ==
  /\ \E i \in DOMAIN tests :
       /\ Judge(i) \notin {"skipped", "raises"}
       /\ Begin(s, [kind |-> "evaluate", test |-> i, decision |-> Judge(i),
                    expired |-> tests[i].expired])
  /\ UNCHANGED <<tests, asset, group, assigned, sent, opens>>

CommitEvaluate(s) ==
  /\ tx[s].kind = "evaluate"
  /\ LET t == tests[tx[s].test]
         won == tx[s].decision \in {"a", "b"}
     IN  tests' = [tests EXCEPT ![tx[s].test] =
           [t EXCEPT !.throttled = TRUE,
                     !.winner = IF won THEN (IF tx[s].decision = "b" THEN t.b ELSE t.a) ELSE @,
                     !.status = IF won THEN "significant"
                                ELSE IF tx[s].expired THEN "inconclusive" ELSE @]]
  /\ End(s)
  /\ UNCHANGED <<asset, group, assigned, sent, opens, calls, raced>>

\* EVAL_THROTTLE elapses, and later max_runtime_hours.
TimePasses(i) ==
  /\ tests[i].status = "running" /\ (tests[i].throttled \/ ~tests[i].expired)
  /\ tests' = [tests EXCEPT ![i].throttled = FALSE, ![i].expired = ~tests[i].throttled]
  /\ UNCHANGED <<asset, group, assigned, sent, opens, calls, raced, tx>>

\* The variants promote_ab_test archives.
Losers(i) == {v \in VariantsOf(i) \ {tests[i].winner} : asset[v] \notin {"archived", "published"}}

\* promote_ab_test; of a winner with compliance flags only for a manager.
LoadPromote(s) ==
  /\ \E i \in DOMAIN tests : /\ tests[i].status = "significant" /\ tests[i].winner # 0
                             /\ Begin(s, [kind |-> "promote", test |-> i, winner |-> tests[i].winner,
                                          losers |-> Losers(i)])
  /\ UNCHANGED <<tests, asset, group, assigned, sent, opens>>

CommitPromote(s) ==
  /\ tx[s].kind = "promote"
  /\ asset' = [v \in Variants |-> IF v \in tx[s].losers THEN "archived" ELSE asset[v]]
  /\ tests' = [tests EXCEPT ![tx[s].test].split = [v \in {tx[s].winner} |-> 100]]
  /\ End(s)
  /\ UNCHANGED <<group, assigned, sent, opens, calls, raced>>
-----------------------------------------------------------------------------
\* pick_variant_index: the first variant, in the order of the ids, whose cumulated
\* weight exceeds the bucket.
PickVariant(r, split) ==
  LET upTo[v \in 0..MaxVariants] ==
        IF v = 0 THEN 0 ELSE upTo[v - 1] + (IF v \in DOMAIN split THEN split[v] ELSE 0)
      passed == {v \in DOMAIN split : hash[r] % upTo[MaxVariants] < upTo[v]}
  IN  CHOOSE v \in passed : \A u \in passed : v <= u

\* _running_ab_test_for_asset: the test the variant names, or else any whose
\* canonical pair it belongs to; 0 when none runs.
RunningTests(v) ==
  LET named == {i \in {group[v]} \ {0} : tests[i].status = "running"}
      pair == {i \in DOMAIN tests : tests[i].status = "running" /\ v \in {tests[i].a, tests[i].b}}
  IN  IF named # {} THEN named ELSE IF pair # {} THEN pair ELSE {0}

\* dispatch_email_asset of a scheduled variant, up to the choice of recipients.
LoadDispatch(s) ==
  /\ \E v \in Variants : \E i \in RunningTests(v) :
       /\ asset[v] = "scheduled"
       /\ \A r \in Open : tx[r].kind = "dispatch" => tx[r].variant # v
       /\ Begin(s, [kind |-> "dispatch", variant |-> v, test |-> i,
                    split |-> IF i = 0 THEN <<>> ELSE tests[i].split, todo |-> Recipients,
                    kept |-> {}, fresh |-> {}, mailed |-> FALSE])
  /\ UNCHANGED <<tests, asset, group, assigned, sent, opens>>

\* The variant a recipient has in the rows that s sees.
Existing(s, r) ==
  {t[3] : t \in {u \in assigned \cup tx[s].fresh : u[1] = tx[s].test /\ u[2] = r}}

\* assign_variant for one recipient.  Without a running test, or with one that has
\* no split, everybody is kept.  Another session's uncommitted row is waited for.
AssignVariant(s) ==
  /\ tx[s].kind = "dispatch"
  /\ \E r \in tx[s].todo :
       LET t == tx[s]
           known == Existing(s, r)
           variant == IF known = {} THEN PickVariant(r, t.split)
                      ELSE CHOOSE v \in known : TRUE
       IN  IF t.split = <<>>
           THEN tx' = [tx EXCEPT ![s].todo = @ \ {r}, ![s].kept = @ \cup {r}]
           ELSE /\ known = {} => \A o \in Open \ {s} : tx[o].kind = "dispatch" =>
                                   <<t.test, r>> \notin {<<u[1], u[2]>> : u \in tx[o].fresh}
                /\ tx' = [tx EXCEPT ![s] =
                     [t EXCEPT !.todo = @ \ {r},
                               !.fresh = IF known = {} THEN @ \cup {<<t.test, r, variant>>} ELSE @,
                               !.kept = IF variant = t.variant THEN @ \cup {r} ELSE @]]
  /\ UNCHANGED <<tests, asset, group, assigned, sent, opens, calls, raced>>

\* Mutant of KeptOf: the assignment is written but not looked at.
KeptByAll(s) == Recipients \ tx[s].todo

\* _filter_audience_for_ab_test: who the variant goes to.
KeptOf(s) == tx[s].kept

\* The mails leave ...
Send(s) ==
  /\ tx[s].kind = "dispatch" /\ tx[s].todo = {} /\ ~tx[s].mailed
  /\ sent' = sent \cup {<<r, tx[s].variant, IF tx[s].split = <<>> THEN 0 ELSE tx[s].test>> :
                        r \in KeptOf(s)}
  /\ tx' = [tx EXCEPT ![s].mailed = TRUE]
  /\ UNCHANGED <<tests, asset, group, assigned, opens, calls, raced>>

\* ... and the assignments and the published variant become visible.
CommitDispatch(s) ==
  /\ tx[s].kind = "dispatch" /\ tx[s].mailed
  /\ assigned' = assigned \cup tx[s].fresh
  /\ asset' = [asset EXCEPT ![tx[s].variant] = "published"]
  /\ End(s)
  /\ UNCHANGED <<tests, group, sent, opens, calls, raced>>

\* A recipient opens or clicks, once more.
Engage(v) ==
  /\ opens[v] < MaxOpens /\ \E m \in sent : m[2] = v
  /\ opens' = [opens EXCEPT ![v] = @ + 1]
  /\ UNCHANGED <<tests, asset, group, assigned, sent, calls, raced, tx>>

Rollback(s) ==
  /\ tx[s] # Idle /\ End(s)
  /\ UNCHANGED <<tests, asset, group, assigned, sent, opens, calls, raced>>
-----------------------------------------------------------------------------
Next ==
  \/ \E v \in Variants : Approve(v) \/ Engage(v)
  \/ \E i \in DOMAIN tests : TimePasses(i)
  \/ \E s \in Sessions :
       \/ LoadAddVariant(s) \/ CommitAddVariant(s) \/ LoadCreate(s) \/ CommitCreate(s)
       \/ LoadLaunch(s) \/ CommitLaunch(s) \/ LoadStop(s) \/ CommitStop(s)
       \/ LoadEvaluate(s) \/ CommitEvaluate(s) \/ LoadPromote(s) \/ CommitPromote(s)
       \/ LoadDispatch(s) \/ AssignVariant(s) \/ Send(s) \/ CommitDispatch(s)
       \/ Rollback(s)

Spec == Init /\ [][Next]_vars
-----------------------------------------------------------------------------
\* The tables have their shapes.
TypeOK ==
  /\ Len(tests) <= MaxTests
  /\ \A i \in DOMAIN tests :
       /\ tests[i].status \in Active \cup {"stopped", "significant", "inconclusive"}
       /\ DOMAIN tests[i].split \subseteq Variants
       /\ tests[i].winner \in Variants \cup {0}
  /\ asset \in [Variants -> {"none", "requested", "scheduled", "published", "archived"}]
  /\ group \in [Variants -> 0..MaxTests]
  /\ assigned \subseteq (1..MaxTests) \X Recipients \X Variants

\* "the SAME recipient to see the SAME variant" (assignment.py): of the variants
\* one test chose the recipients of, a recipient gets one, whoever dispatches them,
\* in whatever order, and however often a dispatch is rolled back and tried again.
OneArm ==
  \A m, k \in sent : (m[3] # 0 /\ m[1] = k[1] /\ m[3] = k[3]) =>
    m[2] = k[2]

\* At most one active test has a given first variant, however requests overlap.
OneActiveTest ==
  \A i, j \in DOMAIN tests :
    (tests[i].a = tests[j].a /\ {tests[i].status, tests[j].status} \subseteq Active) => i = j

\* "manual stop wins" (evaluate_test): when no two requests overlap, a test that was
\* stopped, decided or ran out never changes its status again, and keeps its winner.
FinishedStaysStep ==
  \A i \in DOMAIN tests : (tests[i].status \notin Active /\ ~raced) =>
    /\ tests'[i].status = tests[i].status
    /\ tests'[i].winner = tests[i].winner

\* "losers -> archived" (promote_ab_test) is for variants that were not sent: when
\* no two requests overlap a published variant is never archived.
PublishedStaysStep ==
  \A v \in Variants : (asset[v] = "published" /\ ~raced) => asset'[v] = "published"
=============================================================================
