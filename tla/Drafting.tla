------------------------------ MODULE Drafting ------------------------------
(***************************************************************************)
(* The generation of one asset's draft: _run_generation of app/agents/     *)
(* content_creator.py, which asks the copywriting tool (app/tools/         *)
(* copywriting.py) for a text, checks it against the tenant's compliance   *)
(* rules (app/agents/_compliance.py, app/api/compliance_rules.py) and, for *)
(* an A/B variant, against its baseline, and asks again with directives;   *)
(* the tool itself asks the model again while the text is too long.        *)
(*                                                                         *)
(* A text is what the checks see of it: the rule terms it uses, the        *)
(* characters by which it exceeds its budget, whether it is too close to   *)
(* the baseline.  The model may answer anything, directives or not.        *)
(***************************************************************************)
EXTENDS Integers, FiniteSets

CONSTANTS
  Terms,                \* words and patterns a rule may name
  Variant,              \* the asset is a variant with a baseline to differ from
  MaxOverrun,           \* bound: characters over the budget
  SimRegenMaxRetries,   \* SIM_REGEN_MAX_RETRIES
  MaxRetries,           \* the tool's _MAX_RETRIES
  MaxRounds,            \* bound: generate_asset tasks of the asset
  MaxRuleChanges        \* bound: rules created or deleted

VARIABLES
  rules,      \* the severity of each term, "none" if no rule names it
  changes,    \* rules created or deleted so far
  round,      \* generate_asset tasks run
  phase,      \* "idle", "writing" in the tool's loop, "checking" in the agent's
  used,       \* the rules _run_generation loaded
  attempt,    \* the agent's attempt
  hints,      \* suppression_hints
  retry,      \* the tool's attempt
  best,       \* the tool's best text so far, or NoText
  overruns,   \* history: the overrun of each answer in this call of the tool
  stored      \* the asset's content and metadata

vars == <<rules, changes, round, phase, used, attempt, hints, retry, best, overruns, stored>>

Texts == [terms : SUBSET Terms, over : 0..MaxOverrun, close : BOOLEAN]
NoText == [terms |-> {}, over |-> -1, close |-> FALSE]

Init ==
  /\ rules \in [Terms -> {"none", "warn", "block"}]
  /\ changes = 0
  /\ round = 0
  /\ phase = "idle"
  /\ used = rules
  /\ attempt = 0
  /\ hints = {}
  /\ retry = 0
  /\ best = NoText
  /\ overruns = {}
  /\ stored = [text |-> NoText, blocked |-> FALSE, rewritten |-> FALSE,
               lengthWarning |-> 0, rules |-> rules, attempt |-> 0]
-----------------------------------------------------------------------------
\* create_compliance_rule: a keyword has one rule.
CreateComplianceRule(t, severity) ==
  /\ rules[t] = "none" /\ changes < MaxRuleChanges
  /\ rules' = [rules EXCEPT ![t] = severity]
  /\ changes' = changes + 1
  /\ UNCHANGED <<round, phase, used, attempt, hints, retry, best, overruns, stored>>

DeleteComplianceRule(t) ==
  /\ rules[t] # "none" /\ changes < MaxRuleChanges
  /\ rules' = [rules EXCEPT ![t] = "none"]
  /\ changes' = changes + 1
  /\ UNCHANGED <<round, phase, used, attempt, hints, retry, best, overruns, stored>>

\* A generate_asset task: the rules are loaded once for all its attempts.
GenerateAsset ==
  /\ phase = "idle" /\ round < MaxRounds
  /\ round' = round + 1
  /\ phase' = "writing"
  /\ used' = rules
  /\ attempt' = 0 /\ hints' = {}
  /\ retry' = 0 /\ best' = NoText /\ overruns' = {}
  /\ UNCHANGED <<rules, changes, stored>>

\* Mutant of Better: the last answer is kept.
BetterLast(text) == text

\* The text with the smaller total overrun; of two alike the earlier one.
Better(text) == IF best = NoText \/ text.over < best.over THEN text ELSE best

\* One answer of the model in CopywritingTool.call, measured: a text within its
\* budget ends the loop, and so does the last retry.
CallModel(text) ==
  /\ phase = "writing"
  /\ best' = IF text.over = 0 THEN text ELSE Better(text)
  /\ overruns' = overruns \cup {text.over}
  /\ IF text.over = 0 \/ retry = MaxRetries
     THEN phase' = "checking" /\ UNCHANGED retry
     ELSE retry' = retry + 1 /\ UNCHANGED phase
  /\ UNCHANGED <<rules, changes, round, used, attempt, hints, stored>>

\* An answer that is no JSON object or lacks a required field, or an error of
\* the API: the task fails and its transaction is rolled back.
RaiseError ==
  /\ phase = "writing"
  /\ phase' = "idle"
  /\ UNCHANGED <<rules, changes, round, used, attempt, hints, retry, best, overruns, stored>>
-----------------------------------------------------------------------------
\* check_compliance: the terms of each severity the text uses.
Hits(text, severity) == {t \in text.terms : used[t] = severity}

\* Mutant of Blocked: a hit that warns takes precedence.
BlockedIfAllBlock(text) == Hits(text, "block") # {} /\ Hits(text, "warn") = {}

\* ComplianceResult.blocked.
Blocked(text) == Hits(text, "block") # {}

\* Mutant of NeedsRewrite: a blocked text is left to the manager as it is.
NeedsRewriteUnlessBlocked(text) ==
  Hits(text, "block") = {} /\ (Hits(text, "warn") # {} \/ (Variant /\ text.close))

\* The text is asked for again when a term that warns was used, or when a variant
\* is too close to its baseline; a term that blocks is no reason.
NeedsRewrite(text) == Hits(text, "warn") # {} \/ (Variant /\ text.close)

\* The metadata is merged over what was there: a length_warning is written when
\* there is one to write, and never removed.
Stored ==
  [text |-> best, blocked |-> Blocked(best), rewritten |-> hints # {},
   lengthWarning |-> IF best.over > 0 THEN best.over ELSE stored.lengthWarning,
   rules |-> used, attempt |-> attempt]

\* The end of an attempt: another one, with the terms to avoid added to the
\* directives, or the draft is stored.
CheckDraft ==
  /\ phase = "checking"
  /\ IF attempt < SimRegenMaxRetries /\ NeedsRewrite(best)
     THEN /\ attempt' = attempt + 1
          /\ hints' = hints \cup Hits(best, "warn")
          /\ phase' = "writing"
          /\ retry' = 0 /\ best' = NoText /\ overruns' = {}
          /\ UNCHANGED stored
     ELSE /\ stored' = Stored
          /\ phase' = "idle"
          /\ UNCHANGED <<attempt, hints, retry, best, overruns>>
  /\ UNCHANGED <<rules, changes, round, used>>

Next ==
  \/ \E t \in Terms :
       (\E severity \in {"warn", "block"} : CreateComplianceRule(t, severity))
       \/ DeleteComplianceRule(t)
  \/ GenerateAsset
  \/ \E text \in Texts : CallModel(text)
  \/ RaiseError
  \/ CheckDraft

Spec == Init /\ [][Next]_vars
-----------------------------------------------------------------------------
Drafted == stored.text # NoText

\* Of the answers the tool got in a call it returns one with the smallest
\* overrun, and one within the budget when there was one.
LeastOverrun ==
  phase = "checking" => \A o \in overruns : best.over <= o

\* The verdict stored beside a draft is the verdict on that very text, under the
\* rules its task loaded: blocked exactly when it uses a term that blocks, also
\* when another term of it only warns and earlier attempts were judged otherwise.
VerdictOfStoredText ==
  Drafted => (stored.blocked <=> \E t \in stored.text.terms : stored.rules[t] = "block")

\* A draft that uses a term that warns, or a variant too close to its baseline,
\* is stored only when every attempt has been spent.
AttemptsSpent ==
  Drafted /\ ((Variant /\ stored.text.close) \/
              \E t \in stored.text.terms : stored.rules[t] = "warn")
    => stored.attempt = SimRegenMaxRetries
=============================================================================
