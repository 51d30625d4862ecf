------------------------------ MODULE Planning ------------------------------
(***************************************************************************)
(* Planning one campaign: the audience, the Strategist's proposals and      *)
(* their human overrides, the accepted plan and its calendar, and the start *)
(* of content production.                                                  *)
(*                                                                         *)
(* A session is a request or a worker's task: it reads when it loads, and   *)
(* what it wrote becomes visible when it commits.  SQLAlchemy keeps the     *)
(* rows as loaded, so a commit acts on what was read then; statements the   *)
(* code issues later read again.  tx[s] is the open transaction of s.      *)
(*                                                                         *)
(* proposals is the table strategy_proposal, in the order of its commits,   *)
(* calendar[i] the touchpoint rows of proposal i: touches (see Calendar)    *)
(* with the seeding they come from and their frequency_warning.            *)
(* raced remembers that two transactions were ever open at once.           *)
(***************************************************************************)
EXTENDS Planner, Calendar

CONSTANTS Sessions, Platforms, Answers, Duration, CapRules, Forbiddable, Pcts, Days,
          MaxProposals, MaxSeeds, MaxContent, MaxCalls

VARIABLES campaign, audience, forbidden, caps, proposals, calendar, queued, seeds, calls,
          content, raced, tx

vars == <<campaign, audience, forbidden, caps, proposals, calendar, queued, seeds, calls,
          content, raced, tx>>

Statuses == {"drafted", "audience_built", "strategy_set", "content_in_production"}
Idle == [kind |-> "none", stage |-> "none"]
Open == {s \in Sessions : tx[s] # Idle}

Accepted == {i \in DOMAIN proposals : proposals[i].accepted}
Versions == {proposals[i].version : i \in DOMAIN proposals}
Latest(S) == CHOOSE i \in S : \A j \in S : proposals[i].version >= proposals[j].version

Init ==
  /\ campaign = "drafted" /\ audience = FALSE
  /\ forbidden = {} /\ caps = <<>>
  /\ proposals = <<>> /\ calendar = <<>>
  /\ queued = 0 /\ seeds = 0 /\ calls = 0 /\ content = <<>> /\ raced = FALSE
  /\ tx = [s \in Sessions |-> Idle]

\* Every request or task that is begun, MaxCalls of them.
Counted ==
  /\ calls < MaxCalls /\ calls' = calls + 1
  /\ raced' = (raced \/ Open # {})

Begin(s, t) ==
  /\ tx[s] = Idle /\ Counted
  /\ tx' = [tx EXCEPT ![s] = t]

End(s) == tx' = [tx EXCEPT ![s] = Idle]

\* A request whose reads and writes fall into one step.
Alone == Counted /\ UNCHANGED tx
-----------------------------------------------------------------------------
\* An audience from a CSV upload or an Audience Targeting task.
MaterialiseAudience ==
  /\ ~audience /\ audience' = TRUE
  /\ Alone
  /\ UNCHANGED <<campaign, forbidden, caps, proposals, calendar, queued, seeds, content>>

\* create_constraint; only the kinds that planning reads.
CreateConstraint ==
  /\ \/ \E p \in Forbiddable \ forbidden : forbidden' = forbidden \cup {p} /\ UNCHANGED caps
     \/ /\ caps = <<>>
        /\ \E c \in CapRules : caps' = Append(caps, c)
        /\ UNCHANGED forbidden
  /\ Alone
  /\ UNCHANGED <<campaign, audience, proposals, calendar, queued, seeds, content>>

\* delete_constraint
DeleteConstraint ==
  /\ \/ forbidden # {} /\ (\E p \in forbidden : forbidden' = forbidden \ {p}) /\ UNCHANGED caps
     \/ caps # <<>> /\ caps' = Tail(caps) /\ UNCHANGED forbidden
  /\ Alone
  /\ UNCHANGED <<campaign, audience, proposals, calendar, queued, seeds, content>>

\* The propose transactions that are open: asked for in the chat, or of a task.
Proposing(asked) == {r \in Open : tx[r].kind = "propose" /\ tx[r].asked = asked}
RoomForProposal == Cardinality(Proposing(TRUE)) + queued + Len(proposals) < MaxProposals

\* enqueue_strategy_propose: the endpoint checks the preconditions, a worker runs it.
EnqueueStrategyPropose ==
  /\ audience /\ RoomForProposal
  /\ queued' = queued + 1
  /\ Alone
  /\ UNCHANGED <<campaign, audience, forbidden, caps, proposals, calendar, seeds, content>>

\* _build_context
BuildContext ==
  [active |-> Platforms, forbidden |-> forbidden,
   overrides |-> IF proposals = <<>> THEN <<>>
                 ELSE CarryOverrides(proposals[Latest(DOMAIN proposals)].answer)]

\* propose, until the model has answered: as the task of a worker or, `asked`, as
\* the assistant's generate_strategy.  Which answers the model gives is open, so
\* any answer may be the one StrategistPlanner.propose keeps (Planner!Propose).
LoadPropose(s, asked) ==
  /\ audience /\ Platforms \ forbidden # {}
  /\ IF asked THEN RoomForProposal ELSE queued > Cardinality(Proposing(FALSE))
  /\ \E answer \in Answers :
       Begin(s, [kind |-> "propose", stage |-> "planned", asked |-> asked,
                 answer |-> answer, warnings |-> Violations(answer, BuildContext)])
  /\ UNCHANGED <<campaign, audience, forbidden, caps, proposals, calendar, queued, seeds, content>>

\* ... its version is read only then.
Number(s) ==
  /\ tx[s].stage = "planned"
  /\ tx' = [tx EXCEPT ![s] = [stage |-> "numbered", version |-> Max(Versions \cup {0}) + 1] @@ @]
  /\ UNCHANGED <<campaign, audience, forbidden, caps, proposals, calendar, queued, seeds, content, calls, raced>>

\* Mutant of VersionFree: no unique constraint on (campaign_id, version).
VersionNeverTaken(version) == version > 0

\* uq_strategy_proposal_campaign_version lets the INSERT through.
VersionFree(version) == version \notin Versions

CommitPropose(s) ==
  /\ tx[s].stage = "numbered" /\ VersionFree(tx[s].version)
  /\ proposals' = Append(proposals, [version |-> tx[s].version, answer |-> tx[s].answer,
                                     warnings |-> tx[s].warnings, accepted |-> FALSE])
  /\ calendar' = Append(calendar, {})
  /\ queued' = IF tx[s].asked THEN queued ELSE queued - 1
  /\ End(s)
  /\ UNCHANGED <<campaign, audience, forbidden, caps, seeds, content, calls, raced>>

\* A request fails, or a task fails and is tried again: nothing of it is kept.
Rollback(s) ==
  /\ tx[s] # Idle
  /\ End(s)
  /\ UNCHANGED <<campaign, audience, forbidden, caps, proposals, calendar, queued, seeds, content, calls, raced>>

\* A propose task out of attempts, or without its preconditions, is dropped.
DropPropose ==
  /\ queued > Cardinality(Proposing(FALSE))
  /\ queued' = queued - 1
  /\ Alone
  /\ UNCHANGED <<campaign, audience, forbidden, caps, proposals, calendar, seeds, content>>
-----------------------------------------------------------------------------
\* patch_strategy_overrides: of a proposal that is not accepted, one channel gets a
\* new share and the human_override flag; the payload is written back whole.
LoadOverride(s) ==
  /\ \E i \in DOMAIN proposals \ Accepted, p \in Platforms, pct \in Pcts :
       LET own == {k \in DOMAIN proposals[i].answer.channels :
                     proposals[i].answer.channels[k].platform = p}
       IN  /\ own # {}
           /\ Begin(s, [kind |-> "override", stage |-> "loaded", prop |-> i,
                        answer |-> [proposals[i].answer EXCEPT
                                      !.channels[Max(own)].pct = pct,
                                      !.channels[Max(own)].numeric = TRUE,
                                      !.channels[Max(own)].override = TRUE]])
  /\ UNCHANGED <<campaign, audience, forbidden, caps, proposals, calendar, queued, seeds, content>>

\* The rows of proposal i another session has updated or deleted, uncommitted.
Locked(i, s) ==
  \E r \in Sessions \ {s} : tx[r].stage = "cleared" /\ i \in tx[r].cleared \cup DOMAIN tx[r].gone

CommitOverride(s) ==
  /\ tx[s].kind = "override" /\ ~Locked(tx[s].prop, s)
  /\ proposals' = [proposals EXCEPT ![tx[s].prop].answer = tx[s].answer]
  /\ End(s)
  /\ UNCHANGED <<campaign, audience, forbidden, caps, calendar, queued, seeds, content, calls, raced>>
-----------------------------------------------------------------------------
\* accept_strategy of the API: an accepted proposal is returned as it is.
LoadAccept(s) ==
  /\ \E i \in DOMAIN proposals \ Accepted :
       Begin(s, [kind |-> "accept", stage |-> "loaded", prop |-> i,
                 answer |-> proposals[i].answer, status |-> campaign])
  /\ UNCHANGED <<campaign, audience, forbidden, caps, proposals, calendar, queued, seeds, content>>

\* ... clears the plan it supersedes and deletes the other proposals' touchpoints.
Clear(s) ==
  /\ tx[s].kind = "accept" /\ tx[s].stage = "loaded"
  /\ tx' = [tx EXCEPT ![s] = [stage |-> "cleared", cleared |-> Accepted \ {@.prop},
                              gone |-> [j \in {k \in DOMAIN proposals \ {@.prop} : calendar[k] # {}}
                                          |-> calendar[j]]] @@ @]
  /\ UNCHANGED <<campaign, audience, forbidden, caps, proposals, calendar, queued, seeds, content, calls, raced>>

\* Mutant of OneAcceptedPlan: no partial unique index.
AnyAcceptedPlan(s) == tx[s].kind \in {"accept", "chat_accept"}

\* idx_strategy_proposal_accepted: at most one accepted proposal of a campaign.
OneAcceptedPlan(s) ==
  Accepted \subseteq {tx[s].prop} \cup (IF tx[s].kind = "accept" THEN tx[s].cleared ELSE {})

\* The channels of a payload generate_calendar gives touches to.
Schedulable(answer) ==
  SelectSeq(answer.channels, LAMBDA c : c.platform # NoPlatform /\ c.numeric)

\* The rows seed_calendar inserts.
Seeded(answer) ==
  LET touches == LaidDown(Schedulable(answer), Duration, caps)
  IN  {[seed |-> seeds + 1, warned |-> t \in FrequencyWarnings(touches)] @@ t : t \in touches}

\* seed_calendar raises CalendarSeedError or HardCapViolationError.
SeedFails(answer) ==
  ~audience \/ ~WithinHardCaps(LaidDown(Schedulable(answer), Duration, caps), caps)

CommitAccept(s) ==
  /\ tx[s].stage = "cleared" /\ ~Locked(tx[s].prop, s)
  /\ OneAcceptedPlan(s) /\ ~SeedFails(tx[s].answer) /\ seeds < MaxSeeds
  /\ proposals' = [i \in DOMAIN proposals |->
                     [proposals[i] EXCEPT !.accepted =
                        IF i \in tx[s].cleared THEN FALSE ELSE i = tx[s].prop \/ @]]
  /\ calendar' = [i \in DOMAIN calendar |->
                    IF i = tx[s].prop THEN calendar[i] \cup Seeded(tx[s].answer)
                    ELSE IF i \in DOMAIN tx[s].gone THEN calendar[i] \ tx[s].gone[i]
                    ELSE calendar[i]]
  /\ campaign' = IF tx[s].status = "audience_built" THEN "strategy_set" ELSE campaign
  /\ seeds' = seeds + 1
  /\ End(s)
  /\ UNCHANGED <<audience, forbidden, caps, queued, content, calls, raced>>

\* accept_strategy of the assistant: the latest proposal not accepted yet.
LoadChatAccept(s) ==
  /\ DOMAIN proposals # Accepted
  /\ LET i == Latest(DOMAIN proposals \ Accepted)
     IN  Begin(s, [kind |-> "chat_accept", stage |-> "loaded", prop |-> i,
                   answer |-> proposals[i].answer, status |-> campaign])
  /\ UNCHANGED <<campaign, audience, forbidden, caps, proposals, calendar, queued, seeds, content>>

\* ... flushes the flag before it demotes the other, so the index refuses a second
\* plan; and when the calendar cannot be seeded the router turns the error into a
\* reply, and the request commits the flag without a calendar.
CommitChatAccept(s) ==
  /\ tx[s].kind = "chat_accept" /\ ~Locked(tx[s].prop, s)
  /\ OneAcceptedPlan(s) /\ seeds < MaxSeeds
  /\ proposals' = [proposals EXCEPT ![tx[s].prop].accepted = TRUE]
  /\ IF SeedFails(tx[s].answer) THEN UNCHANGED <<calendar, campaign, seeds>>
     ELSE /\ calendar' = [calendar EXCEPT ![tx[s].prop] = @ \cup Seeded(tx[s].answer)]
          /\ campaign' = IF tx[s].status \in {"drafted", "audience_built"}
                         THEN "strategy_set" ELSE campaign
          /\ seeds' = seeds + 1
  /\ End(s)
  /\ UNCHANGED <<audience, forbidden, caps, queued, content, calls, raced>>
-----------------------------------------------------------------------------
Id(row) == <<row.seed, row.position>>

\* Mutant of Reevaluated: only the touchpoint that moved is looked at again.
ReevaluatedAlone(rows, id) ==
  {<<Id(r), r \in FrequencyWarnings(rows)>> : r \in {q \in rows : Id(q) = id}}

\* re_evaluate_warnings: the warnings a drag of touchpoint id changes.
Reevaluated(rows, id) ==
  {<<Id(r), r \in FrequencyWarnings(rows)>> :
     r \in {q \in rows : q.warned # (q \in FrequencyWarnings(rows))}}

\* patch_touchpoint: the caps and the warnings are evaluated on the rows as they
\* are then, the moved one in its new place.
LoadMove(s) ==
  /\ \E i \in DOMAIN proposals : \E row \in calendar[i] : \E day \in Days \ {row.day} :
       LET rows == (calendar[i] \ {row}) \cup {[row EXCEPT !.day = day]}
       IN  /\ WithinHardCaps(rows, caps)
           /\ Begin(s, [kind |-> "move", stage |-> "loaded", prop |-> i, row |-> Id(row),
                        day |-> day, warnings |-> Reevaluated(rows, Id(row))])
  /\ UNCHANGED <<campaign, audience, forbidden, caps, proposals, calendar, queued, seeds, content>>

\* ... and written to the rows there are at the commit; an UPDATE that finds its
\* row deleted fails the request.
CommitMove(s) ==
  /\ tx[s].kind = "move" /\ ~Locked(tx[s].prop, s)
  /\ LET i == tx[s].prop
         flag(id) == \E b \in BOOLEAN : <<id, b>> \in tx[s].warnings
     IN  /\ {tx[s].row} \cup {w[1] : w \in tx[s].warnings} \subseteq {Id(r) : r \in calendar[i]}
         /\ calendar' = [calendar EXCEPT ![i] =
              {[r EXCEPT !.day = IF Id(r) = tx[s].row THEN tx[s].day ELSE @,
                         !.warned = IF flag(Id(r)) THEN <<Id(r), TRUE>> \in tx[s].warnings
                                    ELSE @] : r \in @}]
  /\ End(s)
  /\ UNCHANGED <<campaign, audience, forbidden, caps, proposals, queued, seeds, content, calls, raced>>
-----------------------------------------------------------------------------
\* synthesise_audience, and a set_strategy or start_content transition: what
\* depends on the status depends on the status as loaded.
LoadStep(s, kind) ==
  /\ CASE kind = "synthesise" -> TRUE
       [] kind = "set_strategy" -> campaign = "audience_built"
       [] kind = "start_content" -> campaign = "strategy_set"
       [] kind = "chat_content" -> Len(content) < MaxContent
  /\ Begin(s, [kind |-> kind, stage |-> "loaded", status |-> campaign])
  /\ UNCHANGED <<campaign, audience, forbidden, caps, proposals, calendar, queued, seeds, content>>

CommitSynthesise(s) ==
  /\ tx[s].kind = "synthesise"
  /\ audience' = TRUE
  /\ campaign' = IF tx[s].status = "drafted" THEN "audience_built" ELSE campaign
  /\ End(s)
  /\ UNCHANGED <<forbidden, caps, proposals, calendar, queued, seeds, content, calls, raced>>

\* Mutant of HasAcceptedStrategy: any proposal will do.
HasProposal(s) == proposals # <<>> /\ tx[s].kind = "set_strategy"

\* _has_accepted_strategy
HasAcceptedStrategy(s) == Accepted # {} /\ tx[s].kind = "set_strategy"

CommitSetStrategy(s) ==
  /\ HasAcceptedStrategy(s)
  /\ campaign' = "strategy_set"
  /\ End(s)
  /\ UNCHANGED <<audience, forbidden, caps, proposals, calendar, queued, seeds, content, calls, raced>>

\* seed_assets_for_campaign: one asset per touchpoint of the accepted plan.
SeedAssets ==
  /\ Len(content) < MaxContent
  /\ \E i \in Accepted : /\ calendar[i] # {}
                         /\ content' = Append(content, {Id(r) : r \in calendar[i]})

CommitStartContent(s) ==
  /\ tx[s].kind = "start_content"
  /\ SeedAssets
  /\ campaign' = "content_in_production"
  /\ End(s)
  /\ UNCHANGED <<audience, forbidden, caps, proposals, calendar, queued, seeds, calls, raced>>

\* generate_content of the assistant: asks only for an accepted plan with touchpoints.
CommitChatContent(s) ==
  /\ tx[s].kind = "chat_content"
  /\ SeedAssets
  /\ campaign' = IF tx[s].status = "strategy_set" THEN "content_in_production" ELSE campaign
  /\ End(s)
  /\ UNCHANGED <<audience, forbidden, caps, proposals, calendar, queued, seeds, calls, raced>>
-----------------------------------------------------------------------------
Next ==
  \/ MaterialiseAudience \/ CreateConstraint \/ DeleteConstraint
  \/ EnqueueStrategyPropose \/ DropPropose
  \/ \E s \in Sessions :
       \/ \E asked \in BOOLEAN : LoadPropose(s, asked)
       \/ Number(s) \/ CommitPropose(s)
       \/ LoadOverride(s) \/ CommitOverride(s)
       \/ LoadAccept(s) \/ Clear(s) \/ CommitAccept(s)
       \/ LoadChatAccept(s) \/ CommitChatAccept(s)
       \/ LoadMove(s) \/ CommitMove(s)
       \/ \E kind \in {"synthesise", "set_strategy", "start_content", "chat_content"} :
            LoadStep(s, kind)
       \/ CommitSynthesise(s) \/ CommitSetStrategy(s)
       \/ CommitStartContent(s) \/ CommitChatContent(s)
       \/ Rollback(s)

Spec == Init /\ [][Next]_vars
-----------------------------------------------------------------------------
\* The tables and the transactions have their shapes.
TypeOK ==
  /\ campaign \in Statuses /\ audience \in BOOLEAN /\ raced \in BOOLEAN
  /\ forbidden \subseteq Platforms /\ caps \in Seq(CapRules)
  /\ queued \in 0..MaxProposals /\ Len(proposals) <= MaxProposals
  /\ \A i \in DOMAIN proposals : /\ proposals[i].accepted \in BOOLEAN
                                 /\ proposals[i].version \in 1..MaxProposals
  /\ DOMAIN calendar = DOMAIN proposals
  /\ \A i \in DOMAIN calendar : \A r \in calendar[i] :
       r.platform \in Platforms /\ r.seed \in 1..MaxSeeds /\ r.warned \in BOOLEAN

\* Proposals are numbered 1, 2, 3, ... in the order they became visible, however
\* many Strategist runs overlap (propose reads max + 1 after the model answered).
VersionsDense == \A i \in DOMAIN proposals : proposals[i].version = i

\* Readers of the calendar find one plan: at most one proposal is accepted, and
\* only it has touchpoints (accept_strategy clears and deletes in its transaction).
OnePlan ==
  /\ Cardinality(Accepted) <= 1
  /\ \A i \in DOMAIN proposals : calendar[i] # {} => proposals[i].accepted

\* A campaign is past audience_built only with an accepted plan, and in content
\* production only after assets were seeded, whoever moves it there.
StatusBacked ==
  /\ campaign \in {"strategy_set", "content_in_production"} => Accepted # {}
  /\ campaign = "content_in_production" => content # <<>>

\* "Re-plan treats them as hard constraints" (_carry_overrides): a proposal without
\* warnings keeps what a human overrode on the one before it and uses no forbidden
\* platform, when nothing else ran while it was planned.
ReplanKeepsOverridesStep ==
  \A i \in DOMAIN proposals' \ DOMAIN proposals :
    (~raced /\ proposals'[i].warnings = {}) =>
      LET ch == proposals'[i].answer.channels
      IN  /\ i > 1 => \A k \in DOMAIN CarryOverrides(proposals[i - 1].answer) :
               LET o == CarryOverrides(proposals[i - 1].answer)[k]
               IN  \E n \in DOMAIN ch : /\ ch[n].platform = o.platform /\ ch[n].override
                                        /\ Distance(ch[n].pct, o.pct) <= 1
          /\ \A n \in DOMAIN ch : ch[n].platform \notin forbidden

ReplanKeepsOverrides == [][ReplanKeepsOverridesStep]_vars

\* When no two requests overlap, the calendar of the accepted plan was seeded once,
\* gives touches to exactly the channels of the payload that have a share, and its
\* frequency warnings are those of its rows as they are now.
CalendarCurrent ==
  ~raced => \A i \in DOMAIN calendar : calendar[i] # {} =>
    /\ Cardinality({r.seed : r \in calendar[i]}) = 1
    /\ {r.platform : r \in calendar[i]} =
         {c.platform : c \in {d \in Range(Schedulable(proposals[i].answer)) : d.pct > 0}}
    /\ {r \in calendar[i] : r.warned} = FrequencyWarnings(calendar[i])

\* "the `accepted` flag and the calendar appear atomically" (seed_calendar): an
\* accepted plan with a share for some channel has touchpoints.
AcceptedHasCalendar ==
  \A i \in Accepted :
    (\E c \in Range(Schedulable(proposals[i].answer)) : c.pct > 0) => calendar[i] # {}
=============================================================================
