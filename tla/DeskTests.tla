----------------------------- MODULE DeskTests ------------------------------
(***************************************************************************)
(* The A/B tests of the desk.                                              *)
(***************************************************************************)
EXTENDS DeskState

X == INSTANCE Experiment WITH MaxCalls <- TestCalls
-----------------------------------------------------------------------------
\* Variables of other components keep a constant value.
XInit ==
  /\ scene = "experiment" /\ X!Init
  /\ campaign = Off /\ audience = Off /\ forbidden = Off /\ caps = Off /\ proposals = Off /\ calendar = Off
  /\ queued = Off /\ seeds = Off /\ content = Off /\ settings = Off /\ budget = Off /\ asked = Off
  /\ log = Off /\ rules = Off /\ changes = Off /\ round = Off /\ phase = Off /\ used = Off
  /\ attempt = Off /\ hints = Off /\ retry = Off /\ best = Off /\ overruns = Off /\ stored = Off
  /\ voices = Off /\ active = Off /\ members = Off /\ upload = Off /\ segments = Off /\ known = Off
  /\ clock = Off /\ allocated = Off /\ spent = Off /\ recs = Off /\ recon = Off /\ status = Off
  /\ hits = Off /\ misses = Off /\ others = Off /\ kpi = Off /\ reports = Off /\ metric = Off
  /\ optedIn = Off /\ now = Off /\ counts = Off /\ anomalies = Off /\ events = Off /\ sentFor = Off
  /\ input = Off

XNext ==
  /\ scene = "experiment" /\ X!Next
  /\ UNCHANGED <<scene, campaign, audience, forbidden, caps, proposals, calendar,
                 queued, seeds, content, settings, budget, asked, log, rules, changes,
                 round, phase, used, attempt, hints, retry, best, overruns, stored,
                 voices, active, members, upload, segments, known, clock, allocated,
                 spent, recs, recon, status, hits, misses, others, kpi, reports,
                 metric, optedIn, now, counts, anomalies, events, sentFor, input>>

\* This scene alone.  What the properties below say of it is so in every behaviour of
\* the desk: in another scene they say nothing.
TestsSpec == XInit /\ [][XNext]_vars
-----------------------------------------------------------------------------
\* "the SAME recipient to see the SAME variant" (assignment.py): of the variants
\* one test chose the recipients of, a recipient gets one, whoever dispatches them,
\* in whatever order, and however often a dispatch is rolled back and tried again;
\* and at most one active test has a given first variant.
TestsExclusive ==
  scene = "experiment" =>
    /\ X!OneArm
    /\ X!OneActiveTest

\* "manual stop wins" (evaluate_test) and "losers -> archived" (promote_ab_test):
\* when no two requests overlap, a test that was stopped, decided or ran out keeps
\* its status and winner, and a published variant is never archived.
EndsAreFinal == [][scene = "experiment" => X!FinishedStaysStep /\ X!PublishedStaysStep]_vars
=============================================================================
