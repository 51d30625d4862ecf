---------------------------- MODULE MCTaskQueue ----------------------------
\* Instances of TaskQueue for TLC.
EXTENDS TaskQueue

CONSTANTS t1, t2, t3, c1, c2, k1

\* t1 and t2 belong to one campaign, t3 to another.
MCCampaignOf == [t \in Tasks |-> IF t = t3 THEN c2 ELSE c1]

\* t1 and t3 are enqueued under the same key; t2 has none.
MCKeyOf == [t \in Tasks |-> IF t = t2 THEN NoKey ELSE k1]

\* The skill of t3 has no handler.
MCRegistered == Tasks \ {t3}
=============================================================================
