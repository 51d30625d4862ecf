------------------------- MODULE DistributionProofs -------------------------
(***************************************************************************)
(* Proofs about Distribution, for any assets, audiences, workers, requests *)
(* and bounds: the types, that a `sent` attempt row is true and is kept,   *)
(* that a published asset accounts for its whole audience, and, for a live *)
(* campaign, that no asset is forgotten and that a pause holds.            *)
(*                                                                         *)
(* The accounts are not inductive.  A dispatch decides its batch when it   *)
(* loads and writes the rows when it commits, with other commits, crashes  *)
(* and repeated executions in between.  The invariant says what is true of *)
(* the batch a transaction carries: it covers the audience but for the     *)
(* recipients that have their row already (rows never go away), and the    *)
(* answer reports as sent only what was delivered.                         *)
(*                                                                         *)
(* Nor is it inductive that nothing is forgotten: a resume selects assets  *)
(* in one step and queues them in a later one.  The invariant says that it *)
(* has selected every asset that is still scheduled when it commits.       *)
(***************************************************************************)
EXTENDS Distribution, FiniteSetTheorems, TLAPS

\* The leaves are first-order reasoning about sets and functions unless they say SMT.
USE Zenon

Outcomes == {"sent", "rejected", "failed"}

\* The provider's answers to some batch.
Answers == UNION {[B -> Outcomes] : B \in SUBSET Recipients}

\* The dispatch of a worker, stage by stage.
Transactions ==
  {Idle}
  \cup [stage : {"claimed"}, asset : Assets]
  \cup [stage : {"loaded"}, asset : Assets, campaign : CampaignStatus,
        batch : SUBSET Recipients, capped : SUBSET Recipients]
  \cup [stage : {"sent"}, asset : Assets, campaign : CampaignStatus,
        capped : SUBSET Recipients, answer : Answers]

\* The request of a user, stage by stage.
OpenRequests ==
  {Idle}
  \cup [stage : {"checked"}, op : Requests]
  \cup [stage : {"entered"}, op : {"resume"}, fails : SUBSET Assets, requeues : SUBSET Assets]

Types ==
  /\ TypeOK
  /\ tx \in [Workers -> Transactions]
  /\ req \in [Users -> OpenRequests]

\* Under the rows rw: a recipient who has a row of the asset, or was sent another.
Covered(rw, a, r) == rw[a][r] # "none" \/ \E b \in Assets : rw[b][r] = "sent"

\* The batch of a loaded dispatch and the recipients it skips are all that is not
\* covered.
BatchComplete(t, rw) ==
  t.stage = "loaded" =>
    \A r \in Audience[t.asset] : r \in t.batch \/ r \in t.capped \/ Covered(rw, t.asset, r)

\* So are the answered ones and the skipped ones once it is sent, ...
AnswerComplete(t, rw) ==
  t.stage = "sent" =>
    \A r \in Audience[t.asset] :
      r \in DOMAIN t.answer \/ r \in t.capped \/ Covered(rw, t.asset, r)

\* ... and those reported as sent were delivered.
AnswerTrue(t, sd) ==
  t.stage = "sent" =>
    \A r \in DOMAIN t.answer : t.answer[r] = "sent" => sd[t.asset][r] > 0

\* What is true of a dispatch under way.
Carried(t, rw, sd) == BatchComplete(t, rw) /\ AnswerComplete(t, rw) /\ AnswerTrue(t, sd)

RowsTrue == \A a \in Assets, r \in Recipients : row[a][r] = "sent" => sends[a][r] > 0

RecentTrue == \A a \in Assets, r \in Recipients : <<a, r>> \in recent => row[a][r] = "sent"

\* The inductive invariant.
DInv ==
  /\ Types
  /\ RowsTrue
  /\ RecentTrue
  /\ \A w \in Workers : Carried(tx[w], row, sends)
  /\ PublishedAccountsForAll

\* What no step undoes: an attempt row and a delivery.
RowsKept ==
  \A a \in Assets, r \in Recipients : row[a][r] # "none" => row'[a][r] = row[a][r]

DeliveriesKept ==
  \A a \in Assets, r \in Recipients : sends[a][r] > 0 => sends'[a][r] > 0
-----------------------------------------------------------------------------
\* A raised handler (fail() in the queue) leaves the types.
LEMMA RaiseTypes ==
  ASSUME Types, NEW w \in Workers, NEW a \in Assets, Raise(w, a)
  PROVE  /\ tx' \in [Workers -> Transactions]
         /\ queued' \in [Assets -> Nat]
         /\ retries' \in [Assets -> 0..MaxRetries]
         /\ gaveUp' \subseteq Assets
         /\ UNCHANGED <<requests, resumes, req>>
<1>1. Idle \in Transactions
  BY DEF Transactions
<1>2. tx' = [tx EXCEPT ![w] = Idle]
  BY DEF Raise
<1>3. tx' \in [Workers -> Transactions]
  BY <1>1, <1>2 DEF Types
<1>4. MaxRetries \in Nat
  BY DistributionAssumption
<1>5. queued \in [Assets -> Nat] /\ retries \in [Assets -> 0..MaxRetries] /\ gaveUp \subseteq Assets
  BY DEF Types, TypeOK
<1>6. CASE retries[a] < MaxRetries
  BY <1>3, <1>4, <1>5, <1>6, SMT DEF Raise
<1>7. CASE ~(retries[a] < MaxRetries)
  BY <1>3, <1>4, <1>5, <1>7 DEF Raise
<1> QED
  BY <1>6, <1>7

\* Delivering adds to the deliveries of one asset and takes none away.
LEMMA DeliverGrows ==
  ASSUME Types, NEW a \in Assets, NEW D, Deliver(a, D)
  PROVE  /\ sends' \in [Assets -> [Recipients -> Nat]]
         /\ \A b \in Assets, r \in Recipients : sends'[b][r] >= sends[b][r]
         /\ \A r \in Recipients : r \in D => sends'[a][r] > 0
<1>1. sends \in [Assets -> [Recipients -> Nat]]
  BY DEF Types, TypeOK
<1>2. sends' = [sends EXCEPT ![a] = [r \in Recipients |-> IF r \in D THEN sends[a][r] + 1
                                                          ELSE sends[a][r]]]
  BY DEF Deliver
<1>3. [r \in Recipients |-> IF r \in D THEN sends[a][r] + 1 ELSE sends[a][r]]
        \in [Recipients -> Nat]
  BY <1>1, SMT
<1>4. sends' \in [Assets -> [Recipients -> Nat]]
  BY <1>1, <1>2, <1>3
<1>5. \A r \in Recipients : sends'[a][r] = IF r \in D THEN sends[a][r] + 1 ELSE sends[a][r]
  BY <1>1, <1>2
<1>6. \A b \in Assets : b # a => sends'[b] = sends[b]
  BY <1>1, <1>2
<1>7. \A b \in Assets, r \in Recipients : sends[b][r] \in Nat
  BY <1>1
<1> QED
  BY <1>4, <1>5, <1>6, <1>7, SMT

\* The row a commit leaves (Written, _upsert_dispatch_attempt): of the right type,
\* the old one if there was one, and some row for whoever was answered or capped.
LEMMA WrittenRow ==
  ASSUME Types, NEW w \in Workers, tx[w].stage = "sent", NEW r \in Recipients
  PROVE  LET t == tx[w]
             old == row[t.asset][r]
         IN  /\ Written(t, r) \in RowStatus
             /\ old # "none" => Written(t, r) = old
             /\ r \in DOMAIN t.answer \/ r \in t.capped => Written(t, r) # "none"
             /\ Written(t, r) = "sent" =>
                  old = "sent" \/ (r \in DOMAIN t.answer /\ t.answer[r] = "sent")
<1> DEFINE t == tx[w]
<1>1. t.asset \in Assets /\ t.answer \in Answers
  BY SMT DEF Types, Transactions, Idle
<1>2. PICK B \in SUBSET Recipients : t.answer \in [B -> Outcomes]
  BY <1>1 DEF Answers
<1>3. row[t.asset][r] \in RowStatus
  BY <1>1, SMT DEF Types, TypeOK
<1> HIDE DEF t
<1>4. \A x \in DOMAIN t.answer : t.answer[x] \in Outcomes
  BY <1>2
<1>5. /\ Written(t, r) \in RowStatus
      /\ row[t.asset][r] # "none" => Written(t, r) = row[t.asset][r]
      /\ r \in DOMAIN t.answer \/ r \in t.capped => Written(t, r) # "none"
      /\ Written(t, r) = "sent" =>
           row[t.asset][r] = "sent" \/ (r \in DOMAIN t.answer /\ t.answer[r] = "sent")
  BY <1>3, <1>4 DEF Written, Upsert, Outcomes, RowStatus
<1> QED
  BY <1>5 DEF t

\* What Commit does to the rows.
LEMMA CommitRows ==
  ASSUME Types, NEW w \in Workers, Commit(w)
  PROVE  LET a == tx[w].asset
         IN  /\ a \in Assets
             /\ row' \in [Assets -> [Recipients -> RowStatus]]
             /\ \A r \in Recipients : row'[a][r] = Written(tx[w], r)
             /\ \A b \in Assets : b # a => row'[b] = row[b]
             /\ \A b \in Assets, r \in Recipients :
                  row[b][r] # "none" => row'[b][r] = row[b][r]
<1> DEFINE a == tx[w].asset
           written == [r \in Recipients |-> Written(tx[w], r)]
<1>1. tx[w].stage = "sent" /\ row' = [row EXCEPT ![a] = written]
  BY DEF Commit
<1>2. a \in Assets
  BY <1>1, SMT DEF Types, Transactions, Idle
<1>3. row \in [Assets -> [Recipients -> RowStatus]]
  BY DEF Types, TypeOK
<1>4. \A r \in Recipients : /\ Written(tx[w], r) \in RowStatus
                            /\ row[a][r] # "none" => Written(tx[w], r) = row[a][r]
  BY <1>1, WrittenRow
<1>5. written \in [Recipients -> RowStatus]
  BY <1>4
<1>6. row' \in [Assets -> [Recipients -> RowStatus]]
  BY <1>1, <1>3, <1>5
<1>7. \A r \in Recipients : row'[a][r] = Written(tx[w], r)
  BY <1>1, <1>2, <1>3
<1>8. \A b \in Assets : b # a => row'[b] = row[b]
  BY <1>1, <1>3
<1> HIDE DEF a
<1>9. \A b \in Assets, r \in Recipients : row[b][r] # "none" => row'[b][r] = row[b][r]
  BY <1>4, <1>7, <1>8
<1> QED
  BY <1>2, <1>6, <1>7, <1>8, <1>9 DEF a
-----------------------------------------------------------------------------
LEMMA TypesInit == Init => Types
<1> SUFFICES ASSUME Init PROVE Types
  OBVIOUS
<1>1. Idle \in Transactions /\ Idle \in OpenRequests
  BY DEF Transactions, OpenRequests
<1>2. tx \in [Workers -> Transactions] /\ req \in [Users -> OpenRequests]
  BY <1>1 DEF Init
<1>3. TypeOK
  BY DistributionAssumption, SMT DEF Init, TypeOK, RowStatus, CampaignStatus
<1> QED
  BY <1>2, <1>3 DEF Types

\* The last two conjuncts of TypeOK follow from the stages, after a step too.
LEMMA StagesSufficeNext ==
  ASSUME tx' \in [Workers -> Transactions], req' \in [Users -> OpenRequests]
  PROVE  /\ \A w \in Workers : tx'[w] # Idle => tx'[w].asset \in Assets
         /\ \A u \in Users : req'[u] # Idle => req'[u].op \in Requests
BY DEF Transactions, OpenRequests, Requests

\* Every step of a worker keeps the types.
LEMMA DispatchTypes ==
  ASSUME Types, NEW w \in Workers, Dispatch(w) \/ Crash(w) \/ Overrun(w)
  PROVE  Types'
<1> USE DistributionAssumption
<1>0. Idle \in Transactions
  BY DEF Transactions
<1>1. ASSUME NEW a \in Assets, Claim(w, a) PROVE Types'
  <2>1. [stage |-> "claimed", asset |-> a] \in Transactions
    BY DEF Transactions
  <2>2. tx' \in [Workers -> Transactions] /\ req' \in [Users -> OpenRequests]
    BY <1>1, <2>1 DEF Claim, Types
  <2>3. queued' \in [Assets -> Nat]
    BY <1>1, SMT DEF Claim, Types, TypeOK
  <2> QED
    BY <1>1, <2>2, <2>3, StagesSufficeNext DEF Claim, Types, TypeOK, clock, counters
<1>2. CASE LoadRaises(w)
  <2>1. tx[w].asset \in Assets
    BY <1>2, SMT DEF LoadRaises, Types, Transactions, Idle
  <2>2. Raise(w, tx[w].asset)
    BY <1>2 DEF LoadRaises
  <2>3. /\ tx' \in [Workers -> Transactions]
        /\ queued' \in [Assets -> Nat]
        /\ retries' \in [Assets -> 0..MaxRetries]
        /\ gaveUp' \subseteq Assets
        /\ UNCHANGED <<requests, resumes, req>>
    BY <2>1, <2>2, RaiseTypes
  <2> QED
    BY <1>2, <2>3, StagesSufficeNext DEF LoadRaises, Types, TypeOK, clock
<1>3. CASE LoadSkips(w)
  <2>1. tx' \in [Workers -> Transactions] /\ req' \in [Users -> OpenRequests]
    BY <1>0, <1>3 DEF LoadSkips, Types
  <2> QED
    BY <1>3, <2>1, StagesSufficeNext DEF LoadSkips, Types, TypeOK, clock, counters
<1>4. CASE Load(w)
  <2> DEFINE a == tx[w].asset
             skip == IF a \in Social THEN {} ELSE Capped
             new == [stage |-> "loaded", asset |-> a, campaign |-> campaign,
                     batch |-> Candidates(a) \ skip, capped |-> Candidates(a) \cap skip]
  <2>1. a \in Assets
    BY <1>4, SMT DEF Load, Types, Transactions, Idle
  <2>2. Candidates(a) \subseteq Recipients
    BY <2>1 DEF Candidates
  <2>3. campaign \in CampaignStatus
    BY DEF Types, TypeOK
  <2>4. new \in Transactions
    BY <2>1, <2>2, <2>3 DEF Transactions
  <2>5. tx' = [tx EXCEPT ![w] = new]
    BY <1>4 DEF Load
  <2>6. tx' \in [Workers -> Transactions] /\ req' \in [Users -> OpenRequests]
    BY <1>4, <2>4, <2>5, SMT DEF Load, Types
  <2> QED
    BY <1>4, <2>6, StagesSufficeNext DEF Load, Types, TypeOK, clock, counters
<1>5. CASE Send(w)
  <2> DEFINE t == tx[w]
  <2>1. t.stage = "loaded"
    BY <1>5 DEF Send
  <2>2. /\ t.asset \in Assets /\ t.campaign \in CampaignStatus
        /\ t.batch \in SUBSET Recipients /\ t.capped \in SUBSET Recipients
    BY <2>1, SMT DEF Types, Transactions, Idle
  <2>3. PICK refused \in SUBSET t.batch, acknowledged \in BOOLEAN :
          /\ ~acknowledged => faults < MaxFaults
          /\ faults' = IF acknowledged THEN faults ELSE faults + 1
          /\ Deliver(t.asset, t.batch \ refused)
          /\ tx' = [tx EXCEPT ![w] =
               [stage |-> "sent", asset |-> t.asset, campaign |-> t.campaign,
                capped |-> t.capped,
                answer |-> [r \in t.batch |-> IF r \in refused THEN "rejected"
                                              ELSE IF acknowledged THEN "sent"
                                              ELSE "failed"]]]
    BY <1>5 DEF Send
  <2> DEFINE f == [r \in t.batch |-> IF r \in refused THEN "rejected"
                                     ELSE IF acknowledged THEN "sent" ELSE "failed"]
  <2>4. f \in Answers
    <3>1. f \in [t.batch -> Outcomes]
      BY DEF Outcomes
    <3>2. [t.batch -> Outcomes] \in {[B -> Outcomes] : B \in SUBSET Recipients}
      BY <2>2
    <3> QED
      BY <3>1, <3>2 DEF Answers
  <2>5. tx' = [tx EXCEPT ![w] = [stage |-> "sent", asset |-> t.asset,
                                 campaign |-> t.campaign, capped |-> t.capped, answer |-> f]]
    BY <2>3
  <2> HIDE DEF f
  <2>6. [stage |-> "sent", asset |-> t.asset, campaign |-> t.campaign, capped |-> t.capped,
         answer |-> f] \in Transactions
    BY <2>2, <2>4 DEF Transactions
  <2>7. tx' \in [Workers -> Transactions] /\ req' \in [Users -> OpenRequests]
    BY <1>5, <2>5, <2>6 DEF Send, Types
  <2>8. sends' \in [Assets -> [Recipients -> Nat]]
    BY <2>2, <2>3, DeliverGrows
  <2>9. faults' \in 0..MaxFaults
    BY <2>3, SMT DEF Types, TypeOK
  <2> QED
    BY <1>5, <2>7, <2>8, <2>9, StagesSufficeNext DEF Send, Types, TypeOK, clock
<1>6. CASE SendRaises(w)
  <2>1. tx[w].asset \in Assets
    BY <1>6, SMT DEF SendRaises, Types, Transactions, Idle
  <2>2. Raise(w, tx[w].asset)
    BY <1>6 DEF SendRaises
  <2>3. /\ tx' \in [Workers -> Transactions]
        /\ queued' \in [Assets -> Nat]
        /\ retries' \in [Assets -> 0..MaxRetries]
        /\ gaveUp' \subseteq Assets
        /\ UNCHANGED <<requests, resumes, req>>
    BY <2>1, <2>2, RaiseTypes
  <2>4. PICK D : /\ D # {} => faults < MaxFaults
                 /\ faults' = IF D = {} THEN faults ELSE faults + 1
                 /\ Deliver(tx[w].asset, D)
    BY <1>6 DEF SendRaises
  <2>5. sends' \in [Assets -> [Recipients -> Nat]]
    BY <2>1, <2>4, DeliverGrows
  <2>6. faults' \in 0..MaxFaults
    BY <2>4, SMT DEF Types, TypeOK
  <2> QED
    BY <1>6, <2>3, <2>5, <2>6, StagesSufficeNext DEF SendRaises, Types, TypeOK, clock
<1>7. CASE OAuthRevoked(w)
  <2>1. tx' \in [Workers -> Transactions] /\ req' \in [Users -> OpenRequests]
    BY <1>0, <1>7 DEF OAuthRevoked, Types
  <2>2. /\ campaign' \in CampaignStatus
        /\ queued' \in [Assets -> Nat]
        /\ status' \in [Assets -> {"scheduled", "published", "failed"}]
    BY <1>7 DEF OAuthRevoked, NoneQueued, Types, TypeOK, CampaignStatus
  <2> QED
    BY <1>7, <2>1, <2>2, StagesSufficeNext DEF OAuthRevoked, Types, TypeOK, clock, counters
<1>8. CASE Commit(w)
  <2> DEFINE a == tx[w].asset
  <2>1. a \in Assets /\ row' \in [Assets -> [Recipients -> RowStatus]]
    BY <1>8, CommitRows
  <2>2. tx' \in [Workers -> Transactions] /\ req' \in [Users -> OpenRequests]
    BY <1>0, <1>8 DEF Commit, Types
  <2>3. recent' \subseteq Assets \X Recipients
    BY <1>8, <2>1, SMT DEF Commit, Types, TypeOK
  <2>4. /\ campaign' \in CampaignStatus
        /\ status' \in [Assets -> {"scheduled", "published", "failed"}]
    BY <1>8 DEF Commit, Types, TypeOK, CampaignStatus
  <2>5. queued' \in [Assets -> Nat] /\ faults' \in 0..MaxFaults
    BY <1>8, <2>1, SMT DEF Commit, Types, TypeOK
  <2> QED
    BY <1>8, <2>1, <2>2, <2>3, <2>4, <2>5, StagesSufficeNext DEF Commit, Types, TypeOK, clock
<1>9. CASE CommitRaises(w)
  <2>1. tx[w].asset \in Assets
    BY <1>9, SMT DEF CommitRaises, Types, Transactions, Idle
  <2>2. Raise(w, tx[w].asset)
    BY <1>9 DEF CommitRaises
  <2>3. /\ tx' \in [Workers -> Transactions]
        /\ queued' \in [Assets -> Nat]
        /\ retries' \in [Assets -> 0..MaxRetries]
        /\ gaveUp' \subseteq Assets
        /\ UNCHANGED <<requests, resumes, req>>
    BY <2>1, <2>2, RaiseTypes
  <2>4. faults' \in 0..MaxFaults
    BY <1>9, SMT DEF CommitRaises, Types, TypeOK
  <2> QED
    BY <1>9, <2>3, <2>4, StagesSufficeNext DEF CommitRaises, Types, TypeOK, clock
<1>10. CASE Crash(w)
  <2>1. tx' \in [Workers -> Transactions] /\ req' \in [Users -> OpenRequests]
    BY <1>0, <1>10 DEF Crash, Types
  <2>2. queued' \in [Assets -> Nat] /\ faults' \in 0..MaxFaults
    BY <1>10, SMT DEF Crash, Types, TypeOK
  <2> QED
    BY <1>10, <2>1, <2>2, StagesSufficeNext DEF Crash, Types, TypeOK, clock
<1>11. CASE Overrun(w)
  <2>1. tx' \in [Workers -> Transactions] /\ req' \in [Users -> OpenRequests]
    BY <1>11 DEF Overrun, Types
  <2>2. queued' \in [Assets -> Nat] /\ faults' \in 0..MaxFaults
    BY <1>11, SMT DEF Overrun, Types, TypeOK
  <2> QED
    BY <1>11, <2>1, <2>2, StagesSufficeNext DEF Overrun, Types, TypeOK, clock
<1> QED
  BY <1>1, <1>2, <1>3, <1>4, <1>5, <1>6, <1>7, <1>8, <1>9, <1>10, <1>11 DEF Dispatch

\* So do the requests of users and the clock.
LEMMA RequestTypes ==
  ASSUME Types, NEW u \in Users, Finish(u) \/ \E op \in Requests : Begin(u, op)
  PROVE  Types'
<1> USE DistributionAssumption
<1>0. Idle \in OpenRequests
  BY DEF OpenRequests
<1>1. CASE Enter(u)
  <2> DEFINE scheduled == {a \in Assets : status[a] = "scheduled"}
             new == [stage |-> "entered", op |-> "resume", fails |-> scheduled \cap elapsed,
                     requeues |-> scheduled \ elapsed]
  <2>1. new \in OpenRequests
    BY DEF OpenRequests
  <2>2. req' = [req EXCEPT ![u] = new]
    BY <1>1 DEF Enter
  <2>3. tx' \in [Workers -> Transactions] /\ req' \in [Users -> OpenRequests]
    BY <1>1, <2>1, <2>2 DEF Enter, Types
  <2> QED
    BY <1>1, <2>3, StagesSufficeNext DEF Enter, Types, TypeOK, clock, counters
<1>2. CASE FinishResume(u)
  <2>1. tx' \in [Workers -> Transactions] /\ req' \in [Users -> OpenRequests]
    BY <1>0, <1>2 DEF FinishResume, Types
  <2>2. /\ campaign' \in CampaignStatus
        /\ queued' \in [Assets -> Nat]
        /\ status' \in [Assets -> {"scheduled", "published", "failed"}]
        /\ resumes' \in Nat
    BY <1>2, SMT DEF FinishResume, Types, TypeOK, CampaignStatus
  <2> QED
    BY <1>2, <2>1, <2>2, StagesSufficeNext DEF FinishResume, Types, TypeOK, clock
<1>3. CASE FinishPause(u)
  <2>1. tx' \in [Workers -> Transactions] /\ req' \in [Users -> OpenRequests]
    BY <1>0, <1>3 DEF FinishPause, Types
  <2>2. campaign' \in CampaignStatus /\ queued' \in [Assets -> Nat]
    BY <1>3 DEF FinishPause, NoneQueued, CampaignStatus
  <2> QED
    BY <1>3, <2>1, <2>2, StagesSufficeNext DEF FinishPause, Types, TypeOK, clock, counters
<1>4. CASE FinishMove(u)
  <2>1. tx' \in [Workers -> Transactions] /\ req' \in [Users -> OpenRequests]
    BY <1>0, <1>4 DEF FinishMove, Types
  <2>2. campaign' \in CampaignStatus
    BY <1>4 DEF FinishMove, CampaignStatus
  <2> QED
    BY <1>4, <2>1, <2>2, StagesSufficeNext DEF FinishMove, Types, TypeOK, clock, counters
<1>5. ASSUME NEW op \in Requests, Begin(u, op) PROVE Types'
  <2>1. [stage |-> "checked", op |-> op] \in OpenRequests
    BY DEF OpenRequests
  <2>2. tx' \in [Workers -> Transactions] /\ req' \in [Users -> OpenRequests]
    BY <1>5, <2>1 DEF Begin, Types
  <2>3. requests' \in 0..MaxRequests
    BY <1>5, SMT DEF Begin, Types, TypeOK
  <2> QED
    BY <1>5, <2>2, <2>3, StagesSufficeNext DEF Begin, Types, TypeOK, clock
<1> QED
  BY <1>1, <1>2, <1>3, <1>4, <1>5 DEF Finish

LEMMA TypesStep == Types /\ [Next]_vars => Types'
<1> SUFFICES ASSUME Types, [Next]_vars PROVE Types'
  OBVIOUS
<1>1. ASSUME NEW a \in Assets, SlotArrives(a) PROVE Types'
  BY <1>1 DEF SlotArrives, Types, TypeOK, counters
<1>2. CASE StartDateArrives
  BY <1>2 DEF StartDateArrives, Types, TypeOK, counters
<1>3. CASE WindowPasses
  BY <1>3 DEF WindowPasses, Types, TypeOK, clock, counters
<1>4. CASE UNCHANGED vars
  BY <1>4 DEF vars, Types, TypeOK, clock, counters
<1> QED
  BY <1>1, <1>2, <1>3, <1>4, DispatchTypes, RequestTypes DEF Next

\* Every variable of Distribution keeps its type, for all constants.
THEOREM TypesHold == Spec => []TypeOK
<1>1. Types => TypeOK
  BY DEF Types
<1> QED
  BY <1>1, TypesInit, TypesStep, PTL DEF Spec
-----------------------------------------------------------------------------
\* The stages of a dispatch, with what each carries.
LEMMA DispatchParts ==
  ASSUME NEW t \in Transactions
  PROVE  /\ t.stage = "loaded" =>
              t.asset \in Assets /\ t.batch \subseteq Recipients /\ t.capped \subseteq Recipients
         /\ t.stage = "sent" =>
              /\ t.asset \in Assets
              /\ t.capped \subseteq Recipients
              /\ DOMAIN t.answer \subseteq Recipients
<1>1. t.stage = "sent" => t.answer \in Answers
  BY SMT DEF Transactions, Idle
<1>2. t.stage = "sent" => DOMAIN t.answer \subseteq Recipients
  BY <1>1 DEF Answers
<1> QED
  BY <1>2, SMT DEF Transactions, Idle

\* Rows and deliveries that stay keep what is true of a dispatch under way.
LEMMA CarriedKept ==
  ASSUME NEW t \in Transactions, RowsKept, DeliveriesKept, Carried(t, row, sends)
  PROVE  Carried(t, row', sends')
<1> USE DistributionAssumption
<1>1. ASSUME NEW a \in Assets, NEW r \in Recipients, Covered(row, a, r)
      PROVE  Covered(row', a, r)
  BY <1>1 DEF Covered, RowsKept
<1>2. BatchComplete(t, row')
  BY <1>1, DispatchParts DEF Carried, BatchComplete
<1>3. AnswerComplete(t, row')
  BY <1>1, DispatchParts DEF Carried, AnswerComplete
<1>4. AnswerTrue(t, sends')
  BY DispatchParts DEF Carried, AnswerTrue, DeliveriesKept
<1> QED
  BY <1>2, <1>3, <1>4 DEF Carried

\* A step that writes no row, publishes nothing and neither loads nor sends keeps
\* the invariant: claims, failures, crashes, overruns, the clock and the requests.
LEMMA PlainStep ==
  ASSUME DInv, Types', row' = row, DeliveriesKept, recent' \subseteq recent,
         \A a \in Assets : status'[a] = "published" => status[a] = "published",
         \A w \in Workers : tx'[w] = tx[w] \/ tx'[w].stage \in {"idle", "claimed"}
  PROVE  DInv'
<1>1. RowsTrue'
  BY DEF DInv, RowsTrue, DeliveriesKept
<1>2. RecentTrue'
  BY DEF DInv, RecentTrue
<1>3. RowsKept
  BY DEF RowsKept
<1>4. ASSUME NEW w \in Workers PROVE Carried(tx'[w], row', sends')
  <2>1. CASE tx'[w] = tx[w]
    <3>1. tx[w] \in Transactions /\ Carried(tx[w], row, sends)
      BY DEF DInv, Types
    <3>2. Carried(tx[w], row', sends')
      BY <1>3, <3>1, CarriedKept
    <3> QED
      BY <2>1, <3>2
  <2>2. CASE tx'[w].stage \in {"idle", "claimed"}
    BY <2>2 DEF Carried, BatchComplete, AnswerComplete, AnswerTrue
  <2> QED
    BY <2>1, <2>2
<1>5. PublishedAccountsForAll'
  BY DEF DInv, PublishedAccountsForAll
<1> QED
  BY <1>1, <1>2, <1>4, <1>5 DEF DInv

\* What Load decides covers the audience (Candidates, _existing_attempts,
\* _recent_sent_recipients, _capped_recipients).
LEMMA LoadStep ==
  ASSUME DInv, Types', NEW w \in Workers, Load(w)
  PROVE  DInv'
<1> USE DistributionAssumption
<1> DEFINE a == tx[w].asset
           skip == IF a \in Social THEN {} ELSE Capped
           new == [stage |-> "loaded", asset |-> a, campaign |-> campaign,
                   batch |-> Candidates(a) \ skip, capped |-> Candidates(a) \cap skip]
<1>1. tx' = [tx EXCEPT ![w] = new]
  BY DEF Load
<1>2. UNCHANGED <<row, sends, recent, status>>
  BY DEF Load
<1>3. a \in Assets
  BY DEF Load, DInv, Types, Transactions, Idle
<1>4. ASSUME NEW r \in Audience[a], r \notin Candidates(a) PROVE Covered(row, a, r)
  <2>1. r \in Recipients
    BY <1>3
  <2>2. CASE r \in AlreadySent(a)
    BY <1>3, <2>2 DEF AlreadySent, Covered
  <2>3. CASE r \in RecentlySent
    BY <2>1, <2>3 DEF RecentlySent, Covered, DInv, RecentTrue
  <2> QED
    BY <1>4, <2>2, <2>3 DEF Candidates
<1>5. Carried(new, row, sends)
  <2>1. \A r \in Audience[a] : r \in new.batch \/ r \in new.capped \/ Covered(row, a, r)
    BY <1>4
  <2> QED
    BY <2>1 DEF Carried, BatchComplete, AnswerComplete, AnswerTrue
<1>6. tx'[w] = new /\ \A v \in Workers : v # w => tx'[v] = tx[v]
  BY <1>1 DEF DInv, Types
<1> HIDE DEF new
<1>7. \A v \in Workers : Carried(tx'[v], row', sends')
  BY <1>2, <1>5, <1>6 DEF DInv
<1>8. RowsTrue' /\ RecentTrue' /\ PublishedAccountsForAll'
  BY <1>2 DEF DInv, RowsTrue, RecentTrue, PublishedAccountsForAll
<1> QED
  BY <1>7, <1>8 DEF DInv

\* An answer says `sent` only of what the provider accepted, and answers the whole
\* batch.
LEMMA SendStep ==
  ASSUME DInv, Types', NEW w \in Workers, Send(w)
  PROVE  DInv'
<1> DEFINE t == tx[w]
<1>1. t.stage = "loaded" /\ UNCHANGED <<row, recent, status>>
  BY DEF Send
<1>2. Types /\ t \in Transactions
  BY DEF DInv, Types
<1>3. t.asset \in Assets /\ t.batch \subseteq Recipients
  BY <1>1, <1>2, DispatchParts
<1>4. PICK refused \in SUBSET t.batch, acknowledged \in BOOLEAN :
        /\ Deliver(t.asset, t.batch \ refused)
        /\ tx' = [tx EXCEPT ![w] =
             [stage |-> "sent", asset |-> t.asset, campaign |-> t.campaign,
              capped |-> t.capped,
              answer |-> [r \in t.batch |-> IF r \in refused THEN "rejected"
                                            ELSE IF acknowledged THEN "sent"
                                            ELSE "failed"]]]
  BY DEF Send
<1> DEFINE new == [stage |-> "sent", asset |-> t.asset, campaign |-> t.campaign,
                   capped |-> t.capped,
                   answer |-> [r \in t.batch |-> IF r \in refused THEN "rejected"
                                                 ELSE IF acknowledged THEN "sent"
                                                 ELSE "failed"]]
<1>5. /\ \A b \in Assets, r \in Recipients : sends'[b][r] >= sends[b][r]
      /\ \A r \in Recipients : r \in t.batch \ refused => sends'[t.asset][r] > 0
      /\ sends' \in [Assets -> [Recipients -> Nat]]
  BY <1>2, <1>3, <1>4, DeliverGrows
<1>6. DeliveriesKept
  <2>1. sends \in [Assets -> [Recipients -> Nat]]
    BY <1>2 DEF Types, TypeOK
  <2>2. \A b \in Assets, r \in Recipients : sends[b][r] \in Nat /\ sends'[b][r] \in Nat
    BY <1>5, <2>1
  <2> QED
    BY <1>5, <2>2, SMT DEF DeliveriesKept
<1>7. RowsKept
  BY <1>1 DEF RowsKept
<1>8. tx'[w] = new /\ \A v \in Workers : v # w => tx'[v] = tx[v]
  BY <1>2, <1>4 DEF Types
<1>9. Carried(new, row', sends')
  <2>1. \A r \in Audience[t.asset] : r \in t.batch \/ r \in t.capped \/ Covered(row, t.asset, r)
    BY <1>1 DEF DInv, Carried, BatchComplete
  <2>2. AnswerComplete(new, row')
    BY <1>1, <2>1 DEF AnswerComplete
  <2>3. \A r \in t.batch : new.answer[r] = "sent" => r \notin refused
    OBVIOUS
  <2>4. AnswerTrue(new, sends')
    BY <1>3, <1>5, <2>3 DEF AnswerTrue
  <2>5. BatchComplete(new, row')
    BY DEF BatchComplete
  <2> QED
    BY <2>2, <2>4, <2>5 DEF Carried
<1> HIDE DEF new
<1>10. ASSUME NEW v \in Workers, v # w PROVE Carried(tx'[v], row', sends')
  <2>1. tx[v] \in Transactions /\ Carried(tx[v], row, sends)
    BY DEF DInv, Types
  <2>2. Carried(tx[v], row', sends')
    BY <1>6, <1>7, <2>1, CarriedKept
  <2> QED
    BY <1>8, <1>10, <2>2
<1>11. RowsTrue'
  BY <1>1, <1>6 DEF DInv, RowsTrue, DeliveriesKept
<1>12. RecentTrue' /\ PublishedAccountsForAll'
  BY <1>1 DEF DInv, RecentTrue, PublishedAccountsForAll
<1> QED
  BY <1>8, <1>9, <1>10, <1>11, <1>12 DEF DInv

\* The rows a commit writes are true, and account for the audience of the asset it
\* publishes.
LEMMA CommitStep ==
  ASSUME DInv, Types', NEW w \in Workers, Commit(w)
  PROVE  DInv'
<1> USE DistributionAssumption
<1> DEFINE t == tx[w]
           a == t.asset
<1>1. t.stage = "sent" /\ sends' = sends /\ tx' = [tx EXCEPT ![w] = Idle]
  BY DEF Commit
<1>2. Types /\ t \in Transactions
  BY DEF DInv, Types
<1>3. /\ a \in Assets
      /\ \A r \in Recipients : row'[a][r] = Written(t, r)
      /\ \A b \in Assets : b # a => row'[b] = row[b]
      /\ \A b \in Assets, r \in Recipients : row[b][r] # "none" => row'[b][r] = row[b][r]
  BY <1>2, CommitRows
<1>4. \A r \in Recipients :
        /\ r \in DOMAIN t.answer \/ r \in t.capped => Written(t, r) # "none"
        /\ Written(t, r) = "sent" =>
             row[a][r] = "sent" \/ (r \in DOMAIN t.answer /\ t.answer[r] = "sent")
  BY <1>1, <1>2, WrittenRow
<1>5. Carried(t, row, sends)
  BY DEF DInv
<1>6. RowsKept /\ DeliveriesKept
  BY <1>1, <1>3 DEF RowsKept, DeliveriesKept
<1>7. RowsTrue'
  <2> SUFFICES ASSUME NEW b \in Assets, NEW r \in Recipients, row'[b][r] = "sent"
               PROVE  sends'[b][r] > 0
    BY DEF RowsTrue
  <2>1. CASE b # a
    BY <1>1, <1>3, <2>1 DEF DInv, RowsTrue
  <2>2. CASE b = a /\ row[a][r] = "sent"
    BY <1>1, <2>2 DEF DInv, RowsTrue
  <2>3. CASE b = a /\ r \in DOMAIN t.answer /\ t.answer[r] = "sent"
    BY <1>1, <1>5, <2>3 DEF Carried, AnswerTrue
  <2> QED
    BY <1>3, <1>4, <2>1, <2>2, <2>3
<1>8. RecentTrue'
  <2> SUFFICES ASSUME NEW b \in Assets, NEW r \in Recipients, <<b, r>> \in recent'
               PROVE  row'[b][r] = "sent"
    BY DEF RecentTrue
  <2>1. CASE <<b, r>> \in recent
    BY <1>3, <2>1 DEF DInv, RecentTrue
  <2>2. CASE <<b, r>> \notin recent
    <3>1. PICK x \in Recipients : Written(t, x) = "sent" /\ <<b, r>> = <<a, x>>
      BY <2>2 DEF Commit
    <3> QED
      BY <1>3, <3>1
  <2> QED
    BY <2>1, <2>2
<1>9. ASSUME NEW v \in Workers PROVE Carried(tx'[v], row', sends')
  <2>1. CASE v = w
    <3>1. tx'[v].stage = "idle"
      BY <1>1, <1>2, <2>1 DEF Types, Idle
    <3> QED
      BY <3>1 DEF Carried, BatchComplete, AnswerComplete, AnswerTrue
  <2>2. CASE v # w
    <3>1. tx[v] \in Transactions /\ Carried(tx[v], row, sends) /\ tx'[v] = tx[v]
      BY <1>1, <2>2 DEF DInv, Types
    <3>2. Carried(tx[v], row', sends')
      BY <1>6, <3>1, CarriedKept
    <3> QED
      BY <3>1, <3>2
  <2> QED
    BY <2>1, <2>2
<1>10. PublishedAccountsForAll'
  <2> SUFFICES ASSUME NEW b \in Assets, status'[b] = "published", NEW r \in Audience[b]
               PROVE  Covered(row', b, r)
    BY DEF PublishedAccountsForAll, Covered
  <2>1. r \in Recipients
    OBVIOUS
  <2>2. Covered(row, b, r) => Covered(row', b, r)
    BY <1>3, <2>1 DEF Covered
  <2>3. CASE b = a
    <3>1. r \in DOMAIN t.answer \/ r \in t.capped \/ Covered(row, a, r)
      BY <1>1, <1>5, <2>3 DEF Carried, AnswerComplete
    <3>2. CASE r \in DOMAIN t.answer \/ r \in t.capped
      BY <1>3, <1>4, <2>1, <2>3, <3>2 DEF Covered
    <3> QED
      BY <2>2, <2>3, <3>1, <3>2
  <2>4. CASE b # a
    <3>1. status[b] = "published"
      BY <2>4 DEF Commit, DInv, Types, TypeOK
    <3>2. Covered(row, b, r)
      BY <3>1 DEF DInv, PublishedAccountsForAll, Covered
    <3> QED
      BY <2>2, <3>2
  <2> QED
    BY <2>3, <2>4
<1> QED
  BY <1>7, <1>8, <1>9, <1>10 DEF DInv
-----------------------------------------------------------------------------
LEMMA DInvInit == Init => DInv
<1> SUFFICES ASSUME Init PROVE DInv
  OBVIOUS
<1>1. RowsTrue /\ RecentTrue /\ PublishedAccountsForAll
  BY DEF Init, RowsTrue, RecentTrue, PublishedAccountsForAll
<1>2. \A w \in Workers : Carried(tx[w], row, sends)
  BY DEF Init, Idle, Carried, BatchComplete, AnswerComplete, AnswerTrue
<1> QED
  BY <1>1, <1>2, TypesInit DEF DInv

\* No step deletes or changes an attempt row: only Commit writes them.
LEMMA RowsStay == Types /\ [Next]_vars => RowsKept
<1> SUFFICES ASSUME Types, [Next]_vars PROVE RowsKept
  OBVIOUS
<1>1. ASSUME NEW w \in Workers, Commit(w) PROVE RowsKept
  BY <1>1, CommitRows DEF RowsKept
<1>2. ASSUME NEW w \in Workers, Dispatch(w) \/ Crash(w) \/ Overrun(w), ~Commit(w)
      PROVE  row' = row
  BY <1>2 DEF Dispatch, Claim, LoadRaises, LoadSkips, Load, Send, SendRaises, OAuthRevoked,
              CommitRaises, Crash, Overrun
<1>3. ASSUME NEW u \in Users, Finish(u) \/ \E op \in Requests : Begin(u, op)
      PROVE  row' = row
  BY <1>3 DEF Finish, Enter, FinishResume, FinishPause, FinishMove, Begin
<1>4. ASSUME \/ \E a \in Assets : SlotArrives(a)
             \/ StartDateArrives \/ WindowPasses \/ UNCHANGED vars
      PROVE  row' = row
  BY <1>4 DEF SlotArrives, StartDateArrives, WindowPasses, vars
<1> QED
  BY <1>1, <1>2, <1>3, <1>4 DEF Next, RowsKept

LEMMA DInvStep == DInv /\ [Next]_vars => DInv'
<1> SUFFICES ASSUME DInv, [Next]_vars PROVE DInv'
  OBVIOUS
<1>1. Types /\ Types'
  BY TypesStep DEF DInv
<1>2. tx \in [Workers -> Transactions] /\ DOMAIN status = Assets
  BY <1>1 DEF Types, TypeOK
<1>3. sends' = sends => DeliveriesKept
  BY DEF DeliveriesKept
<1>4. ASSUME NEW w \in Workers, LoadRaises(w) \/ CommitRaises(w) PROVE DInv'
  <2>1. /\ tx' = [tx EXCEPT ![w] = Idle]
        /\ UNCHANGED <<row, sends, recent, status>>
    BY <1>4 DEF LoadRaises, CommitRaises, Raise
  <2>2. \A v \in Workers : tx'[v] = tx[v] \/ tx'[v].stage \in {"idle", "claimed"}
    BY <1>2, <2>1 DEF Idle
  <2> QED
    BY <1>1, <1>3, <2>1, <2>2, PlainStep
<1>5. ASSUME NEW w \in Workers, SendRaises(w) PROVE DInv'
  <2>1. /\ tx' = [tx EXCEPT ![w] = Idle]
        /\ UNCHANGED <<row, recent, status>>
        /\ tx[w].stage = "loaded"
    BY <1>5 DEF SendRaises, Raise
  <2>2. PICK D : Deliver(tx[w].asset, D)
    BY <1>5 DEF SendRaises
  <2>3. tx[w].asset \in Assets
    BY <1>2, <2>1, DispatchParts
  <2>4. /\ sends \in [Assets -> [Recipients -> Nat]]
        /\ sends' \in [Assets -> [Recipients -> Nat]]
        /\ \A b \in Assets, r \in Recipients : sends'[b][r] >= sends[b][r]
    BY <1>1, <2>2, <2>3, DeliverGrows DEF Types, TypeOK
  <2>5. \A b \in Assets, r \in Recipients : sends[b][r] \in Nat /\ sends'[b][r] \in Nat
    BY <2>4
  <2>6. DeliveriesKept
    BY <2>4, <2>5, SMT DEF DeliveriesKept
  <2>7. \A v \in Workers : tx'[v] = tx[v] \/ tx'[v].stage \in {"idle", "claimed"}
    BY <1>2, <2>1 DEF Idle
  <2> QED
    BY <1>1, <2>1, <2>6, <2>7, PlainStep
<1>6. ASSUME NEW w \in Workers, LoadSkips(w) \/ Crash(w) \/ Overrun(w) PROVE DInv'
  <2>1. /\ tx' = tx \/ tx' = [tx EXCEPT ![w] = Idle]
        /\ UNCHANGED <<row, sends, recent, status>>
    BY <1>6 DEF LoadSkips, Crash, Overrun
  <2>2. \A v \in Workers : tx'[v] = tx[v] \/ tx'[v].stage \in {"idle", "claimed"}
    BY <1>2, <2>1, SMT DEF Idle
  <2> QED
    BY <1>1, <1>3, <2>1, <2>2, PlainStep
<1>7. ASSUME NEW w \in Workers, NEW a \in Assets, Claim(w, a) PROVE DInv'
  <2>1. /\ tx' = [tx EXCEPT ![w] = [stage |-> "claimed", asset |-> a]]
        /\ UNCHANGED <<row, sends, recent, status>>
    BY <1>7 DEF Claim
  <2>2. \A v \in Workers : tx'[v] = tx[v] \/ tx'[v].stage \in {"idle", "claimed"}
    BY <1>2, <2>1
  <2> QED
    BY <1>1, <1>3, <2>1, <2>2, PlainStep
<1>8. ASSUME NEW w \in Workers, OAuthRevoked(w) PROVE DInv'
  <2>1. /\ tx' = [tx EXCEPT ![w] = Idle]
        /\ status' = [status EXCEPT ![tx[w].asset] = "failed"]
        /\ UNCHANGED <<row, sends, recent>>
    BY <1>8 DEF OAuthRevoked
  <2>2. \A v \in Workers : tx'[v] = tx[v] \/ tx'[v].stage \in {"idle", "claimed"}
    BY <1>2, <2>1 DEF Idle
  <2>3. \A b \in Assets : status'[b] = "published" => status[b] = "published"
    BY <1>2, <2>1
  <2> QED
    BY <1>1, <1>3, <2>1, <2>2, <2>3, PlainStep
<1>9. ASSUME NEW u \in Users, Finish(u) \/ \E op \in Requests : Begin(u, op) PROVE DInv'
  <2>1. UNCHANGED <<tx, row, sends, recent>>
    BY <1>9 DEF Finish, Enter, FinishResume, FinishPause, FinishMove, Begin
  <2>2. \A b \in Assets : status'[b] = "published" => status[b] = "published"
    BY <1>9 DEF Finish, Enter, FinishResume, FinishPause, FinishMove, Begin
  <2> QED
    BY <1>1, <1>3, <2>1, <2>2, PlainStep
<1>10. ASSUME \/ \E a \in Assets : SlotArrives(a)
              \/ StartDateArrives \/ WindowPasses \/ UNCHANGED vars
       PROVE  DInv'
  <2>1. UNCHANGED <<tx, row, sends, status>> /\ recent' \subseteq recent
    BY <1>10 DEF SlotArrives, StartDateArrives, WindowPasses, vars
  <2> QED
    BY <1>1, <1>3, <2>1, PlainStep
<1> QED
  BY <1>1, <1>4, <1>5, <1>6, <1>7, <1>8, <1>9, <1>10, LoadStep, SendStep, CommitStep
     DEF Next, Dispatch

\* The invariant holds in every reachable state.
THEOREM DispatchInductive == Spec => []DInv
BY DInvInit, DInvStep, PTL DEF Spec

\* However dispatches overlap, crash, lose answers and run again, a published
\* asset has left no recipient out unnoticed (dispatch_email_asset).
THEOREM PublishedMeansAccounted == Spec => []PublishedAccountsForAll
<1>1. DInv => PublishedAccountsForAll
  BY DEF DInv
<1> QED
  BY <1>1, DispatchInductive, PTL

\* However dispatches overlap, crash, lose answers and run again, a `sent` row is
\* true and stays (_upsert_dispatch_attempt).
THEOREM SentRowsAreTrue == Spec => SentIsTrueAndKept
<1> DEFINE A == \A a \in Assets, r \in Recipients :
                  /\ row[a][r] = "sent" => row'[a][r] = "sent"
                  /\ row'[a][r] = "sent" => sends'[a][r] > 0
<1>1. DInv /\ DInv' /\ [Next]_vars => A
  BY RowsStay DEF DInv, RowsKept, RowsTrue
<1>2. DInv /\ DInv' /\ [Next]_vars => [A]_vars
  BY <1>1
<1> QED
  BY <1>2, DispatchInductive, PTL DEF Spec, SentIsTrueAndKept
-----------------------------------------------------------------------------
\* Worker w has a dispatch task of asset a.
Holds(w, a) == tx[w] # Idle /\ tx[w].asset = a
-----------------------------------------------------------------------------
\* Of a campaign that started live, nothing is decided from ready_to_launch:
\* neither by a request nor by a dispatch under way.
NeverReady ==
  /\ campaign # "ready_to_launch"
  /\ \A u \in Users : req[u].stage = "checked" =>
       req[u].op \notin {"start_live", "launchByAssistant"}
  /\ \A w \in Workers : tx[w].stage \in {"loaded", "sent"} =>
       tx[w].campaign # "ready_to_launch"

\* A resume under way has selected every asset that is still scheduled.
ResumeSelects ==
  \A u \in Users : req[u].stage = "entered" =>
    \A a \in Assets : status[a] = "scheduled" => a \in req[u].fails \cup req[u].requeues

\* Somebody will dispatch asset a, or its task failed for good.
Handled(a) == queued[a] > 0 \/ a \in gaveUp \/ \E w \in Workers : Holds(w, a)

\* The inductive invariant of NothingForgotten and PauseHolds.
LiveInv == Types /\ NeverReady /\ ResumeSelects /\ NothingForgotten
-----------------------------------------------------------------------------
\* The stages of a task in a worker's hands.
LEMMA HeldTask ==
  ASSUME Types, NEW w \in Workers
  PROVE  /\ tx[w] # Idle => tx[w].asset \in Assets
         /\ tx[w].stage \in {"claimed", "loaded", "sent"} => tx[w] # Idle
BY SMT DEF Types, TypeOK, Idle

\* A raised handler gives the task back or counts it as given up.
LEMMA RaiseHands ==
  ASSUME Types, NEW w \in Workers, NEW a \in Assets, Holds(w, a), Raise(w, a)
  PROVE  /\ \A b \in Assets : Handled(b) => Handled(b)'
         /\ \A v \in Workers : v # w => tx'[v] = tx[v]
         /\ tx'[w] = Idle
         /\ req' = req
<1>1. /\ tx \in [Workers -> Transactions] /\ queued \in [Assets -> Nat]
  BY DEF Types, TypeOK
<1>2. /\ tx'[w] = Idle /\ req' = req
      /\ \A v \in Workers : v # w => tx'[v] = tx[v]
  BY <1>1 DEF Raise
<1>3. /\ \A b \in Assets : queued'[b] >= queued[b]
      /\ gaveUp \subseteq gaveUp'
      /\ queued'[a] > 0 \/ a \in gaveUp'
  BY <1>1, SMT DEF Raise
<1>4. \A b \in Assets : queued[b] \in Nat /\ queued'[b] \in Nat
  BY <1>1, SMT DEF Raise
<1>5. ASSUME NEW b \in Assets, Handled(b) PROVE Handled(b)'
  <2>1. CASE b = a
    BY <1>3, <2>1 DEF Handled
  <2>2. CASE queued[b] > 0 \/ b \in gaveUp
    BY <1>3, <1>4, <2>2, SMT DEF Handled
  <2>3. CASE b # a /\ \E v \in Workers : Holds(v, b)
    BY <1>2, <2>3 DEF Handled, Holds
  <2> QED
    BY <1>5, <2>1, <2>2, <2>3 DEF Handled
<1> QED
  BY <1>2, <1>5

\* NothingForgotten in terms of Handled.
LEMMA ForgottenHandled ==
  NothingForgotten <=>
    (campaign \in {"ready_to_launch", "live"} =>
       \A a \in Assets : status[a] = "scheduled" => Handled(a))
BY DEF NothingForgotten, Handled, Holds

\* A step of a worker that leaves the campaign and schedules nothing keeps the
\* invariant when it drops no task.
LEMMA LiveWorker ==
  ASSUME LiveInv, Types', req' = req,
         \A a \in Assets : status'[a] = "scheduled" => status[a] = "scheduled",
         \A v \in Workers : tx'[v] = tx[v] \/ tx'[v].stage \notin {"loaded", "sent"}
                            \/ tx'[v].campaign # "ready_to_launch",
         \/ campaign' = "paused"
         \/ /\ campaign' = campaign
            /\ campaign = "paused" \/ \A a \in Assets : 
                 Handled(a) /\ status'[a] = "scheduled" => Handled(a)'
  PROVE  LiveInv'
<1>1. NeverReady'
  BY DEF LiveInv, NeverReady
<1>2. ResumeSelects'
  BY DEF LiveInv, ResumeSelects
<1>3. campaign' \in {"ready_to_launch", "live"} =>
        \A a \in Assets : status'[a] = "scheduled" => Handled(a)'
  BY ForgottenHandled DEF LiveInv
<1>4. NothingForgotten'
  BY <1>3 DEF NothingForgotten, Handled, Holds
<1> QED
  BY <1>1, <1>2, <1>4 DEF LiveInv

LEMMA LiveDispatch ==
  ASSUME LiveInv, Types', NEW w \in Workers, Dispatch(w) \/ Crash(w) \/ Overrun(w)
  PROVE  LiveInv'
<1>1. Types /\ tx \in [Workers -> Transactions] /\ queued \in [Assets -> Nat]
         /\ DOMAIN status = Assets
  BY DEF LiveInv, Types, TypeOK
<1>2. \A b \in Assets : queued[b] \in Nat
  BY <1>1
<1>3. ASSUME NEW a \in Assets, Claim(w, a) PROVE LiveInv'
  <2>1. /\ UNCHANGED <<campaign, status, req, gaveUp>>
        /\ \A v \in Workers : v # w => tx'[v] = tx[v]
        /\ tx[w] = Idle /\ tx'[w] = [stage |-> "claimed", asset |-> a]
        /\ \A b \in Assets : b # a => queued'[b] = queued[b]
    BY <1>1, <1>3 DEF Claim, counters
  <2>2. Holds(w, a)'
    BY <2>1, SMT DEF Holds, Idle
  <2>3. \A b \in Assets : Handled(b) => Handled(b)'
    BY <2>1, <2>2 DEF Handled, Holds
  <2>4. tx'[w].stage = "claimed"
    BY <2>1, SMT
  <2> QED
    BY <2>1, <2>3, <2>4, LiveWorker
<1>4. ASSUME LoadRaises(w) \/ CommitRaises(w) \/ SendRaises(w) PROVE LiveInv'
  <2>1. /\ tx[w].stage \in {"claimed", "loaded", "sent"} /\ Raise(w, tx[w].asset)
        /\ UNCHANGED <<campaign, status>>
    BY <1>4 DEF LoadRaises, CommitRaises, SendRaises
  <2>2. tx[w].asset \in Assets /\ Holds(w, tx[w].asset)
    BY <1>1, <2>1, HeldTask DEF Holds
  <2>3. /\ \A b \in Assets : Handled(b) => Handled(b)'
        /\ \A v \in Workers : v # w => tx'[v] = tx[v]
        /\ tx'[w] = Idle
        /\ req' = req
    BY <1>1, <2>1, <2>2, RaiseHands
  <2>4. tx'[w].stage = "idle"
    BY <2>3, SMT DEF Idle
  <2> QED
    BY <2>1, <2>3, <2>4, LiveWorker
<1>5. ASSUME LoadSkips(w) PROVE LiveInv'
  <2>1. /\ UNCHANGED <<campaign, status, req>> /\ campaign = "paused"
        /\ \A v \in Workers : v # w => tx'[v] = tx[v]
        /\ tx'[w] = Idle
    BY <1>1, <1>5 DEF LoadSkips
  <2>2. tx'[w].stage = "idle"
    BY <2>1, SMT DEF Idle
  <2> QED
    BY <2>1, <2>2, LiveWorker
<1>6. ASSUME Load(w) \/ Send(w) PROVE LiveInv'
  <2>1. /\ UNCHANGED <<campaign, status, req, gaveUp, queued>>
        /\ \A v \in Workers : v # w => tx'[v] = tx[v]
        /\ tx[w].stage \in {"claimed", "loaded"}
        /\ tx'[w].stage \in {"loaded", "sent"} /\ tx'[w].asset = tx[w].asset
        /\ tx'[w].campaign = campaign \/ (tx[w].stage = "loaded" /\ tx'[w].campaign = tx[w].campaign)
    <3>1. CASE Load(w)
      BY <1>1, <3>1 DEF Load, counters
    <3>2. CASE Send(w)
      BY <1>1, <3>2, SMT DEF Send, counters
    <3> QED
      BY <1>6, <3>1, <3>2
  <2>2. tx'[w].campaign # "ready_to_launch"
    BY <2>1 DEF LiveInv, NeverReady
  <2>3. tx'[w] # Idle
    BY <2>1, SMT DEF Idle
  <2>4. \A b \in Assets : Handled(b) => Handled(b)'
    BY <2>1, <2>3 DEF Handled, Holds
  <2> QED
    BY <2>1, <2>2, <2>4, LiveWorker
<1>7. ASSUME OAuthRevoked(w) PROVE LiveInv'
  <2>1. /\ campaign' = "paused" /\ req' = req
        /\ \A v \in Workers : v # w => tx'[v] = tx[v]
        /\ tx'[w] = Idle
        /\ \A b \in Assets : status'[b] = "scheduled" => status[b] = "scheduled"
    BY <1>1, <1>7 DEF OAuthRevoked
  <2>2. tx'[w].stage = "idle"
    BY <2>1, SMT DEF Idle
  <2> QED
    BY <2>1, <2>2, LiveWorker
<1>8. ASSUME Commit(w) PROVE LiveInv'
  <2> DEFINE a == tx[w].asset
  <2>1. /\ tx[w].stage = "sent" /\ req' = req /\ gaveUp' = gaveUp
        /\ status' = [status EXCEPT ![a] = "published"]
        /\ campaign' = IF GoesLive(tx[w], status') THEN "live" ELSE campaign
        /\ tx' = [tx EXCEPT ![w] = Idle]
        /\ queued' = queued \/ queued' = [queued EXCEPT ![a] = @ + 1]
    BY <1>8 DEF Commit
  <2>2. a \in Assets
    BY <1>1, <2>1, HeldTask
  <2>3. campaign' = campaign
    BY <2>1 DEF LiveInv, NeverReady, GoesLive
  <2>4. /\ \A b \in Assets : status'[b] = "scheduled" => status[b] = "scheduled" /\ b # a
        /\ \A v \in Workers : v # w => tx'[v] = tx[v]
        /\ tx'[w] = Idle
        /\ \A b \in Assets : b # a => queued'[b] = queued[b]
    BY <1>1, <2>1, <2>2
  <2>5. tx'[w].stage = "idle"
    BY <2>4, SMT DEF Idle
  <2>6. ASSUME NEW b \in Assets, Handled(b), status'[b] = "scheduled" PROVE Handled(b)'
    BY <2>1, <2>4, <2>6 DEF Handled, Holds
  <2> HIDE DEF a
  <2> QED
    BY <2>1, <2>3, <2>4, <2>5, <2>6, LiveWorker
<1>9. ASSUME Crash(w) \/ Overrun(w) PROVE LiveInv'
  <2> DEFINE a == tx[w].asset
  <2>1. /\ tx[w] # Idle /\ UNCHANGED <<campaign, status, req, gaveUp>>
        /\ tx' = tx \/ tx' = [tx EXCEPT ![w] = Idle]
        /\ queued' = [queued EXCEPT ![a] = @ + 1]
    BY <1>9 DEF Crash, Overrun
  <2>2. a \in Assets
    BY <1>1, <2>1, HeldTask
  <2>3. /\ \A v \in Workers : v # w => tx'[v] = tx[v]
        /\ tx'[w] = tx[w] \/ tx'[w] = Idle
        /\ \A b \in Assets : b # a => queued'[b] = queued[b]
        /\ queued'[a] > 0
    BY <1>1, <2>1, <2>2, SMT
  <2>4. tx'[w] = tx[w] \/ tx'[w].stage = "idle"
    BY <2>3, SMT DEF Idle
  <2>5. ASSUME NEW b \in Assets, Handled(b) PROVE Handled(b)'
    BY <2>1, <2>3, <2>5 DEF Handled, Holds
  <2> HIDE DEF a
  <2> QED
    BY <2>1, <2>3, <2>4, <2>5, LiveWorker
<1> QED
  BY <1>3, <1>4, <1>5, <1>6, <1>7, <1>8, <1>9 DEF Dispatch

LEMMA LiveRequest ==
  ASSUME LiveInv, Types', NEW u \in Users, Finish(u) \/ \E op \in Requests : Begin(u, op)
  PROVE  LiveInv'
<1>1. /\ req \in [Users -> OpenRequests] /\ queued \in [Assets -> Nat]
  BY DEF LiveInv, Types, TypeOK
<1>2. UNCHANGED <<tx, gaveUp>>
  BY DEF Finish, Enter, FinishResume, FinishPause, FinishMove, Begin, counters
<1>3. ASSUME NEW op \in Requests, Begin(u, op) PROVE LiveInv'
  <2>1. /\ UNCHANGED <<campaign, status, queued>> /\ Allowed(op)
        /\ \A x \in Users : x # u => req'[x] = req[x]
        /\ req'[u] = [stage |-> "checked", op |-> op]
    BY <1>1, <1>3 DEF Begin
  <2>2. req'[u].stage = "checked" /\ req'[u].op = op
    BY <2>1, SMT
  <2>3. op \notin {"start_live", "launchByAssistant"}
    BY <2>1 DEF Allowed, LiveInv, NeverReady
  <2>4. NeverReady' /\ ResumeSelects'
    BY <1>2, <2>1, <2>2, <2>3 DEF LiveInv, NeverReady, ResumeSelects
  <2>5. NothingForgotten'
    BY <1>2, <2>1 DEF LiveInv, NothingForgotten
  <2> QED
    BY <2>4, <2>5 DEF LiveInv
<1>4. ASSUME Enter(u) PROVE LiveInv'
  <2>1. /\ UNCHANGED <<campaign, status, queued>>
        /\ \A x \in Users : x # u => req'[x] = req[x]
        /\ req'[u].stage = "entered"
        /\ \A a \in Assets : status[a] = "scheduled" =>
             a \in req'[u].fails \cup req'[u].requeues
    BY <1>1, <1>4 DEF Enter
  <2>2. NeverReady' /\ ResumeSelects'
    BY <1>2, <2>1 DEF LiveInv, NeverReady, ResumeSelects
  <2>3. NothingForgotten'
    BY <1>2, <2>1 DEF LiveInv, NothingForgotten
  <2> QED
    BY <2>2, <2>3 DEF LiveInv
<1>5. ASSUME FinishResume(u) PROVE LiveInv'
  <2>1. /\ req[u].stage = "entered" /\ campaign' = "live"
        /\ \A x \in Users : x # u => req'[x] = req[x]
        /\ req'[u] = Idle
        /\ \A a \in Assets : status'[a] = "scheduled" =>
             status[a] = "scheduled" /\ a \notin req[u].fails
        /\ \A a \in Assets : a \in req[u].requeues => queued'[a] = queued[a] + 1
    BY <1>1, <1>5 DEF FinishResume
  <2>2. req'[u].stage = "idle"
    BY <2>1, SMT DEF Idle
  <2>3. NeverReady' /\ ResumeSelects'
    BY <1>2, <2>1, <2>2 DEF LiveInv, NeverReady, ResumeSelects
  <2>4. ASSUME NEW a \in Assets, status'[a] = "scheduled" PROVE queued'[a] > 0
    <3>1. a \in req[u].requeues
      BY <2>1, <2>4 DEF LiveInv, ResumeSelects
    <3>2. queued[a] \in Nat /\ queued'[a] = queued[a] + 1
      BY <1>1, <2>1, <3>1
    <3> QED
      BY <3>2, SMT
  <2>5. NothingForgotten'
    BY <2>4 DEF NothingForgotten
  <2> QED
    BY <2>3, <2>5 DEF LiveInv
<1>6. ASSUME FinishPause(u) \/ FinishMove(u) PROVE LiveInv'
  <2>1. /\ status' = status /\ campaign' \in {"paused", "completed"}
        /\ \A x \in Users : x # u => req'[x] = req[x]
        /\ req'[u] = Idle
    BY <1>1, <1>6 DEF FinishPause, FinishMove, Ready, LiveInv, NeverReady
  <2>2. req'[u].stage = "idle"
    BY <2>1, SMT DEF Idle
  <2>3. NeverReady' /\ ResumeSelects'
    BY <1>2, <2>1, <2>2 DEF LiveInv, NeverReady, ResumeSelects
  <2>4. NothingForgotten'
    BY <2>1 DEF NothingForgotten
  <2> QED
    BY <2>3, <2>4 DEF LiveInv
<1> QED
  BY <1>3, <1>4, <1>5, <1>6 DEF Finish

LEMMA LiveInit ==
  ASSUME StartCampaign = "live", Init
  PROVE  LiveInv
<1>1. NeverReady /\ ResumeSelects
  BY DEF Init, Idle, NeverReady, ResumeSelects
<1>2. NothingForgotten
  BY SMT DEF Init, NothingForgotten
<1> QED
  BY <1>1, <1>2, TypesInit DEF LiveInv

LEMMA LiveStep == LiveInv /\ [Next]_vars => LiveInv'
<1> SUFFICES ASSUME LiveInv, [Next]_vars PROVE LiveInv'
  OBVIOUS
<1>1. Types'
  BY TypesStep DEF LiveInv
<1>2. ASSUME \/ \E a \in Assets : SlotArrives(a)
             \/ StartDateArrives \/ WindowPasses \/ UNCHANGED vars
      PROVE  LiveInv'
  <2>1. UNCHANGED <<campaign, status, queued, tx, req, gaveUp>>
    BY <1>2 DEF SlotArrives, StartDateArrives, WindowPasses, vars, counters
  <2> QED
    BY <1>1, <2>1 DEF LiveInv, NeverReady, ResumeSelects, NothingForgotten
<1> QED
  BY <1>1, <1>2, LiveDispatch, LiveRequest DEF Next

\* No asset of a campaign that started live is left scheduled with nobody to dispatch
\* it, however many workers and requests overlap, whatever crashes and raises, and
\* although a pause cancels the queue (resume_distribution_for_campaign puts back
\* what is still to come).
THEOREM LiveCampaignForgetsNothing ==
  ASSUME StartCampaign = "live"
  PROVE  Spec => []NothingForgotten
<1>1. Init => LiveInv
  BY LiveInit
<1>2. LiveInv => NothingForgotten
  BY DEF LiveInv
<1> QED
  BY <1>1, <1>2, LiveStep, PTL DEF Spec

\* A paused campaign that started live leaves `paused` only by a resume or by being
\* completed: no dispatch under way and no late request brings it back
\* (pause_campaign, _maybe_go_live).
THEOREM LiveCampaignPauseHolds ==
  ASSUME StartCampaign = "live"
  PROVE  Spec => PauseHolds
<1> DEFINE A == campaign = "paused" =>
                  campaign' \in {"paused", "completed"} \/ resumes' > resumes
<1>1. Init => LiveInv
  BY LiveInit
<1>2. ASSUME LiveInv, [Next]_vars PROVE A
  <2> SUFFICES ASSUME campaign = "paused"
               PROVE  campaign' \in {"paused", "completed"} \/ resumes' > resumes
    OBVIOUS
  <2>1. ASSUME NEW w \in Workers, Commit(w) PROVE campaign' = campaign
    BY <1>2, <2>1 DEF Commit, GoesLive, LiveInv, NeverReady
  <2>2. ASSUME NEW w \in Workers, Dispatch(w) \/ Crash(w) \/ Overrun(w), ~Commit(w)
        PROVE  campaign' \in {campaign, "paused"}
    BY <2>2 DEF Dispatch, Claim, LoadRaises, LoadSkips, Load, Send, SendRaises,
                       OAuthRevoked, CommitRaises, Crash, Overrun
  <2>3. ASSUME NEW u \in Users, FinishResume(u) PROVE resumes' > resumes
    BY <1>2, <2>3, SMT DEF FinishResume, LiveInv, Types, TypeOK
  <2>4. ASSUME NEW u \in Users, FinishPause(u) \/ FinishMove(u)
        PROVE  campaign' \in {"paused", "completed"}
    BY <1>2, <2>4 DEF FinishPause, FinishMove, Ready, LiveInv, NeverReady
  <2>5. ASSUME NEW u \in Users, Enter(u) \/ \E op \in Requests : Begin(u, op)
        PROVE  campaign' = campaign
    BY <2>5 DEF Enter, Begin
  <2>6. ASSUME \/ \E a \in Assets : SlotArrives(a)
               \/ StartDateArrives \/ WindowPasses \/ UNCHANGED vars
        PROVE  campaign' = campaign
    BY <2>6 DEF SlotArrives, StartDateArrives, WindowPasses, vars
  <2> QED
    BY <1>2, <2>1, <2>2, <2>3, <2>4, <2>5, <2>6 DEF Next, Finish
<1>3. LiveInv /\ [Next]_vars => [A]_vars
  BY <1>2
<1> QED
  BY <1>1, <1>3, LiveStep, PTL DEF Spec, PauseHolds

-----------------------------------------------------------------------------
(***************************************************************************)
(* The traffic:                                                            *)
(*                                                                         *)
(*   - nobody gets a message twice, when the provider and the queue are    *)
(*     reliable and requests come one at a time;                           *)
(*   - nor when, instead of the requests, the dispatches come one at a     *)
(*     time, from a single worker;                                         *)
(*   - the frequency cap holds, when a single worker dispatches.           *)
(*                                                                         *)
(* The assumptions are needed: the runs show what happens without them.    *)
(***************************************************************************)

\* At most one dispatch task of an asset, in the queue or in a worker's hands, and
\* only of an asset whose slot is past in the latter.
OneTask ==
  /\ \A a \in Assets : queued[a] <= 1
  /\ \A w \in Workers, a \in Assets : Holds(w, a) => queued[a] = 0 /\ a \in elapsed
  /\ \A w, x \in Workers, a \in Assets : Holds(w, a) /\ Holds(x, a) => w = x

\* The user is resuming.
Resuming(u) == req[u].stage = "entered" \/ (req[u].stage = "checked" /\ req[u].op = "resume")

\* While the campaign is paused or being resumed, no task waits for a later slot, and
\* the assets a resume puts back in the queue have no task.
NoneWaiting ==
  /\ campaign = "paused" \/ (\E u \in Users : Resuming(u)) =>
       \A a \in Assets \ elapsed : queued[a] = 0
  /\ \A u \in Users : req[u].stage = "entered" =>
       \A a \in req[u].requeues : queued[a] = 0 /\ \A w \in Workers : ~Holds(w, a)

\* Nothing of an asset has been delivered before its dispatch sends, and once it has
\* the asset is no longer scheduled when the dispatch is over.
NotYetSent ==
  /\ \A a \in Assets : status[a] = "scheduled" =>
       \/ \A r \in Recipients : sends[a][r] = 0
       \/ \E w \in Workers : tx[w].stage = "sent" /\ tx[w].asset = a
  /\ \A w \in Workers : tx[w].stage = "loaded" =>
       \A r \in Recipients : sends[tx[w].asset][r] = 0

\* The inductive invariant of NoDoubleSend.
FlightInv == Types /\ OneTask /\ NoneWaiting /\ NotYetSent /\ NoDoubleSend
-----------------------------------------------------------------------------
\* The assets of which r has a `sent` row.
SentRows(r) == {b \in Assets : row[b][r] = "sent"}

\* An asset that is scheduled or being sent has no attempt rows.
NoRowsYet ==
  /\ \A a \in Assets : status[a] = "scheduled" => \A r \in Recipients : row[a][r] = "none"
  /\ \A w \in Workers : tx[w].stage \in {"loaded", "sent"} =>
       \A r \in Recipients : row[tx[w].asset][r] = "none"

\* The dispatch of w has sent asset a to r and not committed.
Sending(w, a, r) ==
  /\ tx[w].stage = "sent" /\ tx[w].asset = a
  /\ r \in DOMAIN tx[w].answer /\ tx[w].answer[r] = "sent"

\* What was delivered is in the rows or in an answer.
DeliveredRecorded ==
  \A a \in Assets, r \in Recipients : sends[a][r] > 0 =>
    row[a][r] = "sent" \/ \E w \in Workers : Sending(w, a, r)

\* Whoever an email is about to be sent to, or was, had room under the cap.
RoomLeft ==
  \A w \in Workers, r \in Recipients :
    \/ tx[w].stage = "loaded" /\ tx[w].asset \notin Social /\ r \in tx[w].batch
    \/ tx[w].stage = "sent" /\ tx[w].asset \notin Social /\ r \in DOMAIN tx[w].answer
    => Cardinality(SentRows(r)) < Cap

\* What every dispatch finds recorded: the inductive invariant of NoDoubleSend for a
\* single worker.
RecordInv == Types /\ NoRowsYet /\ DeliveredRecorded /\ NoDoubleSend

\* The emails of which r has a `sent` row are within the cap.
CapOfRows == \A r \in Recipients : Cardinality(SentRows(r) \ Social) <= Cap

\* The inductive invariant of CapRespected.
CapInv == RecordInv /\ RoomLeft /\ CapOfRows
-----------------------------------------------------------------------------
\* Without faults, none of the steps that are faults happens.
LEMMA NoFaults ==
  ASSUME Types, MaxFaults = 0
  PROVE  ~(faults < MaxFaults)
BY SMT DEF Types, TypeOK

\* A delivery adds one for each recipient of it, and only to its asset.
LEMMA DeliverAdds ==
  ASSUME Types, NEW a \in Assets, NEW D, Deliver(a, D)
  PROVE  /\ \A b \in Assets : b # a => sends'[b] = sends[b]
         /\ \A r \in Recipients : sends'[a][r] = IF r \in D THEN sends[a][r] + 1 ELSE sends[a][r]
<1>1. sends \in [Assets -> [Recipients -> Nat]]
  BY DEF Types, TypeOK
<1> QED
  BY <1>1 DEF Deliver

\* A provider call that raises and is no fault delivered nothing.
LEMMA RaisedUndelivered ==
  ASSUME Types, MaxFaults = 0, NEW w \in Workers, SendRaises(w)
  PROVE  sends' = sends
<1>1. PICK D : (D # {} => faults < MaxFaults) /\ Deliver(tx[w].asset, D)
  BY DEF SendRaises
<1>2. D = {} /\ tx[w].asset \in Assets
  BY <1>1, NoFaults, HeldTask DEF SendRaises
<1>3. sends \in [Assets -> [Recipients -> Nat]] /\ sends' \in [Assets -> [Recipients -> Nat]]
  BY <1>1, <1>2, DeliverGrows DEF Types, TypeOK
<1>4. \A b \in Assets, r \in Recipients : sends'[b][r] = sends[b][r]
  BY <1>1, <1>2, DeliverAdds, SMT
<1>5. \A b \in Assets : sends'[b] = sends[b]
  BY <1>3, <1>4, SMT
<1> QED
  BY <1>3, <1>5, SMT

\* A worker lets go of its task, which may go back to the queue.
LEMMA FlightFreed ==
  ASSUME FlightInv, Types', NEW w \in Workers, tx[w] # Idle,
         NEW a \in Assets, a = tx[w].asset,
         tx'[w] = Idle, \A v \in Workers : v # w => tx'[v] = tx[v],
         UNCHANGED <<req, elapsed, sends>>,
         \A b \in Assets : queued'[b] <= queued[b] \/ (b = a /\ queued'[b] <= 1),
         campaign' = "paused" => campaign = "paused" \/ \A b \in Assets : queued'[b] = 0,
         \A b \in Assets : status'[b] = "scheduled" =>
           status[b] = "scheduled" /\ (tx[w].stage = "sent" => b # a)
  PROVE  FlightInv'
<1>1. \A b \in Assets : queued[b] \in Nat /\ queued'[b] \in Nat
  BY DEF FlightInv, Types, TypeOK
<1>2. Holds(w, a)
  BY DEF Holds
<1>3. \A v \in Workers, b \in Assets : Holds(v, b)' <=> v # w /\ Holds(v, b)
  BY DEF Holds
<1>4. \A b \in Assets : b # a => queued'[b] <= queued[b]
  OBVIOUS
<1>5. a \in elapsed /\ queued[a] = 0
  BY <1>2 DEF FlightInv, OneTask
<1>6. OneTask'
  <2>1. \A b \in Assets : queued'[b] <= 1
    BY <1>1, <1>4, SMT DEF FlightInv, OneTask
  <2>2. ASSUME NEW v \in Workers, NEW b \in Assets, Holds(v, b)'
        PROVE  queued'[b] = 0 /\ b \in elapsed
    <3>1. v # w /\ Holds(v, b)
      BY <1>3, <2>2
    <3>2. b # a
      BY <1>2, <3>1 DEF FlightInv, OneTask
    <3>3. queued[b] = 0 /\ b \in elapsed
      BY <3>1 DEF FlightInv, OneTask
    <3> QED
      BY <1>1, <1>4, <3>2, <3>3, SMT
  <2>3. \A v, x \in Workers, b \in Assets : Holds(v, b)' /\ Holds(x, b)' => v = x
    BY <1>3 DEF FlightInv, OneTask
  <2> QED
    BY <2>1, <2>2, <2>3 DEF OneTask
<1>7. NoneWaiting'
  <2>1. ASSUME campaign' = "paused" \/ \E u \in Users : Resuming(u), NEW b \in Assets \ elapsed
        PROVE  queued'[b] = 0
    <3>1. CASE \A c \in Assets : queued'[c] = 0
      BY <3>1
    <3>2. CASE campaign = "paused" \/ \E u \in Users : Resuming(u)
      <4>1. queued[b] = 0 /\ b # a
        BY <1>5, <3>2 DEF FlightInv, NoneWaiting
      <4> QED
        BY <1>1, <1>4, <4>1, SMT
    <3> QED
      BY <2>1, <3>1, <3>2
  <2>2. ASSUME NEW u \in Users, req[u].stage = "entered", NEW b \in req[u].requeues
        PROVE  queued'[b] = 0 /\ \A v \in Workers : ~Holds(v, b)'
    <3>1. b \in Assets
      BY <2>2, SMT DEF FlightInv, Types, OpenRequests, Idle
    <3>2. queued[b] = 0 /\ \A v \in Workers : ~Holds(v, b)
      BY <2>2 DEF FlightInv, NoneWaiting
    <3>3. b # a
      BY <1>2, <3>2
    <3> QED
      BY <1>1, <1>3, <1>4, <3>1, <3>2, <3>3, SMT
  <2> QED
    BY <2>1, <2>2 DEF NoneWaiting, Resuming
<1>8. NotYetSent'
  <2>1. tx'[w].stage = "idle"
    BY SMT DEF Idle
  <2>2. ASSUME NEW b \in Assets, status'[b] = "scheduled"
        PROVE  \/ \A r \in Recipients : sends[b][r] = 0
               \/ \E v \in Workers : tx'[v].stage = "sent" /\ tx'[v].asset = b
    BY <2>2, SMT DEF FlightInv, NotYetSent
  <2>3. \A v \in Workers : tx'[v].stage = "loaded" =>
          \A r \in Recipients : sends[tx'[v].asset][r] = 0
    BY <2>1, SMT DEF FlightInv, NotYetSent
  <2> QED
    BY <2>2, <2>3, SMT DEF NotYetSent
<1>9. NoDoubleSend'
  BY DEF FlightInv, NoDoubleSend
<1> QED
  BY <1>6, <1>7, <1>8, <1>9 DEF FlightInv

\* A worker that goes on with its task keeps who has which task.
LEMMA FlightOnward ==
  ASSUME FlightInv, NEW w \in Workers,
         tx[w] # Idle, tx'[w] # Idle, tx'[w].asset = tx[w].asset,
         \A v \in Workers : v # w => tx'[v] = tx[v],
         UNCHANGED <<req, elapsed, queued, campaign>>
  PROVE  OneTask' /\ NoneWaiting'
<1>1. \A v \in Workers : \A b : Holds(v, b)' <=> Holds(v, b)
  BY DEF Holds
<1>2. OneTask'
  BY <1>1 DEF FlightInv, OneTask
<1>3. NoneWaiting'
  BY <1>1 DEF FlightInv, NoneWaiting, Resuming
<1> QED
  BY <1>2, <1>3

LEMMA FlightClaim ==
  ASSUME FlightInv, Types', NEW w \in Workers, NEW a \in Assets, Claim(w, a)
  PROVE  FlightInv'
<1>1. /\ tx \in [Workers -> Transactions] /\ queued \in [Assets -> Nat]
      /\ \A b \in Assets : queued[b] \in Nat
  BY DEF FlightInv, Types, TypeOK
<1>2. /\ tx[w] = Idle /\ tx'[w] = [stage |-> "claimed", asset |-> a]
      /\ \A v \in Workers : v # w => tx'[v] = tx[v]
      /\ UNCHANGED <<req, elapsed, sends, campaign, status>>
      /\ queued[a] > 0 /\ a \in elapsed
      /\ queued'[a] = queued[a] - 1
      /\ \A b \in Assets : b # a => queued'[b] = queued[b]
  BY <1>1 DEF Claim, clock
<1>3. tx'[w] # Idle /\ tx'[w].asset = a /\ tx'[w].stage = "claimed" /\ tx[w].stage = "idle"
  BY <1>2, SMT DEF Idle
<1>4. \A v \in Workers, b \in Assets : Holds(v, b)' <=> (v = w /\ b = a) \/ (v # w /\ Holds(v, b))
  BY <1>2, <1>3 DEF Holds
<1>5. queued[a] = 1 /\ queued'[a] = 0 /\ \A v \in Workers : ~Holds(v, a)
  BY <1>1, <1>2, SMT DEF FlightInv, OneTask
<1>6. OneTask'
  BY <1>2, <1>4, <1>5, SMT DEF FlightInv, OneTask
<1>7. NoneWaiting'
  <2>1. ASSUME campaign = "paused" \/ \E u \in Users : Resuming(u), NEW b \in Assets \ elapsed
        PROVE  queued'[b] = 0
    BY <1>2, <2>1 DEF FlightInv, NoneWaiting
  <2>2. ASSUME NEW u \in Users, req[u].stage = "entered", NEW b \in req[u].requeues
        PROVE  queued'[b] = 0 /\ \A v \in Workers : ~Holds(v, b)'
    <3>1. b \in Assets
      BY <2>2, SMT DEF FlightInv, Types, OpenRequests, Idle
    <3>2. queued[b] = 0 /\ \A v \in Workers : ~Holds(v, b)
      BY <2>2 DEF FlightInv, NoneWaiting
    <3> QED
      BY <1>2, <1>4, <1>5, <3>1, <3>2, SMT
  <2> QED
    BY <1>2, <2>1, <2>2 DEF NoneWaiting, Resuming
<1>8. NotYetSent'
  BY <1>2, <1>3, SMT DEF FlightInv, NotYetSent
<1>9. NoDoubleSend'
  BY <1>2 DEF FlightInv, NoDoubleSend
<1> QED
  BY <1>6, <1>7, <1>8, <1>9 DEF FlightInv

LEMMA FlightLoad ==
  ASSUME FlightInv, Types', NEW w \in Workers, Load(w)
  PROVE  FlightInv'
<1>1. Types /\ tx \in [Workers -> Transactions]
  BY DEF FlightInv, Types
<1>2. /\ tx[w].stage = "claimed" /\ status[tx[w].asset] = "scheduled"
      /\ tx'[w].stage = "loaded" /\ tx'[w].asset = tx[w].asset
      /\ \A v \in Workers : v # w => tx'[v] = tx[v]
      /\ UNCHANGED <<req, elapsed, queued, campaign, status, sends>>
  BY <1>1 DEF Load, clock
<1>3. tx[w] # Idle /\ tx'[w] # Idle /\ tx[w].asset \in Assets
  BY <1>1, <1>2, HeldTask, SMT DEF Idle
<1>4. OneTask' /\ NoneWaiting'
  BY <1>2, <1>3, FlightOnward
<1>5. \A v \in Workers : ~(tx[v].stage = "sent" /\ tx[v].asset = tx[w].asset)
  BY <1>1, <1>2, <1>3, HeldTask DEF FlightInv, OneTask, Holds
<1>6. \A r \in Recipients : sends[tx[w].asset][r] = 0
  BY <1>2, <1>3, <1>5 DEF FlightInv, NotYetSent
<1>7. NotYetSent'
  BY <1>2, <1>6, SMT DEF FlightInv, NotYetSent
<1>8. NoDoubleSend'
  BY <1>2 DEF FlightInv, NoDoubleSend
<1> QED
  BY <1>4, <1>7, <1>8 DEF FlightInv

LEMMA FlightSend ==
  ASSUME FlightInv, Types', NEW w \in Workers, Send(w)
  PROVE  FlightInv'
<1> DEFINE a == tx[w].asset
<1>1. Types /\ tx \in [Workers -> Transactions]
  BY DEF FlightInv, Types
<1>2. /\ tx[w].stage = "loaded"
      /\ tx'[w].stage = "sent" /\ tx'[w].asset = a
      /\ \A v \in Workers : v # w => tx'[v] = tx[v]
      /\ UNCHANGED <<req, elapsed, queued, campaign, status>>
  BY <1>1, SMT DEF Send, clock
<1>3. tx[w] # Idle /\ tx'[w] # Idle /\ a \in Assets
  BY <1>1, <1>2, HeldTask, SMT DEF Idle
<1>4. PICK D : Deliver(a, D)
  BY DEF Send
<1>5. /\ \A b \in Assets : b # a => sends'[b] = sends[b]
      /\ \A r \in Recipients : sends'[a][r] = IF r \in D THEN sends[a][r] + 1 ELSE sends[a][r]
  BY <1>1, <1>3, <1>4, DeliverAdds
<1>6. OneTask' /\ NoneWaiting'
  BY <1>2, <1>3, FlightOnward
<1>7. \A v \in Workers : v # w /\ tx[v].stage = "loaded" => tx[v].asset \in Assets /\ tx[v].asset # a
  BY <1>1, <1>2, <1>3, HeldTask DEF FlightInv, OneTask, Holds
<1>8. \A r \in Recipients : sends[a][r] = 0
  BY <1>2 DEF FlightInv, NotYetSent
<1> HIDE DEF a
<1>9. NotYetSent'
  <2>1. ASSUME NEW b \in Assets, status[b] = "scheduled"
        PROVE  \/ \A r \in Recipients : sends'[b][r] = 0
               \/ \E v \in Workers : tx'[v].stage = "sent" /\ tx'[v].asset = b
    <3>1. CASE b = a
      BY <1>2, <3>1
    <3>2. CASE b # a
      BY <1>2, <1>5, <2>1, <3>2, SMT DEF FlightInv, NotYetSent
    <3> QED
      BY <3>1, <3>2
  <2>2. \A v \in Workers : tx'[v].stage = "loaded" =>
          \A r \in Recipients : sends'[tx'[v].asset][r] = 0
    BY <1>2, <1>5, <1>7, SMT DEF FlightInv, NotYetSent
  <2> QED
    BY <1>2, <2>1, <2>2 DEF NotYetSent
<1>10. NoDoubleSend'
  BY <1>5, <1>8, SMT DEF FlightInv, NoDoubleSend
<1> QED
  BY <1>6, <1>9, <1>10 DEF FlightInv

LEMMA FlightDispatch ==
  ASSUME FlightInv, Types', MaxFaults = 0, NEW w \in Workers,
         Dispatch(w) \/ Crash(w) \/ Overrun(w)
  PROVE  FlightInv'
<1> DEFINE a == tx[w].asset
<1>1. /\ Types /\ tx \in [Workers -> Transactions] /\ queued \in [Assets -> Nat]
      /\ DOMAIN status = Assets /\ \A b \in Assets : queued[b] \in Nat
  BY DEF FlightInv, Types, TypeOK
<1>2. ~(faults < MaxFaults)
  BY <1>1, NoFaults
<1>3. ASSUME LoadRaises(w) \/ SendRaises(w) PROVE FlightInv'
  <2>1. /\ tx[w].stage \in {"claimed", "loaded"} /\ Raise(w, a)
        /\ UNCHANGED <<campaign, status, elapsed>>
    BY <1>3 DEF LoadRaises, SendRaises, clock
  <2>2. sends' = sends
    BY <1>1, <1>3, RaisedUndelivered DEF LoadRaises
  <2>3. tx[w] # Idle /\ a \in Assets
    BY <1>1, <2>1, HeldTask
  <2>4. /\ tx'[w] = Idle /\ req' = req
        /\ \A v \in Workers : v # w => tx'[v] = tx[v]
    BY <1>1, <2>1 DEF Raise
  <2>5. queued[a] = 0
    BY <2>3 DEF FlightInv, OneTask, Holds
  <2>6. \A b \in Assets : queued'[b] <= queued[b] \/ (b = a /\ queued'[b] <= 1)
    BY <1>1, <2>1, <2>3, <2>5, SMT DEF Raise
  <2> HIDE DEF a
  <2> QED
    BY <2>1, <2>2, <2>3, <2>4, <2>6, FlightFreed DEF a
<1>4. ASSUME LoadSkips(w) PROVE FlightInv'
  <2>1. /\ tx[w].stage = "claimed"
        /\ UNCHANGED <<campaign, status, elapsed, sends, req, queued>>
        /\ tx'[w] = Idle /\ \A v \in Workers : v # w => tx'[v] = tx[v]
    BY <1>1, <1>4 DEF LoadSkips, clock
  <2>2. tx[w] # Idle /\ a \in Assets
    BY <1>1, <2>1, HeldTask
  <2>3. \A b \in Assets : queued'[b] <= queued[b]
    BY <1>1, <2>1, SMT
  <2> HIDE DEF a
  <2> QED
    BY <2>1, <2>2, <2>3, FlightFreed DEF a
<1>5. ASSUME OAuthRevoked(w) PROVE FlightInv'
  <2>1. /\ tx[w].stage = "loaded"
        /\ UNCHANGED <<elapsed, sends, req>>
        /\ tx'[w] = Idle /\ \A v \in Workers : v # w => tx'[v] = tx[v]
        /\ \A b \in Assets : queued'[b] = 0
        /\ \A b \in Assets : status'[b] = "scheduled" => status[b] = "scheduled"
    BY <1>1, <1>5 DEF OAuthRevoked, NoneQueued, clock
  <2>2. tx[w] # Idle /\ a \in Assets
    BY <1>1, <2>1, HeldTask
  <2>3. \A b \in Assets : queued'[b] <= queued[b]
    BY <1>1, <2>1, SMT
  <2> HIDE DEF a
  <2> QED
    BY <2>1, <2>2, <2>3, FlightFreed DEF a
<1>6. ASSUME Commit(w) PROVE FlightInv'
  <2>1. /\ tx[w].stage = "sent"
        /\ status' = [status EXCEPT ![a] = "published"]
        /\ tx' = [tx EXCEPT ![w] = Idle]
        /\ UNCHANGED <<elapsed, sends, req, queued>>
        /\ campaign' = "paused" => campaign = "paused"
    BY <1>2, <1>6 DEF Commit, clock
  <2>2. tx[w] # Idle /\ a \in Assets
    BY <1>1, <2>1, HeldTask
  <2>3. /\ tx'[w] = Idle /\ \A v \in Workers : v # w => tx'[v] = tx[v]
        /\ \A b \in Assets : status'[b] = "scheduled" => status[b] = "scheduled" /\ b # a
        /\ \A b \in Assets : queued'[b] <= queued[b]
    BY <1>1, <2>1, <2>2, SMT
  <2> HIDE DEF a
  <2> QED
    BY <2>1, <2>2, <2>3, FlightFreed DEF a
<1>7. ~CommitRaises(w) /\ ~Crash(w) /\ ~Overrun(w)
  BY <1>2 DEF CommitRaises, Crash, Overrun
<1> QED
  BY <1>3, <1>4, <1>5, <1>6, <1>7, FlightClaim, FlightLoad, FlightSend DEF Dispatch

LEMMA FlightRequest ==
  ASSUME FlightInv, Types', \A u, x \in Users : u = x,
         NEW u \in Users, Finish(u) \/ \E op \in Requests : Begin(u, op)
  PROVE  FlightInv'
<1>1. /\ Types /\ req \in [Users -> OpenRequests]
      /\ queued \in [Assets -> Nat] /\ \A b \in Assets : queued[b] \in Nat
  BY DEF FlightInv, Types, TypeOK
<1>2. UNCHANGED <<tx, elapsed, sends>>
  BY DEF Finish, Enter, FinishResume, FinishPause, FinishMove, Begin, clock
<1>3. \A v \in Workers : \A b : Holds(v, b)' <=> Holds(v, b)
  BY <1>2 DEF Holds
<1>4. \A b \in Assets : status'[b] = "scheduled" => status[b] = "scheduled"
  BY DEF Finish, Enter, FinishResume, FinishPause, FinishMove, Begin
<1>5. NotYetSent' /\ NoDoubleSend'
  BY <1>2, <1>4 DEF FlightInv, NotYetSent, NoDoubleSend
<1>6. \A b \in Assets : queued'[b] <= queued[b] => queued'[b] <= 1 /\ (queued[b] = 0 => queued'[b] = 0)
  <2>1. \A b \in Assets : queued'[b] \in Nat /\ queued[b] <= 1
    BY DEF FlightInv, OneTask, Types, TypeOK
  <2> QED
    BY <1>1, <2>1, SMT
<1>7. ASSUME NEW op \in Requests, Begin(u, op) PROVE FlightInv'
  <2>1. /\ UNCHANGED <<campaign, queued>> /\ Allowed(op)
        /\ req'[u].stage = "checked" /\ req'[u].op = op
    BY <1>1, <1>7 DEF Begin
  <2>2. OneTask'
    BY <1>2, <1>3, <2>1 DEF FlightInv, OneTask
  <2>3. op = "resume" => campaign = "paused"
    BY <2>1 DEF Allowed
  <2>4. NoneWaiting'
    BY <1>2, <2>1, <2>3 DEF FlightInv, NoneWaiting, Resuming
  <2> QED
    BY <1>5, <2>2, <2>4 DEF FlightInv
<1>8. ASSUME Enter(u) PROVE FlightInv'
  <2>1. /\ UNCHANGED <<campaign, queued>>
        /\ req[u].stage = "checked" /\ req[u].op = "resume"
        /\ req'[u].stage = "entered" /\ req'[u].requeues \subseteq Assets \ elapsed
    BY <1>1, <1>8 DEF Enter
  <2>2. OneTask'
    BY <1>2, <1>3, <2>1 DEF FlightInv, OneTask
  <2>3. \A b \in Assets \ elapsed : queued[b] = 0
    BY <2>1 DEF FlightInv, NoneWaiting, Resuming
  <2>4. \A b \in Assets \ elapsed : \A v \in Workers : ~Holds(v, b)
    BY DEF FlightInv, OneTask
  <2>5. NoneWaiting'
    BY <1>2, <1>3, <2>1, <2>3, <2>4 DEF NoneWaiting
  <2> QED
    BY <1>5, <2>2, <2>5 DEF FlightInv
<1>9. ASSUME FinishResume(u) PROVE FlightInv'
  <2>1. /\ campaign' = "live" /\ req[u].stage = "entered" /\ req'[u] = Idle
        /\ \A b \in Assets : b \notin req[u].requeues => queued'[b] = queued[b]
        /\ \A b \in Assets : b \in req[u].requeues => queued'[b] = queued[b] + 1
    BY <1>1, <1>9 DEF FinishResume
  <2>2. req'[u].stage = "idle"
    BY <2>1, SMT DEF Idle
  <2>3. \A b \in Assets : b \in req[u].requeues =>
          queued'[b] = 1 /\ \A v \in Workers : ~Holds(v, b)
    BY <2>1, SMT DEF FlightInv, NoneWaiting
  <2>4. OneTask'
    BY <1>2, <1>3, <2>1, <2>3, SMT DEF FlightInv, OneTask
  <2>5. NoneWaiting'
    BY <2>1, <2>2 DEF NoneWaiting, Resuming
  <2> QED
    BY <1>5, <2>4, <2>5 DEF FlightInv
<1>10. ASSUME FinishPause(u) \/ FinishMove(u) PROVE FlightInv'
  <2>1. /\ req'[u] = Idle
        /\ \/ \A b \in Assets : queued'[b] = 0
           \/ queued' = queued /\ campaign' # "paused"
    BY <1>1, <1>10 DEF FinishPause, FinishMove, NoneQueued
  <2>2. req'[u].stage = "idle"
    BY <2>1, SMT DEF Idle
  <2>3. OneTask'
    BY <1>2, <1>3, <2>1, SMT DEF FlightInv, OneTask
  <2>4. NoneWaiting'
    BY <2>1, <2>2 DEF NoneWaiting, Resuming
  <2> QED
    BY <1>5, <2>3, <2>4 DEF FlightInv
<1> QED
  BY <1>7, <1>8, <1>9, <1>10 DEF Finish

LEMMA FlightInit == Init => FlightInv
<1> SUFFICES ASSUME Init PROVE FlightInv
  OBVIOUS
<1>1. OneTask /\ NoneWaiting
  BY DistributionAssumption, SMT DEF Init, Idle, OneTask, NoneWaiting, Resuming, Holds
<1>2. NotYetSent /\ NoDoubleSend
  BY SMT DEF Init, Idle, NotYetSent, NoDoubleSend
<1> QED
  BY <1>1, <1>2, TypesInit DEF FlightInv

LEMMA FlightStep ==
  ASSUME MaxFaults = 0, \A u, x \in Users : u = x
  PROVE  FlightInv /\ [Next]_vars => FlightInv'
<1> SUFFICES ASSUME FlightInv, [Next]_vars PROVE FlightInv'
  OBVIOUS
<1>1. Types'
  BY TypesStep DEF FlightInv
<1>2. ASSUME \/ \E a \in Assets : SlotArrives(a)
             \/ StartDateArrives \/ WindowPasses \/ UNCHANGED vars
      PROVE  FlightInv'
  <2>1. UNCHANGED <<campaign, status, queued, tx, req, sends>> /\ elapsed \subseteq elapsed'
    BY <1>2 DEF SlotArrives, StartDateArrives, WindowPasses, vars, clock
  <2>2. OneTask' /\ NoneWaiting'
    BY <2>1 DEF FlightInv, OneTask, NoneWaiting, Resuming, Holds
  <2>3. NotYetSent' /\ NoDoubleSend'
    BY <2>1 DEF FlightInv, NotYetSent, NoDoubleSend
  <2> QED
    BY <1>1, <2>2, <2>3 DEF FlightInv
<1> QED
  BY <1>1, <1>2, FlightDispatch, FlightRequest DEF Next

\* No recipient gets the same asset twice, whatever the number of workers, retries of
\* raised handlers, pauses and resumes, when nothing that counts as a fault happens and
\* requests do not overlap (dispatch_email_asset, social_publish,
\* resume_distribution_for_campaign).
THEOREM NobodySentTwice ==
  ASSUME MaxFaults = 0, \A u, x \in Users : u = x
  PROVE  Spec => []NoDoubleSend
<1>1. FlightInv /\ [Next]_vars => FlightInv'
  BY FlightStep
<1>2. FlightInv => NoDoubleSend
  BY DEF FlightInv
<1> QED
  BY <1>1, <1>2, FlightInit, PTL DEF Spec
-----------------------------------------------------------------------------
\* A step that writes no row, delivers nothing and neither loads nor ends a dispatch
\* that has sent.
LEMMA RecordQuiet ==
  ASSUME RecordInv, Types', UNCHANGED <<row, sends>>,
         \A a \in Assets : status'[a] = "scheduled" => status[a] = "scheduled",
         \A w \in Workers : \/ tx'[w] = tx[w]
                            \/ tx[w].stage # "sent" /\ tx'[w].stage \notin {"loaded", "sent"}
  PROVE  RecordInv'
<1>1. NoRowsYet'
  BY SMT DEF RecordInv, NoRowsYet
<1>2. DeliveredRecorded'
  BY SMT DEF RecordInv, DeliveredRecorded, Sending
<1>3. NoDoubleSend'
  BY DEF RecordInv, NoDoubleSend
<1> QED
  BY <1>1, <1>2, <1>3 DEF RecordInv

LEMMA RecordLoad ==
  ASSUME RecordInv, Types', NEW w \in Workers, Load(w)
  PROVE  RecordInv'
<1>1. Types /\ tx \in [Workers -> Transactions]
  BY DEF RecordInv, Types
<1>2. /\ tx[w].stage = "claimed" /\ status[tx[w].asset] = "scheduled"
      /\ tx'[w].stage = "loaded" /\ tx'[w].asset = tx[w].asset
      /\ \A v \in Workers : v # w => tx'[v] = tx[v]
      /\ UNCHANGED <<status, row, sends>>
  BY <1>1 DEF Load
<1>3. tx[w].asset \in Assets
  BY <1>1, <1>2, HeldTask
<1>4. NoRowsYet'
  BY <1>2, <1>3, SMT DEF RecordInv, NoRowsYet
<1>5. DeliveredRecorded'
  <2> SUFFICES ASSUME NEW a \in Assets, NEW r \in Recipients, sends[a][r] > 0
               PROVE  row[a][r] = "sent" \/ \E v \in Workers : Sending(v, a, r)'
    BY <1>2 DEF DeliveredRecorded
  <2>1. CASE row[a][r] = "sent"
    BY <2>1
  <2>2. CASE \E v \in Workers : Sending(v, a, r)
    BY <1>2, <2>2 DEF Sending
  <2> QED
    BY <2>1, <2>2 DEF RecordInv, DeliveredRecorded
<1>6. NoDoubleSend'
  BY <1>2 DEF RecordInv, NoDoubleSend
<1> QED
  BY <1>4, <1>5, <1>6 DEF RecordInv

\* What a provider call that returns without a fault leaves.
LEMMA SendParts ==
  ASSUME Types, MaxFaults = 0, NEW w \in Workers, Send(w)
  PROVE  /\ tx[w].stage = "loaded" /\ tx[w].asset \in Assets
         /\ tx'[w].stage = "sent" /\ tx'[w].asset = tx[w].asset
         /\ DOMAIN tx'[w].answer = tx[w].batch
         /\ \A v \in Workers : v # w => tx'[v] = tx[v]
         /\ UNCHANGED <<status, row>>
         /\ \A b \in Assets : b # tx[w].asset => sends'[b] = sends[b]
         /\ \A r \in Recipients :
              \/ sends'[tx[w].asset][r] = sends[tx[w].asset][r]
              \/ /\ sends'[tx[w].asset][r] = sends[tx[w].asset][r] + 1
                 /\ r \in tx[w].batch /\ tx'[w].answer[r] = "sent"
<1> DEFINE t == tx[w]
<1>1. tx \in [Workers -> Transactions] /\ t.stage = "loaded" /\ t.asset \in Assets
  BY HeldTask DEF Types, Send
<1>2. PICK refused \in SUBSET t.batch, acknowledged \in BOOLEAN :
        /\ ~acknowledged => faults < MaxFaults
        /\ Deliver(t.asset, t.batch \ refused)
        /\ tx' = [tx EXCEPT ![w] =
             [stage |-> "sent", asset |-> t.asset, campaign |-> t.campaign,
              capped |-> t.capped,
              answer |-> [r \in t.batch |-> IF r \in refused THEN "rejected"
                                            ELSE IF acknowledged THEN "sent"
                                            ELSE "failed"]]]
  BY DEF Send
<1>3. acknowledged
  BY <1>2, NoFaults
<1>4. /\ tx'[w].stage = "sent" /\ tx'[w].asset = t.asset
      /\ tx'[w].answer = [r \in t.batch |-> IF r \in refused THEN "rejected"
                                            ELSE IF acknowledged THEN "sent" ELSE "failed"]
      /\ \A v \in Workers : v # w => tx'[v] = tx[v]
  BY <1>1, <1>2
<1>5. /\ DOMAIN tx'[w].answer = t.batch
      /\ \A r \in t.batch \ refused : tx'[w].answer[r] = "sent"
  BY <1>3, <1>4
<1>6. /\ \A b \in Assets : b # t.asset => sends'[b] = sends[b]
      /\ \A r \in Recipients : sends'[t.asset][r] =
           IF r \in t.batch \ refused THEN sends[t.asset][r] + 1 ELSE sends[t.asset][r]
  BY <1>1, <1>2, DeliverAdds, SMT
<1>7. UNCHANGED <<status, row>>
  BY DEF Send
<1> QED
  BY <1>1, <1>4, <1>5, <1>6, <1>7

LEMMA RecordSend ==
  ASSUME RecordInv, Types', MaxFaults = 0, \A v, x \in Workers : v = x,
         NEW w \in Workers, Send(w)
  PROVE  RecordInv'
<1> DEFINE a == tx[w].asset
<1>1. /\ tx[w].stage = "loaded" /\ a \in Assets
      /\ tx'[w].stage = "sent" /\ tx'[w].asset = a
      /\ DOMAIN tx'[w].answer = tx[w].batch
      /\ UNCHANGED <<status, row>>
      /\ \A b \in Assets : b # a => sends'[b] = sends[b]
      /\ \A r \in Recipients :
           \/ sends'[a][r] = sends[a][r]
           \/ /\ sends'[a][r] = sends[a][r] + 1
              /\ r \in tx[w].batch /\ tx'[w].answer[r] = "sent"
  BY SendParts DEF RecordInv
<1>2. \A r \in Recipients : row[a][r] = "none"
  BY <1>1 DEF RecordInv, NoRowsYet
<1>3. \A b \in Assets, r \in Recipients : sends[b][r] > 0 => row[b][r] = "sent"
  BY <1>1, SMT DEF RecordInv, DeliveredRecorded, Sending
<1>4. \A r \in Recipients : sends[a][r] = 0
  <2>1. \A r \in Recipients : sends[a][r] \in Nat
    BY <1>1, SMT DEF RecordInv, Types, TypeOK
  <2> QED
    BY <1>1, <1>2, <1>3, <2>1, SMT
<1> HIDE DEF a
<1>5. NoRowsYet'
  BY <1>1, <1>2, SMT DEF RecordInv, NoRowsYet
<1>6. DeliveredRecorded'
  <2> SUFFICES ASSUME NEW b \in Assets, NEW r \in Recipients, sends'[b][r] > 0
               PROVE  row[b][r] = "sent" \/ Sending(w, b, r)'
    BY <1>1 DEF DeliveredRecorded
  <2>1. CASE b # a
    BY <1>1, <1>3, <2>1
  <2>2. CASE b = a
    BY <1>1, <1>4, <2>2, SMT DEF Sending
  <2> QED
    BY <2>1, <2>2
<1>7. NoDoubleSend'
  BY <1>1, <1>4, SMT DEF RecordInv, NoDoubleSend
<1> QED
  BY <1>5, <1>6, <1>7 DEF RecordInv

LEMMA RecordCommit ==
  ASSUME RecordInv, Types', \A v, x \in Workers : v = x, NEW w \in Workers, Commit(w)
  PROVE  RecordInv'
<1> DEFINE t == tx[w]
           a == t.asset
<1>1. /\ Types /\ t.stage = "sent" /\ sends' = sends /\ tx' = [tx EXCEPT ![w] = Idle]
      /\ status' = [status EXCEPT ![a] = "published"]
  BY DEF RecordInv, Commit
<1>2. /\ a \in Assets
      /\ \A r \in Recipients : row'[a][r] = Written(t, r)
      /\ \A b \in Assets : b # a => row'[b] = row[b]
  BY <1>1, CommitRows
<1>3. tx'[w].stage = "idle" /\ \A b \in Assets : status'[b] = "scheduled" => status[b] = "scheduled" /\ b # a
  BY <1>1, <1>2 DEF Types, TypeOK, Idle
<1>4. \A r \in Recipients : row[a][r] = "none"
  BY <1>1 DEF RecordInv, NoRowsYet
<1>5. ASSUME NEW r \in Recipients, Sending(w, a, r) PROVE row'[a][r] = "sent"
  BY <1>2, <1>4, <1>5 DEF Sending, Written, Upsert
<1>6. \A b \in Assets, r \in Recipients : Sending(w, b, r) => b = a
  BY DEF Sending
<1> HIDE DEF a
<1>7. NoRowsYet'
  BY <1>2, <1>3, SMT DEF RecordInv, NoRowsYet
<1>8. DeliveredRecorded'
  <2> SUFFICES ASSUME NEW b \in Assets, NEW r \in Recipients, sends[b][r] > 0
               PROVE  row'[b][r] = "sent"
    BY <1>1 DEF DeliveredRecorded
  <2>1. row[b][r] = "sent" \/ Sending(w, b, r)
    BY DEF RecordInv, DeliveredRecorded
  <2> QED
    BY <1>2, <1>4, <1>5, <1>6, <2>1
<1>9. NoDoubleSend'
  BY <1>1 DEF RecordInv, NoDoubleSend
<1> QED
  BY <1>7, <1>8, <1>9 DEF RecordInv

\* Without faults, every step but Load, Send and Commit is quiet in that sense.
LEMMA QuietSteps ==
  ASSUME Types, MaxFaults = 0, [Next]_vars,
         \A w \in Workers : ~Load(w) /\ ~Send(w) /\ ~Commit(w)
  PROVE  /\ UNCHANGED <<row, sends>>
         /\ \A a \in Assets : status'[a] = "scheduled" => status[a] = "scheduled"
         /\ \A w \in Workers : \/ tx'[w] = tx[w]
                               \/ tx[w].stage # "sent" /\ tx'[w].stage \notin {"loaded", "sent"}
<1> DEFINE Quiet ==
             /\ UNCHANGED <<row, sends>>
             /\ \A a \in Assets : status'[a] = "scheduled" => status[a] = "scheduled"
             /\ \A w \in Workers : \/ tx'[w] = tx[w]
                                   \/ tx[w].stage # "sent" /\ tx'[w].stage \notin {"loaded", "sent"}
<1>1. tx \in [Workers -> Transactions] /\ DOMAIN status = Assets /\ ~(faults < MaxFaults)
  BY NoFaults DEF Types, TypeOK
<1>2. ASSUME NEW w \in Workers, NEW a \in Assets, Claim(w, a) PROVE Quiet
  <2>1. /\ UNCHANGED <<row, sends, status>>
        /\ \A v \in Workers : v # w => tx'[v] = tx[v]
        /\ tx[w] = Idle /\ tx'[w] = [stage |-> "claimed", asset |-> a]
    BY <1>1, <1>2 DEF Claim
  <2>2. tx[w].stage = "idle" /\ tx'[w].stage = "claimed"
    BY <2>1, SMT DEF Idle
  <2> QED
    BY <2>1, <2>2
<1>3. ASSUME NEW w \in Workers, LoadRaises(w) \/ LoadSkips(w) \/ SendRaises(w) \/ OAuthRevoked(w)
      PROVE  Quiet
  <2>1. /\ row' = row
        /\ \A a \in Assets : status'[a] = "scheduled" => status[a] = "scheduled"
        /\ tx[w].stage \in {"claimed", "loaded"} /\ tx' = [tx EXCEPT ![w] = Idle]
    BY <1>1, <1>3 DEF LoadRaises, LoadSkips, SendRaises, OAuthRevoked, Raise
  <2>2. sends' = sends
    BY <1>3, RaisedUndelivered DEF LoadRaises, LoadSkips, OAuthRevoked
  <2>3. tx'[w].stage = "idle" /\ \A v \in Workers : v # w => tx'[v] = tx[v]
    BY <1>1, <2>1 DEF Idle
  <2> QED
    BY <2>1, <2>2, <2>3
<1>4. \A w \in Workers : ~CommitRaises(w) /\ ~Crash(w) /\ ~Overrun(w)
  BY <1>1 DEF CommitRaises, Crash, Overrun
<1>5. ASSUME NEW u \in Users, Finish(u) \/ \E op \in Requests : Begin(u, op) PROVE Quiet
  BY <1>5 DEF Finish, Enter, FinishResume, FinishPause, FinishMove, Begin
<1>6. ASSUME \/ \E a \in Assets : SlotArrives(a)
             \/ StartDateArrives \/ WindowPasses \/ UNCHANGED vars
      PROVE  Quiet
  BY <1>6 DEF SlotArrives, StartDateArrives, WindowPasses, vars
<1> QED
  BY <1>2, <1>3, <1>4, <1>5, <1>6 DEF Next, Dispatch

LEMMA RecordInit == Init => RecordInv
<1> SUFFICES ASSUME Init PROVE RecordInv
  OBVIOUS
<1>1. NoRowsYet /\ DeliveredRecorded /\ NoDoubleSend
  BY SMT DEF Init, Idle, NoRowsYet, DeliveredRecorded, NoDoubleSend
<1> QED
  BY <1>1, TypesInit DEF RecordInv

LEMMA RecordStep ==
  ASSUME MaxFaults = 0, \A w, x \in Workers : w = x
  PROVE  RecordInv /\ [Next]_vars => RecordInv'
<1> SUFFICES ASSUME RecordInv, [Next]_vars PROVE RecordInv'
  OBVIOUS
<1>1. Types /\ Types'
  BY TypesStep DEF RecordInv
<1>2. CASE \A w \in Workers : ~Load(w) /\ ~Send(w) /\ ~Commit(w)
  BY <1>1, <1>2, QuietSteps, RecordQuiet
<1> QED
  BY <1>1, <1>2, RecordLoad, RecordSend, RecordCommit

\* No recipient gets the same asset twice from a single worker that meets no fault,
\* even when users pause and resume at the same time and a resume queues a second
\* task of an asset: what the first one did is in the rows and in the asset's status
\* (_existing_attempts, dispatch_email_asset).
THEOREM NobodySentTwiceByOneWorker ==
  ASSUME MaxFaults = 0, \A w, x \in Workers : w = x
  PROVE  Spec => []NoDoubleSend
<1>1. RecordInv /\ [Next]_vars => RecordInv'
  BY RecordStep
<1>2. RecordInv => NoDoubleSend
  BY DEF RecordInv
<1> QED
  BY <1>1, <1>2, RecordInit, PTL DEF Spec
-----------------------------------------------------------------------------
\* Sets of assets, counted.
LEMMA CountUpTo ==
  ASSUME IsFiniteSet(Assets), NEW S \in SUBSET Assets, NEW X \in SUBSET S
  PROVE  /\ Cardinality(S) \in Nat /\ Cardinality(X) \in Nat
         /\ Cardinality(X) <= Cardinality(S)
<1>1. IsFiniteSet(S)
  BY FS_Subset
<1>2. IsFiniteSet(X) /\ Cardinality(X) <= Cardinality(S)
  BY <1>1, FS_Subset
<1> QED
  BY <1>1, <1>2, FS_CardinalityType

LEMMA CountOneMore ==
  ASSUME IsFiniteSet(Assets), NEW S \in SUBSET Assets, NEW a \in Assets,
         NEW X \in SUBSET (S \cup {a})
  PROVE  Cardinality(X) <= Cardinality(S) + 1
<1>1. IsFiniteSet(S) /\ Cardinality(S) \in Nat
  BY FS_Subset, FS_CardinalityType
<1>2. Cardinality(S \cup {a}) \in {Cardinality(S), Cardinality(S) + 1}
  BY <1>1, FS_AddElement
<1>3. S \cup {a} \in SUBSET Assets
  OBVIOUS
<1>4. Cardinality(X) \in Nat /\ Cardinality(X) <= Cardinality(S \cup {a})
  BY <1>3, CountUpTo
<1> QED
  BY <1>1, <1>2, <1>4, SMT

\* The emails r has a row of are within the cap after a commit.
LEMMA CapCommit ==
  ASSUME CapInv, IsFiniteSet(Assets), \A v, x \in Workers : v = x,
         NEW w \in Workers, Commit(w)
  PROVE  RoomLeft' /\ CapOfRows'
<1> DEFINE t == tx[w]
           a == t.asset
<1>1. Types /\ t.stage = "sent" /\ tx' = [tx EXCEPT ![w] = Idle]
  BY DEF CapInv, RecordInv, Commit
<1>2. /\ a \in Assets
      /\ \A r \in Recipients : row'[a][r] = Written(t, r)
      /\ \A b \in Assets : b # a => row'[b] = row[b]
  BY <1>1, CommitRows
<1>3. tx'[w].stage = "idle"
  BY <1>1 DEF Types, Idle
<1>4. \A r \in Recipients : row[a][r] = "none"
  BY <1>1 DEF CapInv, RecordInv, NoRowsYet
<1>5. \A r \in Recipients : row'[a][r] = "sent" => r \in DOMAIN t.answer
  BY <1>1, <1>2, <1>4, WrittenRow
<1>6. ASSUME NEW r \in Recipients, r \in DOMAIN t.answer, a \notin Social
      PROVE  Cardinality(SentRows(r)) < Cap
  BY <1>1, <1>6 DEF CapInv, RoomLeft
<1> HIDE DEF a
<1>7. RoomLeft'
  BY <1>3 DEF RoomLeft
<1>8. ASSUME NEW r \in Recipients PROVE Cardinality(SentRows(r)' \ Social) <= Cap
  <2> DEFINE S == SentRows(r)
             N == SentRows(r)'
  <2>1. S \in SUBSET Assets /\ N \in SUBSET Assets /\ S \ Social \in SUBSET S
    BY DEF SentRows
  <2>2. N \subseteq S \cup {a}
    BY <1>2 DEF SentRows
  <2>3. a \in N => r \in DOMAIN t.answer
    BY <1>5 DEF SentRows
  <2>4. Cardinality(S \ Social) <= Cap
    BY DEF CapInv, CapOfRows
  <2>5. /\ Cardinality(S) \in Nat /\ Cardinality(S \ Social) \in Nat
        /\ Cardinality(S \ Social) <= Cardinality(S)
    BY <2>1, CountUpTo
  <2>6. Cap \in Nat /\ S \ Social \in SUBSET Assets
    BY <2>1, DistributionAssumption
  <2> HIDE DEF S, N
  <2>7. CASE a \in N \ Social
    <3>1. Cardinality(S) < Cap
      BY <1>6, <2>3, <2>7 DEF S
    <3>2. N \ Social \in SUBSET ((S \ Social) \cup {a})
      BY <2>2
    <3>3. Cardinality(N \ Social) <= Cardinality(S \ Social) + 1
      BY <1>2, <2>6, <3>2, CountOneMore
    <3>4. Cardinality(N \ Social) \in Nat
      BY <2>1, CountUpTo
    <3> QED
      BY <2>5, <2>6, <3>1, <3>3, <3>4, SMT DEF N
  <2>8. CASE a \notin N \ Social
    <3>1. N \ Social \in SUBSET (S \ Social)
      BY <2>2, <2>8
    <3>2. Cardinality(N \ Social) \in Nat /\ Cardinality(N \ Social) <= Cardinality(S \ Social)
      BY <2>6, <3>1, CountUpTo
    <3> QED
      BY <2>4, <2>5, <2>6, <3>2, SMT DEF N
  <2> QED
    BY <2>7, <2>8
<1>9. CapOfRows'
  BY <1>8 DEF CapOfRows
<1> QED
  BY <1>7, <1>9

LEMMA CapLoad ==
  ASSUME CapInv, IsFiniteSet(Assets), NEW w \in Workers, Load(w)
  PROVE  RoomLeft' /\ CapOfRows'
<1> DEFINE a == tx[w].asset
<1>1. tx \in [Workers -> Transactions] /\ Cap \in Nat
  BY DistributionAssumption DEF CapInv, RecordInv, Types
<1>2. /\ tx'[w].stage = "loaded" /\ tx'[w].asset = a
      /\ a \notin Social => tx'[w].batch = Candidates(a) \ Capped
      /\ \A v \in Workers : v # w => tx'[v] = tx[v]
      /\ row' = row
  BY <1>1 DEF Load
<1>3. \A r : SentRows(r)' = SentRows(r)
  BY <1>2 DEF SentRows
<1>4. ASSUME NEW r \in Recipients, r \notin Capped PROVE Cardinality(SentRows(r)) < Cap
  <2>1. SentRows(r) \in SUBSET Assets
    BY DEF SentRows
  <2>2. Cardinality(SentRows(r)) \in Nat
    BY <2>1, CountUpTo
  <2>3. ~(Cardinality(SentRows(r)) >= Cap)
    BY <1>4 DEF Capped, SentRows
  <2> QED
    BY <1>1, <2>2, <2>3, SMT
<1> HIDE DEF a
<1>5. RoomLeft'
  BY <1>2, <1>3, <1>4 DEF CapInv, RoomLeft
<1>6. CapOfRows'
  BY <1>3 DEF CapInv, CapOfRows
<1> QED
  BY <1>5, <1>6

LEMMA CapStep ==
  ASSUME MaxFaults = 0, \A w, x \in Workers : w = x, IsFiniteSet(Assets)
  PROVE  CapInv /\ [Next]_vars => CapInv'
<1> SUFFICES ASSUME CapInv, [Next]_vars PROVE CapInv'
  OBVIOUS
<1>1. Types /\ RecordInv'
  BY RecordStep DEF CapInv, RecordInv
<1>2. ASSUME \A w \in Workers : ~Load(w) /\ ~Send(w) /\ ~Commit(w) PROVE CapInv'
  <2>1. /\ row' = row
        /\ \A w \in Workers : tx'[w] = tx[w] \/ tx'[w].stage \notin {"loaded", "sent"}
    BY <1>1, <1>2, QuietSteps
  <2>2. \A r : SentRows(r)' = SentRows(r)
    BY <2>1 DEF SentRows
  <2>3. RoomLeft' /\ CapOfRows'
    BY <2>1, <2>2 DEF CapInv, RoomLeft, CapOfRows
  <2> QED
    BY <1>1, <2>3 DEF CapInv
<1>3. ASSUME NEW w \in Workers, Send(w) PROVE CapInv'
  <2>1. /\ tx[w].stage = "loaded"
        /\ tx'[w].stage = "sent" /\ tx'[w].asset = tx[w].asset
        /\ DOMAIN tx'[w].answer = tx[w].batch
        /\ row' = row
    BY <1>1, <1>3, SendParts
  <2>2. \A r : SentRows(r)' = SentRows(r)
    BY <2>1 DEF SentRows
  <2>3. RoomLeft' /\ CapOfRows'
    BY <2>1, <2>2 DEF CapInv, RoomLeft, CapOfRows
  <2> QED
    BY <1>1, <2>3 DEF CapInv
<1>4. ASSUME NEW w \in Workers, Load(w) \/ Commit(w) PROVE CapInv'
  BY <1>1, <1>4, CapLoad, CapCommit DEF CapInv
<1> QED
  BY <1>2, <1>3, <1>4

LEMMA CapInit ==
  ASSUME Init, IsFiniteSet(Assets)
  PROVE  CapInv
<1>1. RoomLeft
  BY DEF Init, Idle, RoomLeft
<1>2. ASSUME NEW r \in Recipients PROVE Cardinality(SentRows(r) \ Social) <= Cap
  <2>1. SentRows(r) \ Social = {}
    BY DEF Init, SentRows
  <2>2. Cardinality(SentRows(r) \ Social) = 0
    BY <2>1, FS_EmptySet
  <2> QED
    BY <2>2, DistributionAssumption, SMT
<1> QED
  BY <1>1, <1>2, RecordInit DEF CapInv, CapOfRows

\* What the rows and the answers say bounds what was delivered.
LEMMA CapBounds ==
  ASSUME CapInv, IsFiniteSet(Assets), \A w, x \in Workers : w = x
  PROVE  CapRespected
<1> SUFFICES ASSUME NEW r \in Recipients
             PROVE  Cardinality({a \in Assets \ Social : sends[a][r] > 0}) <= Cap
  BY DEF CapRespected
<1> DEFINE X == {a \in Assets \ Social : sends[a][r] > 0}
           S == SentRows(r)
<1>1. S \in SUBSET Assets /\ X \in SUBSET Assets /\ S \ Social \in SUBSET S
  BY DEF SentRows
<1>2. /\ Cardinality(S) \in Nat /\ Cardinality(S \ Social) \in Nat
      /\ Cardinality(S \ Social) <= Cardinality(S)
  BY <1>1, CountUpTo
<1>3. Cap \in Nat /\ S \ Social \in SUBSET Assets /\ Cardinality(S \ Social) <= Cap
  BY <1>1, DistributionAssumption DEF CapInv, CapOfRows
<1>4. \A a \in X : a \in S \/ \E w \in Workers : Sending(w, a, r)
  BY DEF CapInv, RecordInv, DeliveredRecorded, SentRows
<1>5. \A a \in X : a \notin Social
  OBVIOUS
<1> HIDE DEF X, S
<1>6. CASE \E a \in X, w \in Workers : Sending(w, a, r)
  <2>1. PICK a \in X, w \in Workers : Sending(w, a, r)
    BY <1>6
  <2>2. Cardinality(S) < Cap
    BY <1>5, <2>1 DEF CapInv, RoomLeft, Sending, S
  <2>3. \A b \in X, v \in Workers : Sending(v, b, r) => b = a
    BY <2>1 DEF Sending
  <2>4. X \in SUBSET ((S \ Social) \cup {a}) /\ a \in Assets
    BY <1>1, <1>4, <1>5, <2>3
  <2>5. Cardinality(X) <= Cardinality(S \ Social) + 1
    BY <1>3, <2>4, CountOneMore
  <2>6. Cardinality(X) \in Nat
    BY <1>1, CountUpTo
  <2> QED
    BY <1>2, <1>3, <2>2, <2>5, <2>6, SMT DEF X
<1>7. CASE ~\E a \in X, w \in Workers : Sending(w, a, r)
  <2>1. X \in SUBSET (S \ Social)
    BY <1>4, <1>5, <1>7
  <2>2. Cardinality(X) \in Nat /\ Cardinality(X) <= Cardinality(S \ Social)
    BY <1>3, <2>1, CountUpTo
  <2> QED
    BY <1>2, <1>3, <2>2, SMT DEF X
<1> QED
  BY <1>6, <1>7

\* Nobody is sent more emails than the frequency cap allows by a single worker that
\* meets no fault, whatever users do meanwhile: the cap is read from the rows of
\* earlier dispatches before each send (_capped_recipients).
THEOREM OneWorkerKeepsTheCap ==
  ASSUME MaxFaults = 0, \A w, x \in Workers : w = x, IsFiniteSet(Assets)
  PROVE  Spec => []CapRespected
<1>1. Init => CapInv
  BY CapInit
<1>2. CapInv /\ [Next]_vars => CapInv'
  BY CapStep
<1>3. CapInv => CapRespected
  BY CapBounds
<1> QED
  BY <1>1, <1>2, <1>3, PTL DEF Spec
=============================================================================
