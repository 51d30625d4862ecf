-------------------------- MODULE DeskTestsProofs ---------------------------
(***************************************************************************)
(* Proofs about the A/B tests, for any recipients, hash, traffic splits    *)
(* and variants and any number of requests in flight.                      *)
(***************************************************************************)
EXTENDS DeskTests, TLAPS

\* The leaves are first-order reasoning about sets and functions unless they say SMT.
USE Zenon
-----------------------------------------------------------------------------
(***************************************************************************)
(* A/B tests.  A mail that left stays when its dispatch is rolled back and *)
(* its assignments are lost.  The next dispatch chooses the same variant,  *)
(* because the split is what it was: a promotion needs a winner, a winner  *)
(* needs assignments, and the first dispatch that commits assignments has  *)
(* committed one for every recipient.                                      *)
(***************************************************************************)
\* A row of ab_test.
TestRow(t) ==
  t = [f \in {"status", "a", "b", "split", "winner", "throttled", "expired"} |-> t[f]]

\* A dispatch in flight.
DispatchRow(t) ==
  /\ t = [f \in {"kind", "variant", "test", "split", "todo", "kept", "fresh", "mailed"} |-> t[f]]
  /\ t.kind = "dispatch"

\* An open dispatch t: the recipients it is through with are assigned in the rows it
\* sees, those it keeps to its own variant.  ids are the tests there are.
DispatchRead(t, ids, rows) ==
  /\ DispatchRow(t)
  /\ t.test \in ids \cup {0} /\ (t.test = 0 => t.split = <<>>)
  /\ t.todo \subseteq Recipients /\ (t.mailed => t.todo = {})
  /\ \A u \in t.fresh : u = <<t.test, u[2], u[3]>>
  /\ IF t.split = <<>> THEN t.fresh = {}
     ELSE /\ \A r \in Recipients \ t.todo : \E u \in rows \cup t.fresh : u[1] = t.test /\ u[2] = r
          /\ \A r \in t.kept : <<t.test, r, t.variant>> \in rows \cup t.fresh

TestTxRead(t, ids, rows) ==
  /\ t.kind \in {"add", "launch", "stop", "evaluate", "promote"} => t.test \in ids
  /\ t.kind = "dispatch" => DispatchRead(t, ids, rows)

\* A committed row, an open dispatch or a mail says that test i gave recipient r variant v.
Says(i, r, v, rows, txs, mails) ==
  \/ <<i, r, v>> \in rows
  \/ \E s \in Sessions : txs[s].kind = "dispatch" /\ <<i, r, v>> \in txs[s].fresh
  \/ <<r, v, i>> \in mails

\* Everybody is assigned, and nothing contradicts the assignments.
Settled(i, rows, txs, mails) ==
  /\ \A r \in Recipients : \E u \in rows : u[1] = i /\ u[2] = r
  /\ \A r, v, w :
       Says(i, r, v, rows, txs, mails) /\ Says(i, r, w, rows, txs, mails) => v = w

\* Nobody is assigned, nobody has won, and what was chosen is what row t still says.
Untouched(i, t, rows, txs, mails) ==
  /\ \A u \in rows : u[1] # i
  /\ t.winner = 0
  /\ \A s \in Sessions :
       /\ txs[s].kind = "promote" => txs[s].test # i
       /\ txs[s].kind = "evaluate" /\ txs[s].test = i => txs[s].decision \notin {"a", "b"}
       /\ txs[s].kind = "dispatch" /\ txs[s].test = i => txs[s].split = t.split
  /\ \A r, v :
       Says(i, r, v, rows, txs, mails) => v = X!PickVariant(r, t.split)

\* A variant names a test or none.
GroupsKnown(groups, ids) ==
  groups = [v \in X!Variants |-> groups[v]] /\ \A v \in X!Variants : groups[v] \in ids \cup {0}

ArmInv ==
  /\ tests = [i \in DOMAIN tests |-> tests[i]]
  /\ Len(tests) \in Nat /\ DOMAIN tests = 1..Len(tests)
  /\ \A i \in DOMAIN tests : TestRow(tests[i])
  /\ GroupsKnown(group, DOMAIN tests)
  /\ \A u \in assigned : u = <<u[1], u[2], u[3]>> /\ u[1] \in DOMAIN tests
  /\ \A m \in sent : m = <<m[1], m[2], m[3]>> /\ m[3] \in DOMAIN tests \cup {0}
  /\ tx = [s \in Sessions |-> tx[s]]
  /\ \A s \in Sessions : TestTxRead(tx[s], DOMAIN tests, assigned)
  /\ \A i \in DOMAIN tests : \/ Settled(i, assigned, tx, sent)
                             \/ Untouched(i, tests[i], assigned, tx, sent)

\* What an open request t read, when requests do not overlap.
Current(t, table, assets) ==
  /\ t.kind = "launch" => table[t.test].status = "designing"
  /\ t.kind = "stop" => table[t.test].status \in X!Active
  /\ t.kind = "evaluate" => table[t.test].status = "running"
  /\ t.kind = "promote" => \A v \in t.losers \cap X!Variants : assets[v] # "published"

TestSerial ==
  /\ \A s, q \in Sessions : tx[s] # X!Idle /\ tx[q] # X!Idle => s = q
  /\ \A s \in Sessions : Current(tx[s], tests, asset)

AssetsKnown == asset = [v \in X!Variants |-> asset[v]]

TestInv == ArmInv /\ X!OneActiveTest /\ AssetsKnown /\ (raced \/ TestSerial)

\* Nothing new is said of a settled test: it stays settled.
LEMMA SettledStays ==
  ASSUME NEW i, NEW rows, NEW txs, NEW mails, Settled(i, rows, txs, mails),
         NEW rows2, NEW txs2, NEW mails2, rows \subseteq rows2,
         \A r, v : Says(i, r, v, rows2, txs2, mails2) => Says(i, r, v, rows, txs, mails)
  PROVE  Settled(i, rows2, txs2, mails2)
  BY DEF Settled

\* A step that says nothing new about who gets what.
LEMMA ArmSaid ==
  ASSUME ArmInv, assigned \subseteq assigned', GroupsKnown(group', DOMAIN tests),
         \A u \in assigned' : u = <<u[1], u[2], u[3]>> /\ u[1] \in DOMAIN tests,
         \A m \in sent' : m = <<m[1], m[2], m[3]>> /\ m[3] \in DOMAIN tests \cup {0},
         tests' = [i \in DOMAIN tests |-> tests'[i]], Len(tests') = Len(tests),
         \A i \in DOMAIN tests : TestRow(tests'[i]),
         tx' = [s \in Sessions |-> tx'[s]],
         \A s \in Sessions : TestTxRead(tx'[s], DOMAIN tests, assigned'),
         \A i \in DOMAIN tests :
           \A r, v : Says(i, r, v, assigned', tx', sent') => Says(i, r, v, assigned, tx, sent),
         \A i \in DOMAIN tests :
           Untouched(i, tests[i], assigned, tx, sent) =>
             \/ \A r \in Recipients : \E u \in assigned' : u[1] = i /\ u[2] = r
             \/ /\ \A u \in assigned' : u[1] # i
                /\ tests'[i].winner = 0 /\ tests'[i].split = tests[i].split
                /\ \A s \in Sessions :
                     /\ tx'[s].kind = "promote" => tx'[s].test # i
                     /\ tx'[s].kind = "evaluate" /\ tx'[s].test = i => tx'[s].decision \notin {"a", "b"}
                     /\ tx'[s].kind = "dispatch" /\ tx'[s].test = i => tx'[s].split = tests[i].split
  PROVE  ArmInv'
<1>1. DOMAIN tests' = DOMAIN tests
  OBVIOUS
<1>2. ASSUME NEW i \in DOMAIN tests
      PROVE  Settled(i, assigned', tx', sent') \/ Untouched(i, tests'[i], assigned', tx', sent')
  <2>0. \A r, v : Says(i, r, v, assigned', tx', sent') => Says(i, r, v, assigned, tx, sent)
    OBVIOUS
  <2>1. CASE Settled(i, assigned, tx, sent)
    BY <2>0, <2>1, SettledStays
  <2>2. CASE Untouched(i, tests[i], assigned, tx, sent)
    <3>1. \A r, v : Says(i, r, v, assigned', tx', sent') => v = X!PickVariant(r, tests[i].split)
      BY <2>0, <2>2 DEF Untouched
    <3>2. CASE \A r \in Recipients : \E u \in assigned' : u[1] = i /\ u[2] = r
      BY <3>1, <3>2 DEF Settled
    <3>3. CASE ~\A r \in Recipients : \E u \in assigned' : u[1] = i /\ u[2] = r
      <4>1. /\ \A u \in assigned' : u[1] # i
            /\ tests'[i].winner = 0 /\ tests'[i].split = tests[i].split
        BY <2>2, <3>3
      <4>2. \A s \in Sessions :
              /\ tx'[s].kind = "promote" => tx'[s].test # i
              /\ tx'[s].kind = "evaluate" /\ tx'[s].test = i => tx'[s].decision \notin {"a", "b"}
              /\ tx'[s].kind = "dispatch" /\ tx'[s].test = i => tx'[s].split = tests[i].split
        BY <2>2, <3>3
      <4>3. Untouched(i, tests'[i], assigned', tx', sent')
        <5>1. PICK w : w = tests[i].split
          OBVIOUS
        <5> QED
          BY <3>1, <4>1, <4>2, <5>1 DEF Untouched
      <4> QED
        BY <4>3
    <3> QED
      BY <3>2, <3>3
  <2> QED
    BY <2>1, <2>2 DEF ArmInv
<1>3. Len(tests') \in Nat /\ DOMAIN tests' = 1..Len(tests')
  BY <1>1 DEF ArmInv
<1>4. tests' = [i \in DOMAIN tests' |-> tests'[i]] /\ \A i \in DOMAIN tests' : TestRow(tests'[i])
  BY <1>1
<1>5. /\ \A u \in assigned' : u = <<u[1], u[2], u[3]>> /\ u[1] \in DOMAIN tests'
      /\ \A m \in sent' : m = <<m[1], m[2], m[3]>> /\ m[3] \in DOMAIN tests' \cup {0}
  BY <1>1
<1>6. \A s \in Sessions : TestTxRead(tx'[s], DOMAIN tests', assigned')
  BY <1>1
<1>7. \A i \in DOMAIN tests' : Settled(i, assigned', tx', sent') \/ Untouched(i, tests'[i], assigned', tx', sent')
  BY <1>1, <1>2
<1>8. GroupsKnown(group', DOMAIN tests')
  BY <1>1
<1> QED
  BY <1>8, <1>3, <1>4, <1>5, <1>6, <1>7 DEF ArmInv

\* A step that commits no assignment and mails nobody.
LEMMA ArmKept ==
  ASSUME ArmInv, assigned' = assigned, sent' = sent, GroupsKnown(group', DOMAIN tests),
         tests' = [i \in DOMAIN tests |-> tests'[i]], Len(tests') = Len(tests),
         \A i \in DOMAIN tests : TestRow(tests'[i]),
         tx' = [s \in Sessions |-> tx'[s]],
         \A s \in Sessions : TestTxRead(tx'[s], DOMAIN tests, assigned),
         \A i \in DOMAIN tests :
           \A r, v : Says(i, r, v, assigned, tx', sent) => Says(i, r, v, assigned, tx, sent),
         \A i \in DOMAIN tests :
           Untouched(i, tests[i], assigned, tx, sent) =>
             /\ tests'[i].winner = 0 /\ tests'[i].split = tests[i].split
             /\ \A s \in Sessions :
                  /\ tx'[s].kind = "promote" => tx'[s].test # i
                  /\ tx'[s].kind = "evaluate" /\ tx'[s].test = i => tx'[s].decision \notin {"a", "b"}
                  /\ tx'[s].kind = "dispatch" /\ tx'[s].test = i => tx'[s].split = tests[i].split
  PROVE  ArmInv'
<1>1. /\ \A u \in assigned' : u = <<u[1], u[2], u[3]>> /\ u[1] \in DOMAIN tests
      /\ \A m \in sent' : m = <<m[1], m[2], m[3]>> /\ m[3] \in DOMAIN tests \cup {0}
  BY DEF ArmInv
<1>2. \A i \in DOMAIN tests : Untouched(i, tests[i], assigned, tx, sent) => \A u \in assigned' : u[1] # i
  BY DEF Untouched
<1>3. /\ \A s \in Sessions : TestTxRead(tx'[s], DOMAIN tests, assigned')
      /\ \A i \in DOMAIN tests :
           \A r, v : Says(i, r, v, assigned', tx', sent') => Says(i, r, v, assigned, tx, sent)
      /\ assigned \subseteq assigned'
  OBVIOUS
<1> QED
  BY <1>1, <1>2, <1>3, ArmSaid

\* A request reads, or ends without a trace.
LEMMA ArmTx ==
  ASSUME ArmInv, NEW s \in Sessions, NEW t, tx' = [tx EXCEPT ![s] = t],
         UNCHANGED <<tests, group, assigned, sent>>,
         TestTxRead(t, DOMAIN tests, assigned),
         \A i \in DOMAIN tests : \A r, v :
           t.kind = "dispatch" /\ <<i, r, v>> \in t.fresh => Says(i, r, v, assigned, tx, sent),
         \A i \in DOMAIN tests :
           Untouched(i, tests[i], assigned, tx, sent) =>
             /\ t.kind = "promote" => t.test # i
             /\ t.kind = "evaluate" /\ t.test = i => t.decision \notin {"a", "b"}
             /\ t.kind = "dispatch" /\ t.test = i => t.split = tests[i].split
  PROVE  ArmInv'
<1>1. tx = [q \in Sessions |-> tx[q]]
  BY DEF ArmInv
<1>2. tx' = [q \in Sessions |-> tx'[q]] /\ \A q \in Sessions : tx'[q] = IF q = s THEN t ELSE tx[q]
  BY <1>1
<1>3. \A q \in Sessions : TestTxRead(tx'[q], DOMAIN tests, assigned)
  BY <1>2 DEF ArmInv
<1>4. \A i \in DOMAIN tests :
        \A r, v : Says(i, r, v, assigned, tx', sent) => Says(i, r, v, assigned, tx, sent)
  BY <1>2 DEF Says
<1>5. \A i \in DOMAIN tests :
        Untouched(i, tests[i], assigned, tx, sent) =>
          /\ tests'[i].winner = 0 /\ tests'[i].split = tests[i].split
          /\ \A q \in Sessions :
               /\ tx'[q].kind = "promote" => tx'[q].test # i
               /\ tx'[q].kind = "evaluate" /\ tx'[q].test = i => tx'[q].decision \notin {"a", "b"}
               /\ tx'[q].kind = "dispatch" /\ tx'[q].test = i => tx'[q].split = tests[i].split
  <2> SUFFICES ASSUME NEW i \in DOMAIN tests, Untouched(i, tests[i], assigned, tx, sent),
                      NEW q \in Sessions
               PROVE  /\ tests'[i].winner = 0 /\ tests'[i].split = tests[i].split
                      /\ tx'[q].kind = "promote" => tx'[q].test # i
                      /\ tx'[q].kind = "evaluate" /\ tx'[q].test = i => tx'[q].decision \notin {"a", "b"}
                      /\ tx'[q].kind = "dispatch" /\ tx'[q].test = i => tx'[q].split = tests[i].split
    BY DEF Untouched
  <2>1. CASE q = s
    BY <1>2, <2>1 DEF Untouched
  <2>2. CASE q # s
    BY <1>2, <2>2 DEF Untouched
  <2> QED
    BY <2>1, <2>2
<1>6. tests' = [i \in DOMAIN tests |-> tests'[i]] /\ \A i \in DOMAIN tests : TestRow(tests'[i])
  BY DEF ArmInv
<1>7. GroupsKnown(group', DOMAIN tests)
  BY DEF ArmInv
<1> QED
  BY <1>2, <1>3, <1>4, <1>5, <1>6, <1>7, ArmKept

\* A request writes rows of ab_test and ends: an untouched test keeps its split and
\* has no winner.
LEMMA ArmTests ==
  ASSUME ArmInv, tests' = [i \in DOMAIN tests |-> tests'[i]], Len(tests') = Len(tests),
         \A i \in DOMAIN tests : TestRow(tests'[i]), GroupsKnown(group', DOMAIN tests),
         UNCHANGED <<assigned, sent>>,
         tx' = [s \in Sessions |-> tx'[s]],
         \A s \in Sessions : tx'[s] = tx[s] \/ tx'[s] = X!Idle,
         \A i \in DOMAIN tests :
           Untouched(i, tests[i], assigned, tx, sent) =>
             tests'[i].winner = tests[i].winner /\ tests'[i].split = tests[i].split
  PROVE  ArmInv'
<1>1. X!Idle.kind = "none"
  BY SMT DEF X!Idle
<1>2. \A s \in Sessions : TestTxRead(tx'[s], DOMAIN tests, assigned)
  BY <1>1 DEF ArmInv, TestTxRead
<1>3. \A i \in DOMAIN tests :
        \A r, v : Says(i, r, v, assigned, tx', sent) => Says(i, r, v, assigned, tx, sent)
  BY <1>1 DEF Says
<1>4. ASSUME NEW i \in DOMAIN tests, Untouched(i, tests[i], assigned, tx, sent)
      PROVE  /\ tests'[i].winner = 0 /\ tests'[i].split = tests[i].split
             /\ \A s \in Sessions :
                  /\ tx'[s].kind = "promote" => tx'[s].test # i
                  /\ tx'[s].kind = "evaluate" /\ tx'[s].test = i => tx'[s].decision \notin {"a", "b"}
                  /\ tx'[s].kind = "dispatch" /\ tx'[s].test = i => tx'[s].split = tests[i].split
  <2>1. tests'[i].winner = 0 /\ tests'[i].split = tests[i].split
    BY <1>4 DEF Untouched
  <2>2. ASSUME NEW s \in Sessions
        PROVE  /\ tx'[s].kind = "promote" => tx'[s].test # i
               /\ tx'[s].kind = "evaluate" /\ tx'[s].test = i => tx'[s].decision \notin {"a", "b"}
               /\ tx'[s].kind = "dispatch" /\ tx'[s].test = i => tx'[s].split = tests[i].split
    <3>1. CASE tx'[s] = tx[s]
      BY <1>4, <3>1 DEF Untouched
    <3>2. CASE tx'[s] = X!Idle
      BY <1>1, <3>2
    <3> QED
      BY <3>1, <3>2
  <2> QED
    BY <2>1, <2>2
<1> QED
  BY <1>2, <1>3, <1>4, ArmKept

LEMMA NoTestIdle == X!Idle.kind = "none"
  BY SMT DEF X!Idle

\* A request that begins with reading no assignment.
LEMMA ArmLoads ==
  ASSUME ArmInv, NEW s \in Sessions,
         X!LoadAddVariant(s) \/ X!LoadCreate(s) \/ X!LoadLaunch(s) \/ X!LoadStop(s)
  PROVE  ArmInv'
<1>1. UNCHANGED <<tests, group, assigned, sent>>
  BY DEF X!LoadAddVariant, X!LoadCreate, X!LoadLaunch, X!LoadStop
<1>2. ASSUME NEW t, X!Begin(s, t), t.kind \in {"add", "create", "launch", "stop"},
             t.kind # "create" => t.test \in DOMAIN tests
      PROVE  ArmInv'
  <2>1. tx' = [tx EXCEPT ![s] = t]
    BY <1>2 DEF X!Begin
  <2>2. t.kind # "dispatch" /\ t.kind # "promote" /\ t.kind # "evaluate"
    BY <1>2
  <2>3. TestTxRead(t, DOMAIN tests, assigned)
    BY <1>2, <2>2 DEF TestTxRead
  <2> QED
    BY <1>1, <2>1, <2>2, <2>3, ArmTx
<1>3. CASE X!LoadAddVariant(s)
  <2>1. PICK i \in DOMAIN tests : X!Begin(s, [kind |-> "add", test |-> i])
    BY <1>3 DEF X!LoadAddVariant
  <2>2. PICK t : t = [kind |-> "add", test |-> i]
    OBVIOUS
  <2>3. t.kind = "add" /\ t.test = i
    BY <2>2
  <2> QED
    BY <1>2, <2>1, <2>2, <2>3
<1>4. CASE X!LoadCreate(s)
  <2>1. PICK a, b, split : X!Begin(s, [kind |-> "create", a |-> a, b |-> b, split |-> split])
    BY <1>4 DEF X!LoadCreate
  <2>2. PICK t : t = [kind |-> "create", a |-> a, b |-> b, split |-> split]
    OBVIOUS
  <2>3. t.kind = "create"
    BY <2>2
  <2> QED
    BY <1>2, <2>1, <2>2, <2>3
<1>5. CASE X!LoadLaunch(s) \/ X!LoadStop(s)
  <2>1. PICK i \in DOMAIN tests, k \in {"launch", "stop"} : X!Begin(s, [kind |-> k, test |-> i])
    BY <1>5 DEF X!LoadLaunch, X!LoadStop
  <2>2. PICK t : t = [kind |-> k, test |-> i]
    OBVIOUS
  <2>3. t.kind = k /\ t.test = i
    BY <2>2
  <2>4. X!Begin(s, t)
    BY <2>1, <2>2
  <2> QED
    BY <1>2, <2>3, <2>4
<1> QED
  BY <1>3, <1>4, <1>5

\* An empty set counts nothing: the recursion of Cardinality has a solution on it,
\* and every solution is 0 there.
LEMMA NoneCounted == X!Cardinality({}) = 0
<1> DEFINE Counts(f) == f = [T \in SUBSET {} |-> IF T = {} THEN 0 ELSE 1 + f[T \ {CHOOSE x : x \in T}]]
<1>1. \A T \in SUBSET {} : T = {}
  OBVIOUS
<1>2. Counts([T \in SUBSET {} |-> 0])
  BY <1>1
<1>3. \A f : Counts(f) => f[{}] = 0
  BY <1>1
<1>4. (CHOOSE f : Counts(f))[{}] = 0
  BY <1>2, <1>3
<1> QED
  BY <1>4 DEF X!Cardinality

\* Without assignments there is nothing to decide.
LEMMA NothingToJudge ==
  ASSUME NEW i, \A u \in assigned : u[1] # i
  PROVE  X!Judge(i) \notin {"a", "b"}
<1>1. \A v : X!ArmSample(i, v).n = 0
  <2> SUFFICES ASSUME NEW v PROVE X!ArmSample(i, v).n = 0
    OBVIOUS
  <2>1. {t \in assigned : t[1] = i /\ t[3] = v} = {}
    OBVIOUS
  <2>3. Scale * 0 = 0
    BY ScaleAssumption, SMT
  <2>4. PICK n : n = Scale * X!Cardinality({t \in assigned : t[1] = i /\ t[3] = v})
    OBVIOUS
  <2>5. X!ArmSample(i, v) = [n |-> n, x |-> Scale * opens[v]]
    BY <2>4 DEF X!ArmSample
  <2>6. X!ArmSample(i, v).n = n
    BY <2>5, SMT
  <2> QED
    BY <2>1, <2>3, <2>4, <2>6, NoneCounted
<1>2. ASSUME NEW A, NEW B, A.n = 0 PROVE X!TwoProportionTest(A, B) = "inconclusive"
  <2>1. ~(0 > 0)
    BY SMT
  <2> QED
    BY <1>2, <2>1, SMT DEF X!TwoProportionTest
<1> QED
  BY <1>1, <1>2 DEF X!Judge

LEMMA ArmLoadEvaluate ==
  ASSUME ArmInv, NEW s \in Sessions, X!LoadEvaluate(s)
  PROVE  ArmInv'
<1>1. PICK i \in DOMAIN tests :
        X!Begin(s, [kind |-> "evaluate", test |-> i, decision |-> X!Judge(i), expired |-> tests[i].expired])
  BY DEF X!LoadEvaluate
<1>2. PICK d : d = X!Judge(i)
  OBVIOUS
<1>3. PICK t : t = [kind |-> "evaluate", test |-> i, decision |-> d, expired |-> tests[i].expired]
  OBVIOUS
<1>4. t.kind = "evaluate" /\ t.test = i /\ t.decision = d
  BY <1>3
<1>5. tx' = [tx EXCEPT ![s] = t] /\ UNCHANGED <<tests, group, assigned, sent>>
  BY <1>1, <1>2, <1>3 DEF X!Begin, X!LoadEvaluate
<1>6. TestTxRead(t, DOMAIN tests, assigned)
  BY <1>4 DEF TestTxRead
<1>7. Untouched(i, tests[i], assigned, tx, sent) => t.decision \notin {"a", "b"}
  BY <1>2, <1>4, NothingToJudge DEF Untouched
<1> QED
  BY <1>4, <1>5, <1>6, <1>7, ArmTx

LEMMA ArmLoadPromote ==
  ASSUME ArmInv, NEW s \in Sessions, X!LoadPromote(s)
  PROVE  ArmInv'
<1>1. PICK i \in DOMAIN tests :
        /\ tests[i].winner # 0
        /\ X!Begin(s, [kind |-> "promote", test |-> i, winner |-> tests[i].winner, losers |-> X!Losers(i)])
  BY DEF X!LoadPromote
<1>2. PICK l : l = X!Losers(i)
  OBVIOUS
<1>3. PICK t : t = [kind |-> "promote", test |-> i, winner |-> tests[i].winner, losers |-> l]
  OBVIOUS
<1>4. t.kind = "promote" /\ t.test = i
  BY <1>3
<1>5. tx' = [tx EXCEPT ![s] = t] /\ UNCHANGED <<tests, group, assigned, sent>>
  BY <1>1, <1>2, <1>3 DEF X!Begin, X!LoadPromote
<1>6. TestTxRead(t, DOMAIN tests, assigned)
  BY <1>4 DEF TestTxRead
<1>7. ~Untouched(i, tests[i], assigned, tx, sent)
  BY <1>1 DEF Untouched
<1> QED
  BY <1>4, <1>5, <1>6, <1>7, ArmTx

LEMMA ArmLoadDispatch ==
  ASSUME ArmInv, NEW s \in Sessions, X!LoadDispatch(s)
  PROVE  ArmInv'
<1>1. PICK i, v :
        /\ v \in X!Variants /\ i \in X!RunningTests(v)
        /\ X!Begin(s, [kind |-> "dispatch", variant |-> v, test |-> i,
                       split |-> IF i = 0 THEN <<>> ELSE tests[i].split, todo |-> Recipients,
                       kept |-> {}, fresh |-> {}, mailed |-> FALSE])
  BY DEF X!LoadDispatch
<1>2. PICK w : w = IF i = 0 THEN <<>> ELSE tests[i].split
  OBVIOUS
<1>3. PICK t : t = [kind |-> "dispatch", variant |-> v, test |-> i, split |-> w, todo |-> Recipients,
                    kept |-> {}, fresh |-> {}, mailed |-> FALSE]
  OBVIOUS
<1>4. /\ t.kind = "dispatch" /\ t.variant = v /\ t.test = i /\ t.split = w /\ t.todo = Recipients
      /\ t.kept = {} /\ t.fresh = {} /\ t.mailed = FALSE
  BY <1>3
<1>5. tx' = [tx EXCEPT ![s] = t] /\ UNCHANGED <<tests, group, assigned, sent>>
  BY <1>1, <1>2, <1>3 DEF X!Begin, X!LoadDispatch
<1>6. i \in DOMAIN tests \cup {0}
  BY <1>1 DEF X!RunningTests, ArmInv, GroupsKnown
<1>7. DispatchRead(t, DOMAIN tests, assigned)
  <2>1. DispatchRow(t)
    <3>1. ASSUME NEW a, NEW b, NEW c, NEW d, NEW e, NEW f, NEW g
          PROVE  DispatchRow([kind |-> "dispatch", variant |-> a, test |-> b, split |-> c, todo |-> d,
                              kept |-> e, fresh |-> f, mailed |-> g])
      BY SMTT(20) DEF DispatchRow
    <3> QED
      BY <1>3, <3>1
  <2> QED
    BY <1>2, <1>4, <1>6, <2>1 DEF DispatchRead
<1>8. 0 \notin DOMAIN tests
  <2>1. \A n \in Nat : 0 \notin 1..n
    BY SMT
  <2> QED
    BY <2>1 DEF ArmInv
<1>9. TestTxRead(t, DOMAIN tests, assigned)
  BY <1>4, <1>7 DEF TestTxRead
<1>10. \A k \in DOMAIN tests : t.test = k => t.split = tests[k].split
  BY <1>2, <1>4, <1>8
<1> QED
  BY <1>4, <1>5, <1>9, <1>10, ArmTx

\* A row of ab_test is written.
LEMMA TestsWritten ==
  ASSUME ArmInv, NEW k \in DOMAIN tests, NEW t, TestRow(t), tests' = [tests EXCEPT ![k] = t]
  PROVE  /\ tests' = [i \in DOMAIN tests |-> tests'[i]] /\ Len(tests') = Len(tests)
         /\ \A i \in DOMAIN tests : tests'[i] = (IF i = k THEN t ELSE tests[i]) /\ TestRow(tests'[i])
<1>1. tests = [i \in DOMAIN tests |-> tests[i]] /\ \A i \in DOMAIN tests : TestRow(tests[i])
  BY DEF ArmInv
<1>2. tests' = [i \in DOMAIN tests |-> tests'[i]] /\ DOMAIN tests' = DOMAIN tests
  BY <1>1
<1>3. \A i \in DOMAIN tests : tests'[i] = (IF i = k THEN t ELSE tests[i]) /\ TestRow(tests'[i])
  BY <1>1
<1>4. Len(tests') = Len(tests)
  <2>1. ASSUME NEW q, NEW n \in Nat, DOMAIN q = 1..n, q = [i \in DOMAIN q |-> q[i]]
        PROVE  Len(q) = n
    <3>1. q \in Seq({q[i] : i \in 1..n})
      BY <2>1, SMT
    <3> QED
      BY <2>1, <3>1, SMT
  <2> QED
    <3>1. PICK n : n = Len(tests)
      OBVIOUS
    <3>2. PICK q : q = tests'
      OBVIOUS
    <3>3. n \in Nat /\ DOMAIN q = 1..n
      BY <1>2, <3>1, <3>2 DEF ArmInv
    <3>4. q = [i \in DOMAIN q |-> q[i]]
      BY <1>2, <3>2
    <3> QED
      BY <2>1, <3>1, <3>2, <3>3, <3>4
<1> QED
  BY <1>2, <1>3, <1>4


\* The columns launch and stop write and leave alone.
LEMMA StatusWritten ==
  ASSUME NEW t, TestRow(t), NEW x
  PROVE  /\ TestRow([t EXCEPT !.status = x])
         /\ [t EXCEPT !.status = x].a = t.a
         /\ [t EXCEPT !.status = x].split = t.split
         /\ [t EXCEPT !.status = x].winner = t.winner
         /\ [t EXCEPT !.status = x].status = x
<1> DEFINE row == [t EXCEPT !.status = x]
<1>1. t = [f \in {"status", "a", "b", "split", "winner", "throttled", "expired"} |-> t[f]]
  BY DEF TestRow
<1>2. TestRow(row)
  BY <1>1 DEF TestRow
<1>3. row.a = t.a
  BY <1>1
<1>4. row.split = t.split
  BY <1>1
<1>5. row.winner = t.winner
  BY <1>1
<1>6. row.status = x
  BY <1>1
<1> QED
  BY <1>2, <1>3, <1>4, <1>5, <1>6

\* The promotion.
LEMMA SplitWritten ==
  ASSUME NEW t, TestRow(t), NEW x
  PROVE  /\ TestRow([t EXCEPT !.split = x])
         /\ [t EXCEPT !.split = x].a = t.a
         /\ [t EXCEPT !.split = x].status = t.status
         /\ [t EXCEPT !.split = x].winner = t.winner
<1> DEFINE row == [t EXCEPT !.split = x]
<1>1. t = [f \in {"status", "a", "b", "split", "winner", "throttled", "expired"} |-> t[f]]
  BY DEF TestRow
<1>2. TestRow(row)
  BY <1>1 DEF TestRow
<1>3. row.a = t.a
  BY <1>1
<1>4. row.status = t.status
  BY <1>1
<1>5. row.winner = t.winner
  BY <1>1
<1> QED
  BY <1>2, <1>3, <1>4, <1>5

\* The clock.
Clocked(t, x, y) == [t EXCEPT !.throttled = x, !.expired = y]

SameVerdict(t, row) ==
  TestRow(row) /\ row.a = t.a /\ row.split = t.split /\ row.status = t.status /\ row.winner = t.winner

LEMMA ClockWritten == \A t, x, y : TestRow(t) => SameVerdict(t, Clocked(t, x, y))
<1> SUFFICES ASSUME NEW t, TestRow(t), NEW x, NEW y PROVE SameVerdict(t, Clocked(t, x, y))
  OBVIOUS
<1> DEFINE row == [t EXCEPT !.throttled = x, !.expired = y]
<1>1. t = [f \in {"status", "a", "b", "split", "winner", "throttled", "expired"} |-> t[f]]
  BY DEF TestRow
<1>2. TestRow(row)
  BY <1>1 DEF TestRow
<1>3. row.a = t.a /\ row.status = t.status
  BY <1>1
<1>4. row.split = t.split /\ row.winner = t.winner
  BY <1>1
<1>5. row = Clocked(t, x, y)
  BY DEF Clocked
<1> HIDE DEF row
<1> QED
  BY <1>2, <1>3, <1>4, <1>5 DEF SameVerdict

\* The evaluation.
Evaluated(t, x, y, z) == [t EXCEPT !.throttled = x, !.winner = y, !.status = z]

NewVerdict(t, row, y, z) ==
  TestRow(row) /\ row.a = t.a /\ row.split = t.split /\ row.winner = y /\ row.status = z

LEMMA VerdictWritten == \A t, x, y, z : TestRow(t) => NewVerdict(t, Evaluated(t, x, y, z), y, z)
<1> SUFFICES ASSUME NEW t, TestRow(t), NEW x, NEW y, NEW z
             PROVE  NewVerdict(t, Evaluated(t, x, y, z), y, z)
  OBVIOUS
<1> DEFINE row == [t EXCEPT !.throttled = x, !.winner = y, !.status = z]
<1>1. t = [f \in {"status", "a", "b", "split", "winner", "throttled", "expired"} |-> t[f]]
  BY DEF TestRow
<1>2. TestRow(row)
  BY <1>1 DEF TestRow
<1>3. row.a = t.a /\ row.split = t.split
  BY <1>1
<1>4. row.winner = y /\ row.status = z
  BY <1>1
<1>5. row = Evaluated(t, x, y, z)
  BY DEF Evaluated
<1> HIDE DEF row
<1> QED
  BY <1>2, <1>3, <1>4, <1>5 DEF NewVerdict

\* The row each request writes: k is its test, t what the row becomes.
Becomes(k, t) == k \in DOMAIN tests /\ TestRow(t) /\ tests' = [tests EXCEPT ![k] = t] /\ t.a = tests[k].a

LEMMA StatusBecomes ==
  ASSUME ArmInv, NEW s \in Sessions, X!CommitLaunch(s) \/ X!CommitStop(s)
  PROVE  \E t : /\ Becomes(tx[s].test, t)
                /\ t.winner = tests[tx[s].test].winner /\ t.split = tests[tx[s].test].split
                /\ t.status = IF tx[s].kind = "launch" THEN "running" ELSE "stopped"
<1>1. PICK k : k = tx[s].test
  OBVIOUS
<1>2. k \in DOMAIN tests /\ TestRow(tests[k]) /\ tests = [i \in DOMAIN tests |-> tests[i]]
  BY <1>1 DEF ArmInv, TestTxRead, X!CommitLaunch, X!CommitStop
<1>3. PICK x : x = IF tx[s].kind = "launch" THEN "running" ELSE "stopped"
  OBVIOUS
<1>4. PICK t : t = [tests[k] EXCEPT !.status = x]
  OBVIOUS
<1>5. tests' = [tests EXCEPT ![k].status = x]
  BY <1>1, <1>3 DEF X!CommitLaunch, X!CommitStop
<1>6. tests' = [tests EXCEPT ![k] = t]
  BY <1>4, <1>5
<1>7. TestRow(t) /\ t.a = tests[k].a /\ t.winner = tests[k].winner /\ t.split = tests[k].split /\ t.status = x
  BY <1>2, <1>4, StatusWritten
<1>8. Becomes(k, t)
  BY <1>2, <1>6, <1>7 DEF Becomes
<1> QED
  BY <1>1, <1>3, <1>7, <1>8

LEMMA SplitBecomes ==
  ASSUME ArmInv, NEW s \in Sessions, X!CommitPromote(s)
  PROVE  \E t : /\ Becomes(tx[s].test, t)
                /\ t.winner = tests[tx[s].test].winner /\ t.status = tests[tx[s].test].status
<1>1. PICK k : k = tx[s].test
  OBVIOUS
<1>2. k \in DOMAIN tests /\ TestRow(tests[k]) /\ tests = [i \in DOMAIN tests |-> tests[i]]
  BY <1>1 DEF ArmInv, TestTxRead, X!CommitPromote
<1>3. PICK x : x = [v \in {tx[s].winner} |-> 100]
  OBVIOUS
<1>4. PICK t : t = [tests[k] EXCEPT !.split = x]
  OBVIOUS
<1>5. tests' = [tests EXCEPT ![k].split = x]
  BY <1>1, <1>3 DEF X!CommitPromote
<1>6. tests' = [tests EXCEPT ![k] = t]
  BY <1>4, <1>5
<1>7. TestRow(t) /\ t.a = tests[k].a /\ t.winner = tests[k].winner /\ t.status = tests[k].status
  BY <1>2, <1>4, SplitWritten
<1>8. Becomes(k, t)
  BY <1>2, <1>6, <1>7 DEF Becomes
<1> QED
  BY <1>1, <1>7, <1>8

LEMMA ClockBecomes ==
  ASSUME ArmInv, NEW k \in DOMAIN tests, X!TimePasses(k)
  PROVE  \E t : /\ Becomes(k, t) /\ t.split = tests[k].split
                /\ t.winner = tests[k].winner /\ t.status = tests[k].status
<1>1. TestRow(tests[k]) /\ tests = [i \in DOMAIN tests |-> tests[i]]
  BY DEF ArmInv
<1>2. PICK x, y : x = FALSE /\ y = ~tests[k].throttled
  OBVIOUS
<1>3. PICK t : t = Clocked(tests[k], x, y)
  OBVIOUS
<1>4. tests' = [tests EXCEPT ![k].throttled = x, ![k].expired = y]
  BY <1>2 DEF X!TimePasses
<1>5. tests' = [tests EXCEPT ![k] = t]
  BY <1>1, <1>3, <1>4 DEF Clocked
<1>6. /\ TestRow(t) /\ t.a = tests[k].a /\ t.winner = tests[k].winner /\ t.split = tests[k].split
      /\ t.status = tests[k].status
  <2>1. SameVerdict(tests[k], t)
    BY <1>1, <1>3, ClockWritten
  <2> QED
    BY <2>1 DEF SameVerdict
<1>7. Becomes(k, t)
  BY <1>5, <1>6 DEF Becomes
<1> QED
  BY <1>6, <1>7

\* A verdict, or none and perhaps the end of the test.
LEMMA VerdictBecomes ==
  ASSUME ArmInv, NEW s \in Sessions, X!CommitEvaluate(s)
  PROVE  \E t : /\ Becomes(tx[s].test, t) /\ t.split = tests[tx[s].test].split
                /\ t.winner = tests[tx[s].test].winner \/ tx[s].decision \in {"a", "b"}
                /\ t.status \in {tests[tx[s].test].status, "significant", "inconclusive"}
<1>1. PICK k : k = tx[s].test
  OBVIOUS
<1>2. k \in DOMAIN tests /\ TestRow(tests[k])
  BY <1>1 DEF ArmInv, TestTxRead, X!CommitEvaluate
<1>3. PICK y : y = IF tx[s].decision \in {"a", "b"}
                   THEN (IF tx[s].decision = "b" THEN tests[k].b ELSE tests[k].a) ELSE tests[k].winner
  OBVIOUS
<1>4. PICK z : z = IF tx[s].decision \in {"a", "b"} THEN "significant"
                   ELSE IF tx[s].expired THEN "inconclusive" ELSE tests[k].status
  OBVIOUS
<1>0. PICK x : x = TRUE
  OBVIOUS
<1>5. PICK t : t = Evaluated(tests[k], x, y, z)
  OBVIOUS
<1>6. tests' = [tests EXCEPT ![k] = t]
  BY <1>0, <1>1, <1>3, <1>4, <1>5 DEF X!CommitEvaluate, Evaluated
<1>7. TestRow(t) /\ t.a = tests[k].a /\ t.split = tests[k].split /\ t.winner = y /\ t.status = z
  <2>1. NewVerdict(tests[k], t, y, z)
    BY <1>2, <1>5, VerdictWritten
  <2> QED
    BY <2>1 DEF NewVerdict
<1>8. t.winner = tests[k].winner \/ tx[s].decision \in {"a", "b"}
  BY <1>3, <1>7
<1>9. t.status \in {tests[k].status, "significant", "inconclusive"}
  BY <1>4, <1>7
<1>10. Becomes(k, t)
  BY <1>2, <1>6, <1>7 DEF Becomes
<1> QED
  BY <1>1, <1>7, <1>8, <1>9, <1>10

\* The end of a request leaves the others open.
LEMMA TestEnds ==
  ASSUME ArmInv, NEW s \in Sessions, X!End(s)
  PROVE  /\ tx' = [q \in Sessions |-> tx'[q]]
         /\ \A q \in Sessions : tx'[q] = IF q = s THEN X!Idle ELSE tx[q]
<1>1. tx = [q \in Sessions |-> tx[q]]
  BY DEF ArmInv
<1> QED
  BY <1>1 DEF X!End

LEMMA ArmWrites ==
  ASSUME ArmInv, NEW k, NEW t, Becomes(k, t), UNCHANGED <<group, assigned, sent>>,
         tx' = [q \in Sessions |-> tx'[q]],
         \A q \in Sessions : tx'[q] = tx[q] \/ tx'[q] = X!Idle,
         Untouched(k, tests[k], assigned, tx, sent) =>
           t.winner = tests[k].winner /\ t.split = tests[k].split
  PROVE  ArmInv'
<1>1. k \in DOMAIN tests /\ TestRow(t) /\ tests' = [tests EXCEPT ![k] = t]
  BY DEF Becomes
<1>2. /\ tests' = [i \in DOMAIN tests |-> tests'[i]] /\ Len(tests') = Len(tests)
      /\ \A i \in DOMAIN tests : tests'[i] = (IF i = k THEN t ELSE tests[i]) /\ TestRow(tests'[i])
  BY <1>1, TestsWritten
<1>3. \A i \in DOMAIN tests :
        Untouched(i, tests[i], assigned, tx, sent) =>
          tests'[i].winner = tests[i].winner /\ tests'[i].split = tests[i].split
  BY <1>2
<1>4. GroupsKnown(group', DOMAIN tests)
  BY DEF ArmInv
<1> QED
  BY <1>2, <1>3, <1>4, ArmTests

LEMMA ArmCommits ==
  ASSUME ArmInv, NEW s \in Sessions,
         X!CommitLaunch(s) \/ X!CommitStop(s) \/ X!CommitEvaluate(s) \/ X!CommitPromote(s)
  PROVE  ArmInv'
<1>1. UNCHANGED <<group, assigned, sent>> /\ X!End(s)
  BY DEF X!CommitLaunch, X!CommitStop, X!CommitEvaluate, X!CommitPromote
<1>2. /\ tx' = [q \in Sessions |-> tx'[q]]
      /\ \A q \in Sessions : tx'[q] = tx[q] \/ tx'[q] = X!Idle
  BY <1>1, TestEnds
<1>3. PICK k : k = tx[s].test
  OBVIOUS
<1>4. CASE X!CommitLaunch(s) \/ X!CommitStop(s)
  <2>1. PICK t : Becomes(k, t) /\ t.winner = tests[k].winner /\ t.split = tests[k].split
    BY <1>3, <1>4, StatusBecomes
  <2> QED
    BY <1>1, <1>2, <2>1, ArmWrites
<1>5. CASE X!CommitEvaluate(s)
  <2>1. PICK t : /\ Becomes(k, t) /\ t.split = tests[k].split
                 /\ t.winner = tests[k].winner \/ tx[s].decision \in {"a", "b"}
    BY <1>3, <1>5, VerdictBecomes
  <2>2. Untouched(k, tests[k], assigned, tx, sent) => tx[s].decision \notin {"a", "b"}
    BY <1>3, <1>5 DEF Untouched, X!CommitEvaluate
  <2> QED
    BY <1>1, <1>2, <2>1, <2>2, ArmWrites
<1>6. CASE X!CommitPromote(s)
  <2>1. PICK t : Becomes(k, t)
    BY <1>3, <1>6, SplitBecomes
  <2>2. ~Untouched(k, tests[k], assigned, tx, sent)
    BY <1>3, <1>6 DEF Untouched, X!CommitPromote
  <2> QED
    BY <1>1, <1>2, <2>1, <2>2, ArmWrites
<1> QED
  BY <1>4, <1>5, <1>6

LEMMA ArmQuiet ==
  ASSUME ArmInv,
         \/ \E v \in X!Variants : X!Approve(v) \/ X!Engage(v)
         \/ UNCHANGED X!vars
  PROVE  ArmInv'
<1>1. UNCHANGED <<tests, group, assigned, sent, tx>>
  BY DEF X!Approve, X!Engage, X!vars
<1> QED
  BY <1>1 DEF ArmInv

LEMMA ArmClock ==
  ASSUME ArmInv, NEW k \in DOMAIN tests, X!TimePasses(k)
  PROVE  ArmInv'
<1>1. PICK t : Becomes(k, t) /\ t.split = tests[k].split /\ t.winner = tests[k].winner
  BY ClockBecomes
<1>2. UNCHANGED <<group, assigned, sent, tx>>
  BY DEF X!TimePasses
<1>3. tx' = [q \in Sessions |-> tx'[q]] /\ \A q \in Sessions : tx'[q] = tx[q]
  BY <1>2 DEF ArmInv
<1> QED
  BY <1>1, <1>2, <1>3, ArmWrites

\* A request that fails, and one that adds a variant.
LEMMA ArmEnds ==
  ASSUME ArmInv, NEW s \in Sessions, X!Rollback(s) \/ X!CommitAddVariant(s)
  PROVE  ArmInv'
<1>1. UNCHANGED <<tests, assigned, sent>> /\ X!End(s)
  BY DEF X!Rollback, X!CommitAddVariant
<1>2. tests' = [i \in DOMAIN tests |-> tests'[i]] /\ \A i \in DOMAIN tests : TestRow(tests'[i])
  BY <1>1 DEF ArmInv
<1>3. GroupsKnown(group', DOMAIN tests)
  <2>1. GroupsKnown(group, DOMAIN tests)
    BY DEF ArmInv
  <2>2. CASE X!Rollback(s)
    BY <2>1, <2>2 DEF X!Rollback
  <2>3. CASE X!CommitAddVariant(s)
    <3>1. PICK v \in X!Variants : group' = [group EXCEPT ![v] = tx[s].test]
      BY <2>3 DEF X!CommitAddVariant
    <3>2. tx[s].test \in DOMAIN tests
      BY <2>3 DEF X!CommitAddVariant, ArmInv, TestTxRead
    <3>3. PICK k : k = tx[s].test
      OBVIOUS
    <3>4. group' = [group EXCEPT ![v] = k] /\ k \in DOMAIN tests
      BY <3>1, <3>2, <3>3
    <3> QED
      BY <2>1, <3>4 DEF GroupsKnown
  <2> QED
    BY <2>2, <2>3
<1>4. tx' = [q \in Sessions |-> tx'[q]] /\ \A q \in Sessions : tx'[q] = tx[q] \/ tx'[q] = X!Idle
  BY <1>1, TestEnds
<1> QED
  BY <1>1, <1>2, <1>3, <1>4, ArmTests

\* What is read stays read when tests and assignments are added.
LEMMA TestReadStays ==
  ASSUME NEW t, NEW ids, NEW rows, TestTxRead(t, ids, rows),
         NEW ids2, NEW rows2, ids \subseteq ids2, rows \subseteq rows2
  PROVE  TestTxRead(t, ids2, rows2)
<1>1. DispatchRead(t, ids, rows) => DispatchRead(t, ids2, rows2)
  <2> SUFFICES ASSUME DispatchRead(t, ids, rows) PROVE DispatchRead(t, ids2, rows2)
    OBVIOUS
  <2>1. DispatchRow(t)
    BY DEF DispatchRead
  <2>2. /\ t.test \in ids2 \cup {0} /\ (t.test = 0 => t.split = <<>>)
        /\ t.todo \subseteq Recipients /\ (t.mailed => t.todo = {})
        /\ \A u \in t.fresh : u = <<t.test, u[2], u[3]>>
    BY DEF DispatchRead
  <2>3. CASE t.split = <<>>
    <3>1. t.fresh = {}
      BY <2>3 DEF DispatchRead
    <3> QED
      BY <2>1, <2>2, <2>3, <3>1 DEF DispatchRead
  <2>4. CASE t.split # <<>>
    <3>1. \A r \in Recipients \ t.todo : \E u \in rows2 \cup t.fresh : u[1] = t.test /\ u[2] = r
      BY <2>4 DEF DispatchRead
    <3>2. \A r \in t.kept : <<t.test, r, t.variant>> \in rows2 \cup t.fresh
      BY <2>4 DEF DispatchRead
    <3> QED
      BY <2>1, <2>2, <2>4, <3>1, <3>2 DEF DispatchRead
  <2> QED
    BY <2>3, <2>4
<1> QED
  BY <1>1 DEF TestTxRead

\* z is q, of m rows, with e after them.
OneLonger(z, q, m, e) ==
  /\ z = [i \in 1..(m + 1) |-> z[i]] /\ Len(z) = m + 1
  /\ z[m + 1] = e /\ \A i \in 1..m : z[i] = q[i]

LEMMA AppendIsLonger ==
  ASSUME NEW q, NEW m \in Nat, DOMAIN q = 1..m, q = [i \in DOMAIN q |-> q[i]], NEW e
  PROVE  OneLonger(Append(q, e), q, m, e)
<1>1. q \in Seq({q[i] : i \in 1..m} \cup {e})
  BY SMT
<1>2. Len(q) = m
  BY <1>1, SMT
<1>3. PICK z : z = Append(q, e)
  OBVIOUS
<1>4. z \in Seq({q[i] : i \in 1..m} \cup {e}) /\ Len(z) = m + 1
  BY <1>1, <1>2, <1>3, SMTT(20)
<1>5. z[m + 1] = e
  BY <1>1, <1>2, <1>3, SMTT(20)
<1>6. \A i \in 1..m : z[i] = q[i]
  BY <1>1, <1>2, <1>3, SMTT(20)
<1>7. z = [i \in 1..(m + 1) |-> z[i]]
  BY <1>4, SMT
<1> QED
  BY <1>3, <1>4, <1>5, <1>6, <1>7 DEF OneLonger

\* One more test: nobody has heard of it.
LEMMA ArmCreate ==
  ASSUME ArmInv, NEW s \in Sessions, X!CommitCreate(s)
  PROVE  ArmInv'
<1>1. PICK new : new = X!NewTest(tx[s].a, tx[s].b, tx[s].split)
  OBVIOUS
<1>2. PICK n : n = Len(tests)
  OBVIOUS
<1>3. tests' = Append(tests, new) /\ UNCHANGED <<assigned, sent>> /\ X!End(s)
  BY <1>1 DEF X!CommitCreate
<1>4. n \in Nat /\ DOMAIN tests = 1..n /\ tests = [i \in DOMAIN tests |-> tests[i]]
  BY <1>2 DEF ArmInv
<1>5. /\ tests' = [i \in 1..(n + 1) |-> tests'[i]] /\ Len(tests') = n + 1
      /\ tests'[n + 1] = new /\ \A i \in 1..n : tests'[i] = tests[i]
  <2>1. PICK q : q = tests
    OBVIOUS
  <2>2. DOMAIN q = 1..n /\ q = [i \in DOMAIN q |-> q[i]] /\ tests' = Append(q, new)
    BY <1>3, <1>4, <2>1
  <2>3. OneLonger(tests', q, n, new)
    BY <1>4, <2>2, AppendIsLonger
  <2> QED
    BY <2>1, <2>3 DEF OneLonger
<1>6. PICK k : k = n + 1
  OBVIOUS
<1>7. k \in Nat /\ 1..k = 1..n \cup {k} /\ k \notin 1..n /\ k # 0
  BY <1>4, <1>6, SMT
<1>8. DOMAIN tests' = DOMAIN tests \cup {k} /\ k \notin DOMAIN tests
  BY <1>4, <1>5, <1>6, <1>7
<1>9. tx' = [q \in Sessions |-> tx'[q]] /\ \A q \in Sessions : tx'[q] = tx[q] \/ tx'[q] = X!Idle
  BY <1>3, TestEnds
<1>10. \A q \in Sessions : TestTxRead(tx'[q], DOMAIN tests, assigned)
  BY <1>9, NoTestIdle DEF ArmInv, TestTxRead
<1>11. TestRow(new) /\ new.winner = 0
  <2>1. ASSUME NEW a, NEW b, NEW c
        PROVE  X!NewTest(a, b, c).winner = 0 /\ TestRow(X!NewTest(a, b, c))
    BY SMT DEF X!NewTest, TestRow
  <2> QED
    BY <1>1, <2>1
<1>12. \A i \in DOMAIN tests :
         Settled(i, assigned, tx', sent) \/ Untouched(i, tests[i], assigned, tx', sent)
  <2> SUFFICES ASSUME NEW i \in DOMAIN tests
               PROVE  Settled(i, assigned, tx', sent) \/ Untouched(i, tests[i], assigned, tx', sent)
    OBVIOUS
  <2>1. \A r, v : Says(i, r, v, assigned, tx', sent) => Says(i, r, v, assigned, tx, sent)
    BY <1>9, NoTestIdle DEF Says
  <2>2. CASE Settled(i, assigned, tx, sent)
    BY <2>1, <2>2, SettledStays
  <2>3. CASE Untouched(i, tests[i], assigned, tx, sent)
    <3>1. \A q \in Sessions :
            /\ tx'[q].kind = "promote" => tx'[q].test # i
            /\ tx'[q].kind = "evaluate" /\ tx'[q].test = i => tx'[q].decision \notin {"a", "b"}
            /\ tx'[q].kind = "dispatch" /\ tx'[q].test = i => tx'[q].split = tests[i].split
      BY <1>9, <2>3, NoTestIdle DEF Untouched
    <3>2. PICK w : w = tests[i].split
      OBVIOUS
    <3>3. \A r, v : Says(i, r, v, assigned, tx', sent) => v = X!PickVariant(r, w)
      BY <2>1, <2>3, <3>2 DEF Untouched
    <3>4. (\A u \in assigned : u[1] # i) /\ tests[i].winner = 0
      BY <2>3 DEF Untouched
    <3>5. Untouched(i, tests[i], assigned, tx', sent)
      BY <3>1, <3>2, <3>3, <3>4 DEF Untouched
    <3> QED
      BY <3>5
  <2> QED
    BY <2>2, <2>3 DEF ArmInv
<1>13. Untouched(k, new, assigned, tx', sent)
  <2>1. \A u \in assigned : u[1] # k
    BY <1>8 DEF ArmInv
  <2>2. \A q \in Sessions : tx'[q].kind \in {"promote", "evaluate", "dispatch"} => tx'[q].test # k
    <3> SUFFICES ASSUME NEW q \in Sessions, tx'[q].kind \in {"promote", "evaluate", "dispatch"}
                 PROVE  tx'[q].test # k
      OBVIOUS
    <3>1. TestTxRead(tx'[q], DOMAIN tests, assigned)
      BY <1>10
    <3>2. tx'[q].test \in DOMAIN tests \cup {0}
      <4>1. CASE tx'[q].kind = "dispatch"
        BY <3>1, <4>1 DEF TestTxRead, DispatchRead
      <4>2. CASE tx'[q].kind # "dispatch"
        BY <3>1, <4>2 DEF TestTxRead
      <4> QED
        BY <4>1, <4>2
    <3> QED
      BY <1>7, <1>8, <3>2
  <2>3. \A r, v : ~Says(k, r, v, assigned, tx', sent)
    <3> SUFFICES ASSUME NEW r, NEW v PROVE ~Says(k, r, v, assigned, tx', sent)
      OBVIOUS
    <3>0. <<k, r, v>>[1] = k /\ <<r, v, k>>[3] = k
      OBVIOUS
    <3>1. <<k, r, v>> \notin assigned
      BY <2>1, <3>0
    <3>2. <<r, v, k>> \notin sent
      BY <1>7, <1>8, <3>0 DEF ArmInv
    <3>3. ASSUME NEW q \in Sessions, tx'[q].kind = "dispatch" PROVE <<k, r, v>> \notin tx'[q].fresh
      <4>1. tx'[q].test # k
        BY <2>2, <3>3
      <4>2. \A u \in tx'[q].fresh : u = <<tx'[q].test, u[2], u[3]>>
        BY <1>10, <3>3 DEF TestTxRead, DispatchRead
      <4>3. \A a, b, c : <<a, b, c>>[1] = a
        OBVIOUS
      <4> QED
        BY <4>1, <4>2, <4>3
    <3> QED
      BY <3>1, <3>2, <3>3 DEF Says
  <2> QED
    BY <1>11, <2>1, <2>2, <2>3 DEF Untouched
<1>14. \A i \in DOMAIN tests' :
         /\ TestRow(tests'[i])
         /\ Settled(i, assigned, tx', sent) \/ Untouched(i, tests'[i], assigned, tx', sent)
  <2>1. \A i \in DOMAIN tests : tests'[i] = tests[i] /\ TestRow(tests[i])
    BY <1>4, <1>5 DEF ArmInv
  <2>2. tests'[k] = new
    BY <1>5, <1>6
  <2> QED
    BY <1>8, <1>11, <1>12, <1>13, <2>1, <2>2
<1>15. \A q \in Sessions : TestTxRead(tx'[q], DOMAIN tests', assigned)
  BY <1>8, <1>10, TestReadStays
<1>16. GroupsKnown(group', DOMAIN tests')
  <2>1. group' = [v \in X!Variants |-> IF v \in {tx[s].a, tx[s].b} THEN k ELSE group[v]]
    BY <1>2, <1>6 DEF X!CommitCreate
  <2> QED
    BY <1>8, <2>1 DEF GroupsKnown, ArmInv
<1>17. Len(tests') \in Nat /\ DOMAIN tests' = 1..Len(tests') /\ tests' = [i \in DOMAIN tests' |-> tests'[i]]
  BY <1>5, <1>6, <1>7
<1>18. /\ \A u \in assigned' : u = <<u[1], u[2], u[3]>> /\ u[1] \in DOMAIN tests'
       /\ \A m \in sent' : m = <<m[1], m[2], m[3]>> /\ m[3] \in DOMAIN tests' \cup {0}
  BY <1>3, <1>8 DEF ArmInv
<1> QED
  BY <1>3, <1>9, <1>14, <1>15, <1>16, <1>17, <1>18 DEF ArmInv
\* A dispatch that is through with one more recipient.
Through(t, todo, fresh, kept) == [t EXCEPT !.todo = todo, !.fresh = fresh, !.kept = kept]
ThroughAll(t, todo, kept) == [t EXCEPT !.todo = todo, !.kept = kept]

SameDispatch(t, u, todo, fresh, kept) ==
  /\ DispatchRow(u) /\ u.variant = t.variant /\ u.test = t.test /\ u.split = t.split
  /\ u.todo = todo /\ u.fresh = fresh /\ u.kept = kept /\ u.mailed = t.mailed

LEMMA ThroughWritten ==
  \A t, a, b, c : DispatchRow(t) => SameDispatch(t, Through(t, a, b, c), a, b, c)
<1> SUFFICES ASSUME NEW t, DispatchRow(t), NEW a, NEW b, NEW c
             PROVE  SameDispatch(t, Through(t, a, b, c), a, b, c)
  OBVIOUS
<1> DEFINE u == [t EXCEPT !.todo = a, !.fresh = b, !.kept = c]
<1>1. t = [f \in {"kind", "variant", "test", "split", "todo", "kept", "fresh", "mailed"} |-> t[f]]
  BY DEF DispatchRow
<1>2. DispatchRow(u)
  <2>1. u = [f \in {"kind", "variant", "test", "split", "todo", "kept", "fresh", "mailed"} |-> u[f]]
    BY <1>1
  <2>2. u.kind = "dispatch"
    BY <1>1 DEF DispatchRow
  <2> HIDE DEF u
  <2> QED
    BY <2>1, <2>2 DEF DispatchRow
<1>3. u.variant = t.variant /\ u.test = t.test
  BY <1>1
<1>4. u.split = t.split /\ u.mailed = t.mailed
  BY <1>1
<1>5. u.todo = a /\ u.fresh = b /\ u.kept = c
  BY <1>1
<1>6. u = Through(t, a, b, c)
  BY DEF Through
<1> HIDE DEF u
<1> QED
  BY <1>2, <1>3, <1>4, <1>5, <1>6 DEF SameDispatch

LEMMA ThroughAllWritten ==
  \A t, a, c : DispatchRow(t) => SameDispatch(t, ThroughAll(t, a, c), a, t.fresh, c)
<1> SUFFICES ASSUME NEW t, DispatchRow(t), NEW a, NEW c
             PROVE  SameDispatch(t, ThroughAll(t, a, c), a, t.fresh, c)
  OBVIOUS
<1> DEFINE u == [t EXCEPT !.todo = a, !.kept = c]
<1>1. t = [f \in {"kind", "variant", "test", "split", "todo", "kept", "fresh", "mailed"} |-> t[f]]
  BY DEF DispatchRow
<1>2. DispatchRow(u)
  <2>1. u = [f \in {"kind", "variant", "test", "split", "todo", "kept", "fresh", "mailed"} |-> u[f]]
    BY <1>1
  <2>2. u.kind = "dispatch"
    BY <1>1 DEF DispatchRow
  <2> HIDE DEF u
  <2> QED
    BY <2>1, <2>2 DEF DispatchRow
<1>3. u.variant = t.variant /\ u.test = t.test
  BY <1>1
<1>4. u.split = t.split /\ u.mailed = t.mailed
  BY <1>1
<1>5. u.todo = a /\ u.fresh = t.fresh /\ u.kept = c
  BY <1>1
<1>6. u = ThroughAll(t, a, c)
  BY DEF ThroughAll
<1> HIDE DEF u
<1> QED
  BY <1>2, <1>3, <1>4, <1>5, <1>6 DEF SameDispatch

\* Who r is assigned to in rows and fresh, and what a dispatch t then makes of r.
Taken(t, r, rows) == {u[3] : u \in {x \in rows \cup t.fresh : x[1] = t.test /\ x[2] = r}}

Judged(t, r, w, fresh, kept, rows) ==
  \/ t.split = <<>> /\ fresh = t.fresh
  \/ /\ t.split # <<>> /\ Taken(t, r, rows) # {} /\ fresh = t.fresh
     /\ \A x \in kept : x \in t.kept \/ (x = r /\ t.variant \in Taken(t, r, rows))
  \/ /\ t.split # <<>> /\ Taken(t, r, rows) = {} /\ w = X!PickVariant(r, t.split)
     /\ fresh = t.fresh \cup {<<t.test, r, w>>}
     /\ \A x \in kept : x \in t.kept \/ (x = r /\ t.variant = w)

LEMMA AssignIs ==
  ASSUME ArmInv, NEW s \in Sessions, X!AssignVariant(s)
  PROVE  \E r \in tx[s].todo : \E w, fresh, kept, u :
           /\ Judged(tx[s], r, w, fresh, kept, assigned)
           /\ SameDispatch(tx[s], u, tx[s].todo \ {r}, fresh, kept)
           /\ tx' = [tx EXCEPT ![s] = u]
<1>1. PICK t : t = tx[s]
  OBVIOUS
<1>2. DispatchRow(t)
  BY <1>1 DEF ArmInv, TestTxRead, DispatchRead, X!AssignVariant
<1>5. \A r : X!Existing(s, r) = Taken(t, r, assigned)
  BY <1>1 DEF X!Existing, Taken
<1>6. PICK r \in tx[s].todo :
        LET row == tx[s]
            had == X!Existing(s, r)
            variant == IF had = {} THEN X!PickVariant(r, row.split)
                       ELSE CHOOSE v \in had : TRUE
        IN  IF row.split = <<>>
            THEN tx' = [tx EXCEPT ![s].todo = @ \ {r}, ![s].kept = @ \cup {r}]
            ELSE /\ had = {} => \A o \in X!Open \ {s} : tx[o].kind = "dispatch" =>
                                    <<row.test, r>> \notin {<<u[1], u[2]>> : u \in tx[o].fresh}
                 /\ tx' = [tx EXCEPT ![s] =
                      [row EXCEPT !.todo = @ \ {r},
                                  !.fresh = IF had = {} THEN @ \cup {<<row.test, r, variant>>} ELSE @,
                                  !.kept = IF variant = row.variant THEN @ \cup {r} ELSE @]]
  BY DEF X!AssignVariant
<1>7. CASE t.split = <<>>
  <2>1. PICK u : u = ThroughAll(t, t.todo \ {r}, t.kept \cup {r})
    OBVIOUS
  <2>2. tx' = [tx EXCEPT ![s] = u]
    BY <1>1, <1>6, <1>7, <2>1 DEF ThroughAll
  <2>3. Judged(t, r, 0, t.fresh, t.kept \cup {r}, assigned)
    BY <1>7 DEF Judged
  <2>4. SameDispatch(t, u, t.todo \ {r}, t.fresh, t.kept \cup {r})
    BY <1>2, <2>1, ThroughAllWritten
  <2> QED
    BY <1>1, <2>2, <2>3, <2>4
<1>8. CASE t.split # <<>>
  <2>1. PICK had : had = Taken(t, r, assigned) /\ had = X!Existing(s, r)
    BY <1>5
  <2>2. PICK w : w = IF X!Existing(s, r) = {} THEN X!PickVariant(r, tx[s].split)
                     ELSE CHOOSE v \in X!Existing(s, r) : TRUE
    OBVIOUS
  <2>3. PICK fresh : fresh = IF had = {} THEN t.fresh \cup {<<t.test, r, w>>} ELSE t.fresh
    OBVIOUS
  <2>4. PICK kept : kept = IF w = t.variant THEN t.kept \cup {r} ELSE t.kept
    OBVIOUS
  <2>5. tx' = [tx EXCEPT ![s] = Through(t, t.todo \ {r}, fresh, kept)]
    <3>1. tx' = [tx EXCEPT ![s] =
                   [t EXCEPT !.todo = t.todo \ {r},
                             !.fresh = IF had = {} THEN t.fresh \cup {<<t.test, r, w>>} ELSE t.fresh,
                             !.kept = IF w = t.variant THEN t.kept \cup {r} ELSE t.kept]]
      <4>1. tx[s].split # <<>>
        BY <1>1, <1>8
      <4>2. LET row == tx[s]
                old == X!Existing(s, r)
                variant == IF old = {} THEN X!PickVariant(r, row.split)
                           ELSE CHOOSE v \in old : TRUE
            IN  tx' = [tx EXCEPT ![s] =
                  [row EXCEPT !.todo = @ \ {r},
                              !.fresh = IF old = {} THEN @ \cup {<<row.test, r, variant>>} ELSE @,
                              !.kept = IF variant = row.variant THEN @ \cup {r} ELSE @]]
        BY <1>6, <4>1
      <4>4. tx' = [tx EXCEPT ![s] =
              [tx[s] EXCEPT !.todo = @ \ {r},
                            !.fresh = IF X!Existing(s, r) = {} THEN @ \cup {<<tx[s].test, r, w>>} ELSE @,
                            !.kept = IF w = tx[s].variant THEN @ \cup {r} ELSE @]]
        BY <2>2, <4>2
      <4> QED
        BY <1>1, <2>1, <4>4
    <3> QED
      BY <2>3, <2>4, <3>1 DEF Through
  <2>6. SameDispatch(t, Through(t, t.todo \ {r}, fresh, kept), t.todo \ {r}, fresh, kept)
    BY <1>2, ThroughWritten
  <2>7. had # {} => w \in had
    BY <2>1, <2>2
  <2>8. \A x \in kept : x \in t.kept \/ (x = r /\ t.variant = w)
    BY <2>4
  <2>9. Judged(t, r, w, fresh, kept, assigned)
    <3>1. CASE had = {}
      BY <1>1, <1>8, <2>1, <2>2, <2>3, <2>8, <3>1 DEF Judged
    <3>2. CASE had # {}
      BY <1>8, <2>1, <2>3, <2>7, <2>8, <3>2 DEF Judged
    <3> QED
      BY <3>1, <3>2
  <2> QED
    BY <1>1, <2>5, <2>6, <2>9
<1> QED
  BY <1>7, <1>8

\* One more recipient is assigned in the rows the dispatch sees, and kept only for its own variant.
LEMMA ThroughRead ==
  ASSUME NEW t, NEW ids, NEW rows, DispatchRead(t, ids, rows), NEW r \in t.todo, NEW w, NEW fresh,
         NEW kept, NEW u, Judged(t, r, w, fresh, kept, rows),
         SameDispatch(t, u, t.todo \ {r}, fresh, kept),
         \A x \in rows : x = <<x[1], x[2], x[3]>>
  PROVE  DispatchRead(u, ids, rows)
<1>1. DispatchRow(u) /\ u.test = t.test /\ u.split = t.split /\ u.variant = t.variant
  BY DEF SameDispatch
<1>2. u.todo = t.todo \ {r} /\ u.fresh = fresh /\ u.kept = kept /\ u.mailed = t.mailed
  BY DEF SameDispatch
<1>3. t.test \in ids \cup {0} /\ (t.test = 0 => t.split = <<>>)
  BY DEF DispatchRead
<1>4. t.todo \subseteq Recipients /\ ~t.mailed
  BY DEF DispatchRead
<1>5. \A x \in t.fresh : x = <<t.test, x[2], x[3]>>
  BY DEF DispatchRead
<1>6. CASE t.split = <<>>
  <2>1. t.fresh = {} /\ fresh = {}
    BY <1>6 DEF DispatchRead, Judged
  <2> QED
    BY <1>1, <1>2, <1>3, <1>4, <1>6, <2>1 DEF DispatchRead
<1>7. CASE t.split # <<>>
  <2>1. \A q \in Recipients \ t.todo : \E x \in rows \cup t.fresh : x[1] = t.test /\ x[2] = q
    BY <1>7 DEF DispatchRead
  <2>2. \A q \in t.kept : <<t.test, q, t.variant>> \in rows \cup t.fresh
    BY <1>7 DEF DispatchRead
  <2>3. /\ \A x \in fresh : x = <<t.test, x[2], x[3]>>
        /\ t.fresh \subseteq fresh
        /\ \E x \in rows \cup fresh : x[1] = t.test /\ x[2] = r
        /\ \A q \in kept : <<t.test, q, t.variant>> \in rows \cup fresh
    <3>1. CASE Taken(t, r, rows) # {}
      <4>1. fresh = t.fresh /\ \A q \in kept : q \in t.kept \/ (q = r /\ t.variant \in Taken(t, r, rows))
        BY <1>7, <3>1 DEF Judged
      <4>2. \E x \in rows \cup t.fresh : x[1] = t.test /\ x[2] = r
        BY <3>1 DEF Taken
      <4>3. t.variant \in Taken(t, r, rows) => <<t.test, r, t.variant>> \in rows \cup t.fresh
        <5> SUFFICES ASSUME t.variant \in Taken(t, r, rows) PROVE <<t.test, r, t.variant>> \in rows \cup t.fresh
          OBVIOUS
        <5>1. PICK x \in rows \cup t.fresh : x[1] = t.test /\ x[2] = r /\ x[3] = t.variant
          BY DEF Taken
        <5>2. x = <<x[1], x[2], x[3]>>
          BY <1>5, <5>1
        <5> QED
          BY <5>1, <5>2
      <4>4. \A q \in kept : <<t.test, q, t.variant>> \in rows \cup fresh
        BY <2>2, <4>1, <4>3
      <4> QED
        BY <1>5, <4>1, <4>2, <4>4
    <3>2. CASE Taken(t, r, rows) = {}
      <4>1. /\ fresh = t.fresh \cup {<<t.test, r, w>>}
            /\ \A q \in kept : q \in t.kept \/ (q = r /\ t.variant = w)
        BY <1>7, <3>2 DEF Judged
      <4>2. PICK e : e = <<t.test, r, w>>
        OBVIOUS
      <4>3. e[1] = t.test /\ e[2] = r /\ e[3] = w
        BY <4>2
      <4>4. e = <<t.test, e[2], e[3]>> /\ e \in fresh
        BY <4>1, <4>2, <4>3
      <4>5. \A x \in fresh : x \in t.fresh \/ x = e
        BY <4>1, <4>2
      <4>6. \A x \in fresh : x = <<t.test, x[2], x[3]>>
        BY <1>5, <4>4, <4>5
      <4>7. t.variant = w => <<t.test, r, t.variant>> \in fresh
        BY <4>1
      <4>8. \A q \in kept : <<t.test, q, t.variant>> \in rows \cup fresh
        BY <2>2, <4>1, <4>7
      <4> QED
        BY <4>1, <4>3, <4>4, <4>6, <4>8
    <3> QED
      BY <3>1, <3>2
  <2>4. \A q \in Recipients \ u.todo : \E x \in rows \cup u.fresh : x[1] = u.test /\ x[2] = q
    <3> SUFFICES ASSUME NEW q \in Recipients, q \notin u.todo
                 PROVE  \E x \in rows \cup u.fresh : x[1] = u.test /\ x[2] = q
      OBVIOUS
    <3>1. CASE q = r
      BY <1>1, <1>2, <2>3, <3>1
    <3>2. CASE q # r
      <4>1. PICK x \in rows \cup t.fresh : x[1] = t.test /\ x[2] = q
        BY <1>2, <2>1, <3>2
      <4>2. x \in rows \cup u.fresh
        BY <1>2, <2>3, <4>1
      <4> QED
        BY <1>1, <4>1, <4>2
    <3> QED
      BY <3>1, <3>2
  <2>5. \A q \in u.kept : <<u.test, q, u.variant>> \in rows \cup u.fresh
    BY <1>1, <1>2, <2>3
  <2>6. \A x \in u.fresh : x = <<u.test, x[2], x[3]>>
    BY <1>1, <1>2, <2>3
  <2>7. /\ u.test \in ids \cup {0} /\ (u.test = 0 => u.split = <<>>)
        /\ u.todo \subseteq Recipients /\ (u.mailed => u.todo = {})
    BY <1>1, <1>2, <1>3, <1>4
  <2> QED
    BY <1>1, <1>7, <2>4, <2>5, <2>6, <2>7 DEF DispatchRead
<1> QED
  BY <1>6, <1>7

LEMMA ArmAssign ==
  ASSUME ArmInv, NEW s \in Sessions, X!AssignVariant(s)
  PROVE  ArmInv'
<1>0. PICK r \in tx[s].todo : \E w, fresh, kept, u :
        /\ Judged(tx[s], r, w, fresh, kept, assigned)
        /\ SameDispatch(tx[s], u, tx[s].todo \ {r}, fresh, kept)
        /\ tx' = [tx EXCEPT ![s] = u]
  BY AssignIs
<1>1. PICK w, fresh, kept, u :
        /\ Judged(tx[s], r, w, fresh, kept, assigned)
        /\ SameDispatch(tx[s], u, tx[s].todo \ {r}, fresh, kept)
        /\ tx' = [tx EXCEPT ![s] = u]
  BY <1>0
<1>2. UNCHANGED <<tests, group, assigned, sent>> /\ tx[s].kind = "dispatch"
  BY DEF X!AssignVariant
<1>3. DispatchRead(tx[s], DOMAIN tests, assigned)
  BY <1>2 DEF ArmInv, TestTxRead
<1>4. \A x \in assigned : x = <<x[1], x[2], x[3]>>
  BY DEF ArmInv
<1>5. DispatchRead(u, DOMAIN tests, assigned)
  BY <1>0, <1>1, <1>3, <1>4, ThroughRead
<1>6. u.kind = "dispatch" /\ u.test = tx[s].test /\ u.split = tx[s].split /\ u.fresh = fresh
  BY <1>1 DEF SameDispatch, DispatchRow
<1>7. TestTxRead(u, DOMAIN tests, assigned)
  BY <1>5, <1>6 DEF TestTxRead
<1>8. \A i \in DOMAIN tests :
        Untouched(i, tests[i], assigned, tx, sent) => (u.test = i => u.split = tests[i].split)
  BY <1>2, <1>6 DEF Untouched
<1>9. CASE fresh = tx[s].fresh
  <2>1. \A i \in DOMAIN tests : \A q, v : <<i, q, v>> \in u.fresh => Says(i, q, v, assigned, tx, sent)
    BY <1>2, <1>6, <1>9 DEF Says
  <2> QED
    BY <1>1, <1>2, <1>6, <1>7, <1>8, <2>1, ArmTx
<1>10. CASE fresh # tx[s].fresh
  <2>1. PICK k : k = tx[s].test
    OBVIOUS
  <2>2. /\ Taken(tx[s], r, assigned) = {} /\ w = X!PickVariant(r, tx[s].split)
        /\ fresh = tx[s].fresh \cup {<<k, r, w>>}
    BY <1>1, <1>10, <2>1 DEF Judged
  <2>3. \A x \in assigned : x[1] = k => x[2] # r
    BY <2>1, <2>2 DEF Taken
  <2>4. r \in Recipients
    BY <1>0, <1>3 DEF DispatchRead
  <2>5. ~Settled(k, assigned, tx, sent)
    BY <2>3, <2>4 DEF Settled
  <2>6. \A q \in Sessions : tx'[q] = IF q = s THEN u ELSE tx[q]
    BY <1>1 DEF ArmInv
  <2>7. \A i, q, v : Says(i, q, v, assigned, tx', sent) =>
          Says(i, q, v, assigned, tx, sent) \/ (i = k /\ q = r /\ v = w)
    <3> SUFFICES ASSUME NEW i, NEW q, NEW v, Says(i, q, v, assigned, tx', sent),
                        ~Says(i, q, v, assigned, tx, sent)
                 PROVE  i = k /\ q = r /\ v = w
      OBVIOUS
    <3>1. PICK o \in Sessions : tx'[o].kind = "dispatch" /\ <<i, q, v>> \in tx'[o].fresh
      BY DEF Says
    <3>2. o = s /\ <<i, q, v>> \in fresh
      BY <1>6, <2>6, <3>1 DEF Says
    <3>3. <<i, q, v>> = <<k, r, w>>
      BY <1>2, <2>2, <3>2 DEF Says
    <3>4. \A a, b, c, d, e, f : <<a, b, c>> = <<d, e, f>> => a = d /\ b = e /\ c = f
      OBVIOUS
    <3> QED
      BY <3>3, <3>4
  <2>8. \A i \in DOMAIN tests :
          Settled(i, assigned, tx', sent) \/ Untouched(i, tests[i], assigned, tx', sent)
    <3> SUFFICES ASSUME NEW i \in DOMAIN tests
                 PROVE  Settled(i, assigned, tx', sent) \/ Untouched(i, tests[i], assigned, tx', sent)
      OBVIOUS
    <3>1. CASE Settled(i, assigned, tx, sent)
      <4>1. i # k
        BY <2>5, <3>1
      <4>2. \A q, v : Says(i, q, v, assigned, tx', sent) => Says(i, q, v, assigned, tx, sent)
        BY <2>7, <4>1
      <4> QED
        BY <3>1, <4>2, SettledStays
    <3>2. CASE Untouched(i, tests[i], assigned, tx, sent)
      <4>1. PICK p : p = tests[i].split
        OBVIOUS
      <4>2. \A q, v : Says(i, q, v, assigned, tx', sent) => v = X!PickVariant(q, p)
        <5>1. i = k => w = X!PickVariant(r, p)
          BY <1>6, <1>8, <2>1, <2>2, <3>2, <4>1
        <5>2. \A q, v : Says(i, q, v, assigned, tx, sent) => v = X!PickVariant(q, p)
          BY <3>2, <4>1 DEF Untouched
        <5>3. ASSUME NEW q, NEW v, Says(i, q, v, assigned, tx', sent)
              PROVE  v = X!PickVariant(q, p)
          <6>0. Says(i, q, v, assigned, tx, sent) \/ (i = k /\ q = r /\ v = w)
            BY <2>7, <5>3
          <6>1. CASE Says(i, q, v, assigned, tx, sent)
            BY <5>2, <6>1
          <6>2. CASE i = k /\ q = r /\ v = w
            BY <5>1, <6>2
          <6> QED
            BY <6>0, <6>1, <6>2
        <5> QED
          BY <5>3
      <4>3. (\A x \in assigned : x[1] # i) /\ tests[i].winner = 0
        BY <3>2 DEF Untouched
      <4>4. ASSUME NEW q \in Sessions
            PROVE  /\ tx'[q].kind = "promote" => tx'[q].test # i
                   /\ tx'[q].kind = "evaluate" /\ tx'[q].test = i => tx'[q].decision \notin {"a", "b"}
                   /\ tx'[q].kind = "dispatch" /\ tx'[q].test = i => tx'[q].split = tests[i].split
        <5>1. CASE q = s
          BY <1>6, <1>8, <2>6, <3>2, <5>1
        <5>2. CASE q # s
          BY <2>6, <3>2, <5>2 DEF Untouched
        <5> QED
          BY <5>1, <5>2
      <4>5. Untouched(i, tests[i], assigned, tx', sent)
        BY <4>1, <4>2, <4>3, <4>4 DEF Untouched
      <4> QED
        BY <4>5
    <3> QED
      BY <3>1, <3>2 DEF ArmInv
  <2>9. \A q \in Sessions : TestTxRead(tx'[q], DOMAIN tests, assigned)
    BY <1>7, <2>6 DEF ArmInv
  <2>10. tx' = [q \in Sessions |-> tx'[q]]
    BY <1>1 DEF ArmInv
  <2>11. \A i \in DOMAIN tests' :
           Settled(i, assigned', tx', sent') \/ Untouched(i, tests'[i], assigned', tx', sent')
    BY <1>2, <2>8
  <2>12. \A q \in Sessions : TestTxRead(tx'[q], DOMAIN tests', assigned')
    BY <1>2, <2>9
  <2> QED
    BY <1>2, <2>10, <2>11, <2>12 DEF ArmInv
<1> QED
  BY <1>9, <1>10

\* A dispatch whose mails have left.
Mailed(t) == [t EXCEPT !.mailed = TRUE]

LEMMA MailedWritten ==
  \A t : DispatchRow(t) =>
    /\ DispatchRow(Mailed(t)) /\ Mailed(t).variant = t.variant /\ Mailed(t).test = t.test
    /\ Mailed(t).split = t.split /\ Mailed(t).todo = t.todo /\ Mailed(t).fresh = t.fresh
    /\ Mailed(t).kept = t.kept
<1> SUFFICES ASSUME NEW t, DispatchRow(t)
             PROVE  /\ DispatchRow(Mailed(t)) /\ Mailed(t).variant = t.variant /\ Mailed(t).test = t.test
                    /\ Mailed(t).split = t.split /\ Mailed(t).todo = t.todo /\ Mailed(t).fresh = t.fresh
                    /\ Mailed(t).kept = t.kept
  OBVIOUS
<1> DEFINE u == [t EXCEPT !.mailed = TRUE]
<1>1. t = [f \in {"kind", "variant", "test", "split", "todo", "kept", "fresh", "mailed"} |-> t[f]]
  BY DEF DispatchRow
<1>2. DispatchRow(u)
  <2>1. u = [f \in {"kind", "variant", "test", "split", "todo", "kept", "fresh", "mailed"} |-> u[f]]
    BY <1>1
  <2>2. u.kind = "dispatch"
    BY <1>1 DEF DispatchRow
  <2> HIDE DEF u
  <2> QED
    BY <2>1, <2>2 DEF DispatchRow
<1>3. u.variant = t.variant /\ u.test = t.test
  BY <1>1
<1>4. u.split = t.split /\ u.todo = t.todo
  BY <1>1
<1>5. u.fresh = t.fresh /\ u.kept = t.kept
  BY <1>1
<1>6. u = Mailed(t)
  BY DEF Mailed
<1> HIDE DEF u
<1> QED
  BY <1>2, <1>3, <1>4, <1>5, <1>6

\* Zero is no test.
LEMMA NoTestZero == ASSUME ArmInv PROVE 0 \notin DOMAIN tests
<1>1. \A n \in Nat : 0 \notin 1..n
  BY SMT
<1> QED
  BY <1>1 DEF ArmInv

\* The mails say what the dispatch's assignments say.
LEMMA ArmSend ==
  ASSUME ArmInv, NEW s \in Sessions, X!Send(s)
  PROVE  ArmInv'
<1>1. PICK t : t = tx[s]
  OBVIOUS
<1>2. t.kind = "dispatch" /\ t.todo = {} /\ UNCHANGED <<tests, group, assigned>>
  BY <1>1 DEF X!Send
<1>3. DispatchRead(t, DOMAIN tests, assigned)
  BY <1>1, <1>2 DEF ArmInv, TestTxRead
<1>4. PICK k : k = IF t.split = <<>> THEN 0 ELSE t.test
  OBVIOUS
<1>5. sent' = sent \cup {<<r, t.variant, k>> : r \in t.kept}
  BY <1>1, <1>4 DEF X!Send, X!KeptOf
<1>6. PICK u : u = Mailed(t)
  OBVIOUS
<1>7. tx' = [tx EXCEPT ![s] = u]
  BY <1>1, <1>6 DEF X!Send, Mailed
<1>8. /\ DispatchRow(u) /\ u.variant = t.variant /\ u.test = t.test /\ u.split = t.split
      /\ u.todo = t.todo /\ u.fresh = t.fresh /\ u.kept = t.kept
  BY <1>3, <1>6, MailedWritten DEF DispatchRead
<1>9. u.kind = "dispatch"
  BY <1>8 DEF DispatchRow
<1>10. DispatchRead(u, DOMAIN tests, assigned)
  <2>1. /\ u.test \in DOMAIN tests \cup {0} /\ (u.test = 0 => u.split = <<>>)
        /\ u.todo \subseteq Recipients /\ (u.mailed => u.todo = {})
    BY <1>2, <1>3, <1>8 DEF DispatchRead
  <2>2. \A x \in u.fresh : x = <<u.test, x[2], x[3]>>
    BY <1>3, <1>8 DEF DispatchRead
  <2>3. CASE t.split = <<>>
    <3>1. u.fresh = {} /\ u.split = <<>>
      BY <1>3, <1>8, <2>3 DEF DispatchRead
    <3> QED
      BY <1>8, <2>1, <2>2, <3>1 DEF DispatchRead
  <2>4. CASE t.split # <<>>
    <3>1. \A r \in Recipients \ u.todo : \E x \in assigned \cup u.fresh : x[1] = u.test /\ x[2] = r
      <4>1. \A r \in Recipients \ t.todo : \E x \in assigned \cup t.fresh : x[1] = t.test /\ x[2] = r
        BY <1>3, <2>4 DEF DispatchRead
      <4>2. u.todo = t.todo /\ u.fresh = t.fresh /\ u.test = t.test
        BY <1>8
      <4> QED
        BY <4>1, <4>2
    <3>2. \A r \in u.kept : <<u.test, r, u.variant>> \in assigned \cup u.fresh
      BY <1>3, <1>8, <2>4 DEF DispatchRead
    <3> QED
      BY <1>8, <2>1, <2>2, <2>4, <3>1, <3>2 DEF DispatchRead
  <2> QED
    BY <2>3, <2>4
<1>11. tx' = [q \in Sessions |-> tx'[q]] /\ \A q \in Sessions : tx'[q] = IF q = s THEN u ELSE tx[q]
  BY <1>7 DEF ArmInv
<1>12. \A q \in Sessions : TestTxRead(tx'[q], DOMAIN tests, assigned')
  <2>1. TestTxRead(u, DOMAIN tests, assigned)
    BY <1>9, <1>10 DEF TestTxRead
  <2> QED
    BY <1>2, <1>11, <2>1 DEF ArmInv
<1>13. k \in DOMAIN tests \cup {0}
  BY <1>3, <1>4 DEF DispatchRead
<1>14. \A m \in sent' : m = <<m[1], m[2], m[3]>> /\ m[3] \in DOMAIN tests \cup {0}
  <2>1. \A r : LET m == <<r, t.variant, k>> IN m = <<m[1], m[2], m[3]>> /\ m[3] = k
    OBVIOUS
  <2>2. \A m \in sent : m = <<m[1], m[2], m[3]>> /\ m[3] \in DOMAIN tests \cup {0}
    BY DEF ArmInv
  <2> SUFFICES ASSUME NEW m \in sent' PROVE m = <<m[1], m[2], m[3]>> /\ m[3] \in DOMAIN tests \cup {0}
    OBVIOUS
  <2>3. CASE m \in sent
    BY <2>2, <2>3
  <2>4. CASE m \notin sent
    <3>1. PICK r : m = <<r, t.variant, k>>
      BY <1>5, <2>4
    <3>2. m = <<m[1], m[2], m[3]>> /\ m[3] = k
      BY <2>1, <3>1
    <3> QED
      BY <1>13, <3>2
  <2> QED
    BY <2>3, <2>4
<1>15. \A i \in DOMAIN tests :
         \A r, v : Says(i, r, v, assigned', tx', sent') => Says(i, r, v, assigned, tx, sent)
  <2> SUFFICES ASSUME NEW i \in DOMAIN tests, NEW r, NEW v, Says(i, r, v, assigned', tx', sent')
               PROVE  Says(i, r, v, assigned, tx, sent)
    OBVIOUS
  <2>1. CASE <<i, r, v>> \in assigned'
    BY <1>2, <2>1 DEF Says
  <2>2. CASE \E q \in Sessions : tx'[q].kind = "dispatch" /\ <<i, r, v>> \in tx'[q].fresh
    <3>1. PICK q \in Sessions : tx'[q].kind = "dispatch" /\ <<i, r, v>> \in tx'[q].fresh
      BY <2>2
    <3>2. tx[q].kind = "dispatch" /\ <<i, r, v>> \in tx[q].fresh
      BY <1>1, <1>2, <1>8, <1>11, <3>1
    <3> QED
      BY <3>2 DEF Says
  <2>3. CASE <<r, v, i>> \in sent'
    <3>1. CASE <<r, v, i>> \in sent
      BY <3>1 DEF Says
    <3>2. CASE <<r, v, i>> \notin sent
      <4>1. PICK x \in t.kept : <<r, v, i>> = <<x, t.variant, k>>
        BY <1>5, <2>3, <3>2
      <4>2. \A a, b, c, d, e, f : <<a, b, c>> = <<d, e, f>> => a = d /\ b = e /\ c = f
        OBVIOUS
      <4>3. r \in t.kept /\ v = t.variant /\ i = k
        BY <4>1, <4>2
      <4>4. t.split # <<>> /\ i = t.test
        BY <1>4, <4>3, NoTestZero
      <4>5. <<i, r, v>> \in assigned \cup t.fresh
        BY <1>3, <4>3, <4>4 DEF DispatchRead
      <4> QED
        BY <1>1, <1>2, <4>5 DEF Says
    <3> QED
      BY <3>1, <3>2
  <2> QED
    BY <2>1, <2>2, <2>3 DEF Says
<1>16. ASSUME NEW i \in DOMAIN tests, Untouched(i, tests[i], assigned, tx, sent)
       PROVE  /\ \A x \in assigned' : x[1] # i
              /\ tests'[i].winner = 0 /\ tests'[i].split = tests[i].split
              /\ \A q \in Sessions :
                   /\ tx'[q].kind = "promote" => tx'[q].test # i
                   /\ tx'[q].kind = "evaluate" /\ tx'[q].test = i => tx'[q].decision \notin {"a", "b"}
                   /\ tx'[q].kind = "dispatch" /\ tx'[q].test = i => tx'[q].split = tests[i].split
  <2>1. (\A x \in assigned' : x[1] # i) /\ tests'[i].winner = 0 /\ tests'[i].split = tests[i].split
    BY <1>2, <1>16 DEF Untouched
  <2>2. ASSUME NEW q \in Sessions
        PROVE  /\ tx'[q].kind = "promote" => tx'[q].test # i
               /\ tx'[q].kind = "evaluate" /\ tx'[q].test = i => tx'[q].decision \notin {"a", "b"}
               /\ tx'[q].kind = "dispatch" /\ tx'[q].test = i => tx'[q].split = tests[i].split
    <3>1. CASE q = s
      <4>1. t.test = i => t.split = tests[i].split
        BY <1>1, <1>2, <1>16 DEF Untouched
      <4>2. tx'[q] = u
        BY <1>11, <3>1
      <4> QED
        BY <1>8, <1>9, <4>1, <4>2
    <3>2. CASE q # s
      BY <1>11, <1>16, <3>2 DEF Untouched
    <3> QED
      BY <3>1, <3>2
  <2> QED
    BY <2>1, <2>2
<1>17. /\ tests' = [i \in DOMAIN tests |-> tests'[i]] /\ Len(tests') = Len(tests)
       /\ \A i \in DOMAIN tests : TestRow(tests'[i])
  BY <1>2 DEF ArmInv
<1>18. /\ GroupsKnown(group', DOMAIN tests) /\ assigned \subseteq assigned'
       /\ \A x \in assigned' : x = <<x[1], x[2], x[3]>> /\ x[1] \in DOMAIN tests
  BY <1>2 DEF ArmInv
<1> QED
  BY <1>11, <1>12, <1>14, <1>15, <1>16, <1>17, <1>18, ArmSaid

\* The assignments become visible: of all recipients at once, if there were none.
LEMMA ArmCommitDispatch ==
  ASSUME ArmInv, NEW s \in Sessions, X!CommitDispatch(s)
  PROVE  ArmInv'
<1>1. PICK t : t = tx[s]
  OBVIOUS
<1>2. t.kind = "dispatch" /\ t.mailed /\ UNCHANGED <<tests, group, sent>> /\ X!End(s)
  BY <1>1 DEF X!CommitDispatch
<1>3. assigned' = assigned \cup t.fresh
  BY <1>1 DEF X!CommitDispatch
<1>4. DispatchRead(t, DOMAIN tests, assigned)
  BY <1>1, <1>2 DEF ArmInv, TestTxRead
<1>5. tx' = [q \in Sessions |-> tx'[q]] /\ \A q \in Sessions : tx'[q] = tx[q] \/ tx'[q] = X!Idle
  BY <1>2, TestEnds
<1>6. \A q \in Sessions : TestTxRead(tx'[q], DOMAIN tests, assigned')
  <2>1. \A q \in Sessions : TestTxRead(tx'[q], DOMAIN tests, assigned)
    BY <1>5, NoTestIdle DEF ArmInv, TestTxRead
  <2>2. assigned \subseteq assigned' /\ DOMAIN tests \subseteq DOMAIN tests
    BY <1>3
  <2> QED
    BY <2>1, <2>2, TestReadStays
<1>7. \A x \in t.fresh : x = <<t.test, x[2], x[3]>> /\ x[1] = t.test
  <2>1. \A x \in t.fresh : x = <<t.test, x[2], x[3]>>
    BY <1>4 DEF DispatchRead
  <2>3. ASSUME NEW x \in t.fresh PROVE x[1] = t.test
    <3>1. PICK a, b, c : a = t.test /\ b = x[2] /\ c = x[3]
      OBVIOUS
    <3>2. x = <<a, b, c>>
      BY <2>1, <3>1
    <3>3. <<a, b, c>>[1] = a
      OBVIOUS
    <3>4. x[1] = a
      BY <3>2, <3>3
    <3> QED
      BY <3>1, <3>4
  <2> QED
    BY <2>1, <2>3
<1>8. t.fresh # {} => t.test \in DOMAIN tests /\ t.split # <<>>
  BY <1>4 DEF DispatchRead
<1>9. \A x \in assigned' : x = <<x[1], x[2], x[3]>> /\ x[1] \in DOMAIN tests
  <2> SUFFICES ASSUME NEW x \in assigned' PROVE x = <<x[1], x[2], x[3]>> /\ x[1] \in DOMAIN tests
    OBVIOUS
  <2>1. CASE x \in assigned
    BY <2>1 DEF ArmInv
  <2>2. CASE x \in t.fresh
    <3>1. x = <<t.test, x[2], x[3]>> /\ x[1] = t.test /\ t.test \in DOMAIN tests
      BY <1>7, <1>8, <2>2
    <3> QED
      BY <3>1
  <2> QED
    BY <1>3, <2>1, <2>2
<1>10. \A i \in DOMAIN tests :
         \A r, v : Says(i, r, v, assigned', tx', sent') => Says(i, r, v, assigned, tx, sent)
  <2> SUFFICES ASSUME NEW i, NEW r, NEW v, Says(i, r, v, assigned', tx', sent')
               PROVE  Says(i, r, v, assigned, tx, sent)
    OBVIOUS
  <2>1. CASE <<i, r, v>> \in assigned'
    BY <1>1, <1>2, <1>3, <2>1 DEF Says
  <2>2. CASE \E q \in Sessions : tx'[q].kind = "dispatch" /\ <<i, r, v>> \in tx'[q].fresh
    BY <1>5, <2>2, NoTestIdle DEF Says
  <2>3. CASE <<r, v, i>> \in sent'
    BY <1>2, <2>3 DEF Says
  <2> QED
    BY <2>1, <2>2, <2>3 DEF Says
<1>11. ASSUME NEW i \in DOMAIN tests, Untouched(i, tests[i], assigned, tx, sent)
       PROVE  \/ \A r \in Recipients : \E x \in assigned' : x[1] = i /\ x[2] = r
              \/ /\ \A x \in assigned' : x[1] # i
                 /\ tests'[i].winner = 0 /\ tests'[i].split = tests[i].split
                 /\ \A q \in Sessions :
                      /\ tx'[q].kind = "promote" => tx'[q].test # i
                      /\ tx'[q].kind = "evaluate" /\ tx'[q].test = i => tx'[q].decision \notin {"a", "b"}
                      /\ tx'[q].kind = "dispatch" /\ tx'[q].test = i => tx'[q].split = tests[i].split
  <2>1. CASE t.test = i /\ t.split # <<>>
    <3>1. \A r \in Recipients \ t.todo : \E x \in assigned \cup t.fresh : x[1] = t.test /\ x[2] = r
      BY <1>4, <2>1 DEF DispatchRead
    <3>2. t.todo = {}
      BY <1>2, <1>4 DEF DispatchRead
    <3> QED
      BY <1>3, <2>1, <3>1, <3>2
  <2>2. CASE ~(t.test = i /\ t.split # <<>>)
    <3>1. \A x \in t.fresh : x[1] # i
      BY <1>7, <1>8, <2>2
    <3>2. \A x \in assigned' : x[1] # i
      BY <1>3, <1>11, <3>1 DEF Untouched
    <3>3. tests'[i].winner = 0 /\ tests'[i].split = tests[i].split
      BY <1>2, <1>11 DEF Untouched
    <3>4. ASSUME NEW q \in Sessions
          PROVE  /\ tx'[q].kind = "promote" => tx'[q].test # i
                 /\ tx'[q].kind = "evaluate" /\ tx'[q].test = i => tx'[q].decision \notin {"a", "b"}
                 /\ tx'[q].kind = "dispatch" /\ tx'[q].test = i => tx'[q].split = tests[i].split
      <4>1. CASE tx'[q] = tx[q]
        BY <1>11, <4>1 DEF Untouched
      <4>2. CASE tx'[q] = X!Idle
        BY <4>2, NoTestIdle
      <4> QED
        BY <1>5, <4>1, <4>2
    <3> QED
      BY <3>2, <3>3, <3>4
  <2> QED
    BY <2>1, <2>2
<1>12. /\ tests' = [i \in DOMAIN tests |-> tests'[i]] /\ Len(tests') = Len(tests)
       /\ \A i \in DOMAIN tests : TestRow(tests'[i])
  BY <1>2 DEF ArmInv
<1>13. /\ GroupsKnown(group', DOMAIN tests) /\ assigned \subseteq assigned'
       /\ \A m \in sent' : m = <<m[1], m[2], m[3]>> /\ m[3] \in DOMAIN tests \cup {0}
  BY <1>2, <1>3 DEF ArmInv
<1> QED
  BY <1>5, <1>6, <1>9, <1>10, <1>11, <1>12, <1>13, ArmSaid

LEMMA ArmInit == ASSUME X!Init PROVE ArmInv
<1>1. PICK e : tests = <<e>> /\ \E split, b :
        e = [X!NewTest(1, 2, split) EXCEPT !.status = IF b THEN "running" ELSE @]
  BY DEF X!Init
<1>2. TestRow(e) /\ e.winner = 0
  <2>1. PICK split, b : e = [X!NewTest(1, 2, split) EXCEPT !.status = IF b THEN "running" ELSE @]
    BY <1>1
  <2>2. PICK row : row = X!NewTest(1, 2, split)
    OBVIOUS
  <2>3. TestRow(row) /\ row.winner = 0
    BY <2>2, SMT DEF X!NewTest, TestRow
  <2>4. PICK z : z = IF b THEN "running" ELSE row.status
    OBVIOUS
  <2>5. e = [row EXCEPT !.status = z]
    BY <2>1, <2>2, <2>4
  <2> QED
    BY <2>3, <2>5, StatusWritten
<1>3. Len(tests) = 1 /\ DOMAIN tests = 1..1 /\ tests = [i \in 1..1 |-> tests[i]] /\ tests[1] = e
  BY <1>1, SMT
<1>4. 1 \in Nat /\ 1..1 = {1}
  BY SMT
<1>5. DOMAIN tests = {1} /\ Len(tests) \in Nat /\ DOMAIN tests = 1..Len(tests)
  BY <1>3, <1>4
<1>6. assigned = {} /\ sent = {} /\ tx = [s \in Sessions |-> X!Idle]
  BY DEF X!Init
<1>7. \A s \in Sessions : tx[s].kind = "none"
  BY <1>6, NoTestIdle
<1>8. GroupsKnown(group, DOMAIN tests)
  <2>1. group = [v \in X!Variants |-> IF v <= 2 THEN 1 ELSE 0]
    BY DEF X!Init
  <2> QED
    BY <1>5, <2>1 DEF GroupsKnown
<1>9. Untouched(1, e, assigned, tx, sent)
  BY <1>2, <1>6, <1>7 DEF Untouched, Says
<1>10. \A s \in Sessions : TestTxRead(tx[s], DOMAIN tests, assigned)
  BY <1>7 DEF TestTxRead
<1>11. tests = [i \in DOMAIN tests |-> tests[i]] /\ \A i \in DOMAIN tests : TestRow(tests[i])
  BY <1>2, <1>3, <1>5
<1>12. \A i \in DOMAIN tests : Settled(i, assigned, tx, sent) \/ Untouched(i, tests[i], assigned, tx, sent)
  BY <1>3, <1>5, <1>9
<1> QED
  BY <1>5, <1>6, <1>8, <1>10, <1>11, <1>12 DEF ArmInv

LEMMA ArmStep == ASSUME ArmInv, X!Next \/ UNCHANGED X!vars PROVE ArmInv'
<1>1. CASE UNCHANGED X!vars \/ \E v \in X!Variants : X!Approve(v) \/ X!Engage(v)
  BY <1>1, ArmQuiet
<1>2. CASE \E i \in DOMAIN tests : X!TimePasses(i)
  BY <1>2, ArmClock
<1>3. ASSUME NEW s \in Sessions,
             \/ X!LoadAddVariant(s) \/ X!CommitAddVariant(s) \/ X!LoadCreate(s) \/ X!CommitCreate(s)
             \/ X!LoadLaunch(s) \/ X!CommitLaunch(s) \/ X!LoadStop(s) \/ X!CommitStop(s)
             \/ X!LoadEvaluate(s) \/ X!CommitEvaluate(s) \/ X!LoadPromote(s) \/ X!CommitPromote(s)
             \/ X!LoadDispatch(s) \/ X!AssignVariant(s) \/ X!Send(s) \/ X!CommitDispatch(s)
             \/ X!Rollback(s)
      PROVE  ArmInv'
  <2>1. CASE X!LoadAddVariant(s) \/ X!LoadCreate(s) \/ X!LoadLaunch(s) \/ X!LoadStop(s)
    BY <2>1, ArmLoads
  <2>2. CASE X!LoadEvaluate(s) \/ X!LoadPromote(s) \/ X!LoadDispatch(s)
    BY <2>2, ArmLoadEvaluate, ArmLoadPromote, ArmLoadDispatch
  <2>3. CASE X!CommitLaunch(s) \/ X!CommitStop(s) \/ X!CommitEvaluate(s) \/ X!CommitPromote(s)
    BY <2>3, ArmCommits
  <2>4. CASE X!CommitAddVariant(s) \/ X!Rollback(s)
    BY <2>4, ArmEnds
  <2>5. CASE X!CommitCreate(s)
    BY <2>5, ArmCreate
  <2>6. CASE X!AssignVariant(s) \/ X!Send(s) \/ X!CommitDispatch(s)
    BY <2>6, ArmAssign, ArmSend, ArmCommitDispatch
  <2> QED
    BY <1>3, <2>1, <2>2, <2>3, <2>4, <2>5, <2>6
<1> QED
  BY <1>1, <1>2, <1>3 DEF X!Next

\* The mails of one test give a recipient one variant.
LEMMA ArmIsOne == ASSUME ArmInv PROVE X!OneArm
<1> SUFFICES ASSUME NEW m \in sent, NEW k \in sent, m[3] # 0, m[1] = k[1], m[3] = k[3]
             PROVE  m[2] = k[2]
  BY DEF X!OneArm
<1>1. PICK i : i = m[3]
  OBVIOUS
<1>2. m = <<m[1], m[2], m[3]>> /\ k = <<k[1], k[2], k[3]>> /\ i \in DOMAIN tests
  BY <1>1 DEF ArmInv
<1>3. PICK r, v, w : r = m[1] /\ v = m[2] /\ w = k[2]
  OBVIOUS
<1>4. <<r, v, i>> \in sent /\ <<r, w, i>> \in sent
  BY <1>1, <1>2, <1>3
<1>5. Says(i, r, v, assigned, tx, sent) /\ Says(i, r, w, assigned, tx, sent)
  BY <1>4 DEF Says
<1>6. CASE Settled(i, assigned, tx, sent)
  BY <1>3, <1>5, <1>6 DEF Settled
<1>7. CASE Untouched(i, tests[i], assigned, tx, sent)
  BY <1>3, <1>5, <1>7 DEF Untouched
<1> QED
  BY <1>2, <1>6, <1>7 DEF ArmInv

-----------------------------------------------------------------------------
(***************************************************************************)
(* The steps that write no row of ab_test, and the rows the others write.  *)
(***************************************************************************)
TestsUntouched(s) ==
  \/ X!LoadAddVariant(s) \/ X!CommitAddVariant(s) \/ X!LoadCreate(s) \/ X!LoadLaunch(s)
  \/ X!LoadStop(s) \/ X!LoadEvaluate(s) \/ X!LoadPromote(s) \/ X!LoadDispatch(s)
  \/ X!AssignVariant(s) \/ X!Send(s) \/ X!CommitDispatch(s) \/ X!Rollback(s)

LEMMA TestsSame ==
  ASSUME \/ UNCHANGED X!vars \/ \E v \in X!Variants : X!Approve(v) \/ X!Engage(v)
         \/ \E s \in Sessions : TestsUntouched(s)
  PROVE  tests' = tests
<1>1. CASE UNCHANGED X!vars \/ \E v \in X!Variants : X!Approve(v) \/ X!Engage(v)
  BY <1>1 DEF X!vars, X!Approve, X!Engage
<1>2. ASSUME NEW s \in Sessions, TestsUntouched(s) PROVE tests' = tests
  <2>1. CASE X!LoadAddVariant(s) \/ X!CommitAddVariant(s) \/ X!LoadCreate(s) \/ X!LoadLaunch(s)
    BY <2>1 DEF X!LoadAddVariant, X!CommitAddVariant, X!LoadCreate, X!LoadLaunch
  <2>2. CASE X!LoadStop(s) \/ X!LoadEvaluate(s) \/ X!LoadPromote(s) \/ X!LoadDispatch(s)
    BY <2>2 DEF X!LoadStop, X!LoadEvaluate, X!LoadPromote, X!LoadDispatch
  <2>3. CASE X!AssignVariant(s) \/ X!Send(s) \/ X!CommitDispatch(s) \/ X!Rollback(s)
    BY <2>3 DEF X!AssignVariant, X!Send, X!CommitDispatch, X!Rollback
  <2> QED
    BY <1>2, <2>1, <2>2, <2>3 DEF TestsUntouched
<1> QED
  BY <1>1, <1>2

\* A step of the component, by what it does to the rows.
LEMMA TestSteps ==
  ASSUME X!Next \/ UNCHANGED X!vars
  PROVE  \/ tests' = tests
         \/ \E k \in DOMAIN tests : X!TimePasses(k)
         \/ \E s \in Sessions : \/ X!CommitCreate(s) \/ X!CommitLaunch(s) \/ X!CommitStop(s)
                                \/ X!CommitEvaluate(s) \/ X!CommitPromote(s)
  BY TestsSame DEF X!Next, TestsUntouched

\* The rows after one was written, and after one more was.
LEMMA OneRowWritten ==
  ASSUME ArmInv, NEW k, NEW t, Becomes(k, t)
  PROVE  /\ k \in DOMAIN tests /\ DOMAIN tests' = DOMAIN tests /\ t.a = tests[k].a
         /\ \A i \in DOMAIN tests : tests'[i] = IF i = k THEN t ELSE tests[i]
<1>1. k \in DOMAIN tests /\ TestRow(t) /\ tests' = [tests EXCEPT ![k] = t] /\ t.a = tests[k].a
  BY DEF Becomes
<1>2. /\ tests' = [i \in DOMAIN tests |-> tests'[i]]
      /\ \A i \in DOMAIN tests : tests'[i] = (IF i = k THEN t ELSE tests[i])
  BY <1>1, TestsWritten
<1>3. DOMAIN tests' = DOMAIN tests
  BY <1>2
<1> QED
  BY <1>1, <1>2, <1>3

LEMMA OneRowMore ==
  ASSUME ArmInv, NEW s \in Sessions, X!CommitCreate(s)
  PROVE  \E n : /\ DOMAIN tests' = DOMAIN tests \cup {n} /\ n \notin DOMAIN tests
                /\ tests'[n].a = tx[s].a
                /\ \A i \in DOMAIN tests : tests'[i] = tests[i]
<1>1. PICK new : new = X!NewTest(tx[s].a, tx[s].b, tx[s].split)
  OBVIOUS
<1>2. new.a = tx[s].a
  <2>1. \A a, b, c : X!NewTest(a, b, c).a = a
    BY SMT DEF X!NewTest
  <2> QED
    BY <1>1, <2>1
<1>3. PICK m, q : m = Len(tests) /\ q = tests
  OBVIOUS
<1>4. m \in Nat /\ DOMAIN q = 1..m /\ q = [i \in DOMAIN q |-> q[i]] /\ tests' = Append(q, new)
  BY <1>1, <1>3 DEF ArmInv, X!CommitCreate
<1>5. OneLonger(tests', q, m, new)
  BY <1>4, AppendIsLonger
<1>6. PICK n : n = m + 1
  OBVIOUS
<1>7. 1..n = 1..m \cup {n} /\ n \notin 1..m
  BY <1>4, <1>6, SMT
<1>8. DOMAIN tests' = 1..n /\ tests'[n] = new /\ \A i \in 1..m : tests'[i] = q[i]
  BY <1>5, <1>6 DEF OneLonger
<1>9. DOMAIN tests = 1..m /\ \A i \in DOMAIN tests : tests'[i] = tests[i]
  BY <1>3, <1>4, <1>8
<1>10. DOMAIN tests' = DOMAIN tests \cup {n} /\ n \notin DOMAIN tests /\ tests'[n].a = tx[s].a
  BY <1>2, <1>7, <1>8, <1>9
<1> QED
  BY <1>9, <1>10

\* A row may become active when no other row of its first variant is.
LEMMA FamilyWritten ==
  ASSUME ArmInv, X!OneActiveTest, NEW k, NEW t, Becomes(k, t),
         t.status \in X!Active => tests[k].status \in X!Active \/ X!FamilyFree(tests[k].a, k)
  PROVE  X!OneActiveTest'
<1>1. /\ k \in DOMAIN tests /\ DOMAIN tests' = DOMAIN tests /\ t.a = tests[k].a
      /\ \A i \in DOMAIN tests : tests'[i] = IF i = k THEN t ELSE tests[i]
  BY OneRowWritten
<1>2. \A i, j \in DOMAIN tests :
        tests[i].a = tests[j].a /\ tests[i].status \in X!Active /\ tests[j].status \in X!Active => i = j
  BY DEF X!OneActiveTest
<1>3. \A j \in DOMAIN tests : j # k /\ t.status \in X!Active /\ t.a = tests[j].a => tests[j].status \notin X!Active
  <2> SUFFICES ASSUME NEW j \in DOMAIN tests, j # k, t.status \in X!Active, t.a = tests[j].a,
                      tests[j].status \in X!Active
               PROVE  FALSE
    OBVIOUS
  <2>1. CASE tests[k].status \in X!Active
    BY <1>1, <1>2, <2>1
  <2>2. CASE X!FamilyFree(tests[k].a, k)
    BY <1>1, <2>2 DEF X!FamilyFree
  <2> QED
    BY <2>1, <2>2
<1> SUFFICES ASSUME NEW i \in DOMAIN tests, NEW j \in DOMAIN tests, tests'[i].a = tests'[j].a,
                    tests'[i].status \in X!Active, tests'[j].status \in X!Active
             PROVE  i = j
  BY <1>1 DEF X!OneActiveTest
<1>4. CASE i = k /\ j # k
  BY <1>1, <1>3, <1>4
<1>5. CASE i # k /\ j = k
  BY <1>1, <1>3, <1>5
<1>6. CASE i # k /\ j # k
  BY <1>1, <1>2, <1>6
<1> QED
  BY <1>4, <1>5, <1>6

LEMMA FamilyStep ==
  ASSUME ArmInv, X!OneActiveTest, X!Next \/ UNCHANGED X!vars
  PROVE  X!OneActiveTest'
<1>0. "stopped" \notin X!Active /\ "significant" \notin X!Active /\ "inconclusive" \notin X!Active
  BY DEF X!Active
<1>1. CASE tests' = tests
  BY <1>1 DEF X!OneActiveTest
<1>2. ASSUME NEW k \in DOMAIN tests, X!TimePasses(k) PROVE X!OneActiveTest'
  <2>1. PICK t : Becomes(k, t) /\ t.status = tests[k].status
    BY <1>2, ClockBecomes
  <2> QED
    BY <2>1, FamilyWritten
<1>3. ASSUME NEW s \in Sessions, X!CommitLaunch(s) \/ X!CommitStop(s) PROVE X!OneActiveTest'
  <2>1. PICK k : k = tx[s].test
    OBVIOUS
  <2>2. PICK t : Becomes(k, t) /\ t.status = IF tx[s].kind = "launch" THEN "running" ELSE "stopped"
    BY <1>3, <2>1, StatusBecomes
  <2>3. tx[s].kind = "launch" => X!FamilyFree(tests[k].a, k)
    BY <1>3, <2>1 DEF X!CommitLaunch, X!CommitStop
  <2> QED
    BY <1>0, <2>2, <2>3, FamilyWritten
<1>4. ASSUME NEW s \in Sessions, X!CommitEvaluate(s) PROVE X!OneActiveTest'
  <2>1. PICK k : k = tx[s].test
    OBVIOUS
  <2>2. PICK t : Becomes(k, t) /\ t.status \in {tests[k].status, "significant", "inconclusive"}
    BY <1>4, <2>1, VerdictBecomes
  <2>3. t.status \in X!Active => tests[k].status \in X!Active
    BY <1>0, <2>2
  <2> QED
    BY <2>2, <2>3, FamilyWritten
<1>5. ASSUME NEW s \in Sessions, X!CommitPromote(s) PROVE X!OneActiveTest'
  <2>1. PICK k : k = tx[s].test
    OBVIOUS
  <2>2. PICK t : Becomes(k, t) /\ t.status = tests[k].status
    BY <1>5, <2>1, SplitBecomes
  <2> QED
    BY <2>2, FamilyWritten
<1>6. ASSUME NEW s \in Sessions, X!CommitCreate(s) PROVE X!OneActiveTest'
  <2>1. PICK n : /\ DOMAIN tests' = DOMAIN tests \cup {n} /\ n \notin DOMAIN tests
                 /\ tests'[n].a = tx[s].a
                 /\ \A i \in DOMAIN tests : tests'[i] = tests[i]
    BY <1>6, OneRowMore
  <2>2. X!FamilyFree(tx[s].a, 0)
    BY <1>6 DEF X!CommitCreate
  <2>3. \A i \in DOMAIN tests : tests[i].a = tests'[n].a => tests[i].status \notin X!Active
    BY <2>1, <2>2, NoTestZero DEF X!FamilyFree
  <2>4. \A i, j \in DOMAIN tests :
          tests[i].a = tests[j].a /\ tests[i].status \in X!Active /\ tests[j].status \in X!Active => i = j
    BY DEF X!OneActiveTest
  <2> SUFFICES ASSUME NEW i \in DOMAIN tests', NEW j \in DOMAIN tests', tests'[i].a = tests'[j].a,
                      tests'[i].status \in X!Active, tests'[j].status \in X!Active
               PROVE  i = j
    BY DEF X!OneActiveTest
  <2>5. CASE i \in DOMAIN tests /\ j \in DOMAIN tests
    BY <2>1, <2>4, <2>5
  <2>6. CASE i = n /\ j \in DOMAIN tests
    BY <2>1, <2>3, <2>6
  <2>7. CASE j = n /\ i \in DOMAIN tests
    BY <2>1, <2>3, <2>7
  <2> QED
    BY <2>1, <2>5, <2>6, <2>7
<1> QED
  BY <1>1, <1>2, <1>3, <1>4, <1>5, <1>6, TestSteps

LEMMA FamilyInit == ASSUME X!Init PROVE X!OneActiveTest
<1>1. PICK e : tests = <<e>>
  BY DEF X!Init
<1>2. DOMAIN tests = {1}
  BY <1>1, SMT
<1> QED
  BY <1>2 DEF X!OneActiveTest

-----------------------------------------------------------------------------
(***************************************************************************)
(* While requests do not overlap, what a request read is so when it acts.  *)
(***************************************************************************)
LEMMA IdleCurrent == \A table, assets : Current(X!Idle, table, assets)
  BY NoTestIdle DEF Current

LEMMA SerialBegins ==
  ASSUME ArmInv, raced \/ TestSerial, NEW s \in Sessions, NEW t, X!Begin(s, t),
         UNCHANGED <<tests, asset>>, Current(t, tests, asset)
  PROVE  raced' \/ TestSerial'
<1> SUFFICES ASSUME ~raced' PROVE TestSerial'
  OBVIOUS
<1>1. \A q \in Sessions : tx[q] = X!Idle
  BY DEF X!Begin, X!Open
<1>2. \A q \in Sessions : tx'[q] = IF q = s THEN t ELSE tx[q]
  BY DEF X!Begin, ArmInv
<1>3. \A q, o \in Sessions : tx'[q] # X!Idle /\ tx'[o] # X!Idle => q = o
  BY <1>1, <1>2
<1>4. \A q \in Sessions : Current(tx'[q], tests', asset')
  BY <1>1, <1>2, IdleCurrent
<1> QED
  BY <1>3, <1>4 DEF TestSerial

LEMMA SerialEnds ==
  ASSUME ArmInv, raced \/ TestSerial, NEW s \in Sessions, tx[s] # X!Idle, X!End(s), raced' = raced
  PROVE  raced' \/ TestSerial'
<1> SUFFICES ASSUME ~raced PROVE TestSerial'
  OBVIOUS
<1>1. \A q \in Sessions : q # s => tx[q] = X!Idle
  BY DEF TestSerial
<1>2. \A q \in Sessions : tx'[q] = X!Idle
  BY <1>1, TestEnds
<1> QED
  BY <1>2, IdleCurrent DEF TestSerial

\* A dispatch goes on.
LEMMA SerialGoesOn ==
  ASSUME ArmInv, raced \/ TestSerial, NEW s \in Sessions, X!AssignVariant(s) \/ X!Send(s)
  PROVE  raced' \/ TestSerial'
<1>1. tx[s].kind = "dispatch" /\ UNCHANGED <<tests, asset, raced>>
  BY DEF X!AssignVariant, X!Send
<1>2. PICK u : tx' = [tx EXCEPT ![s] = u] /\ u.kind = "dispatch"
  <2>1. CASE X!AssignVariant(s)
    <3>1. PICK u, a, b, c : SameDispatch(tx[s], u, a, b, c) /\ tx' = [tx EXCEPT ![s] = u]
      BY <2>1, AssignIs
    <3> QED
      BY <3>1 DEF SameDispatch, DispatchRow
  <2>2. CASE X!Send(s)
    <3>1. DispatchRow(tx[s])
      BY <1>1 DEF ArmInv, TestTxRead, DispatchRead
    <3>2. DispatchRow(Mailed(tx[s]))
      BY <3>1, MailedWritten
    <3>3. tx' = [tx EXCEPT ![s] = Mailed(tx[s])]
      BY <2>2 DEF X!Send, Mailed
    <3> QED
      BY <3>2, <3>3 DEF DispatchRow
  <2> QED
    BY <2>1, <2>2
<1> SUFFICES ASSUME ~raced PROVE TestSerial'
  BY <1>1
<1>3. tx[s] # X!Idle
  BY <1>1, NoTestIdle
<1>4. \A q \in Sessions : q # s => tx[q] = X!Idle
  BY <1>3 DEF TestSerial
<1>5. \A q \in Sessions : tx'[q] = IF q = s THEN u ELSE tx[q]
  BY <1>2 DEF ArmInv
<1>6. Current(u, tests', asset')
  BY <1>2 DEF Current
<1>7. \A q \in Sessions : Current(tx'[q], tests', asset')
  BY <1>4, <1>5, <1>6, IdleCurrent
<1>8. \A q, o \in Sessions : tx'[q] # X!Idle /\ tx'[o] # X!Idle => q = o
  BY <1>4, <1>5
<1> QED
  BY <1>7, <1>8 DEF TestSerial

\* The request is open that commits.
LEMMA CommitsAreOpen ==
  ASSUME NEW s \in Sessions,
         \/ X!CommitAddVariant(s) \/ X!CommitCreate(s) \/ X!CommitLaunch(s) \/ X!CommitStop(s)
         \/ X!CommitEvaluate(s) \/ X!CommitPromote(s) \/ X!CommitDispatch(s) \/ X!Rollback(s)
  PROVE  tx[s] # X!Idle /\ X!End(s) /\ raced' = raced
<1>1. \A x \in {"add", "create", "launch", "stop", "evaluate", "promote", "dispatch"} :
        tx[s].kind = x => tx[s] # X!Idle
  BY NoTestIdle
<1>2. CASE X!CommitAddVariant(s) \/ X!CommitCreate(s) \/ X!CommitLaunch(s) \/ X!CommitStop(s)
  BY <1>1, <1>2 DEF X!CommitAddVariant, X!CommitCreate, X!CommitLaunch, X!CommitStop
<1>3. CASE X!CommitEvaluate(s) \/ X!CommitPromote(s) \/ X!CommitDispatch(s) \/ X!Rollback(s)
  BY <1>1, <1>3 DEF X!CommitEvaluate, X!CommitPromote, X!CommitDispatch, X!Rollback
<1> QED
  BY <1>2, <1>3

\* What each request reads is so when it begins.
LEMMA SerialLoads ==
  ASSUME ArmInv, raced \/ TestSerial, NEW s \in Sessions,
         \/ X!LoadAddVariant(s) \/ X!LoadCreate(s) \/ X!LoadLaunch(s) \/ X!LoadStop(s)
         \/ X!LoadEvaluate(s) \/ X!LoadPromote(s) \/ X!LoadDispatch(s)
  PROVE  raced' \/ TestSerial'
<1>1. ASSUME NEW t, X!Begin(s, t), Current(t, tests, asset), UNCHANGED <<tests, asset>>
      PROVE  raced' \/ TestSerial'
  BY <1>1, SerialBegins
<1>2. CASE X!LoadAddVariant(s)
  <2>1. PICK i : X!Begin(s, [kind |-> "add", test |-> i])
    BY <1>2 DEF X!LoadAddVariant
  <2>2. PICK t : t = [kind |-> "add", test |-> i]
    OBVIOUS
  <2>3. t.kind = "add"
    BY <2>2, SMT
  <2>4. Current(t, tests, asset)
    BY <2>3 DEF Current
  <2> QED
    BY <1>1, <1>2, <2>1, <2>2, <2>4 DEF X!LoadAddVariant
<1>3. CASE X!LoadCreate(s)
  <2>1. PICK a, b, w : X!Begin(s, [kind |-> "create", a |-> a, b |-> b, split |-> w])
    BY <1>3 DEF X!LoadCreate
  <2>2. PICK t : t = [kind |-> "create", a |-> a, b |-> b, split |-> w]
    OBVIOUS
  <2>3. t.kind = "create"
    BY <2>2, SMT
  <2>4. Current(t, tests, asset)
    BY <2>3 DEF Current
  <2> QED
    BY <1>1, <1>3, <2>1, <2>2, <2>4 DEF X!LoadCreate
<1>4. CASE X!LoadLaunch(s)
  <2>1. PICK i : tests[i].status = "designing" /\ X!Begin(s, [kind |-> "launch", test |-> i])
    BY <1>4 DEF X!LoadLaunch
  <2>2. PICK t : t = [kind |-> "launch", test |-> i]
    OBVIOUS
  <2>3. t.kind = "launch" /\ t.test = i
    BY <2>2, SMT
  <2>4. Current(t, tests, asset)
    BY <2>1, <2>3 DEF Current
  <2> QED
    BY <1>1, <1>4, <2>1, <2>2, <2>4 DEF X!LoadLaunch
<1>5. CASE X!LoadStop(s)
  <2>1. PICK i : tests[i].status \in X!Active /\ X!Begin(s, [kind |-> "stop", test |-> i])
    BY <1>5 DEF X!LoadStop
  <2>2. PICK t : t = [kind |-> "stop", test |-> i]
    OBVIOUS
  <2>3. t.kind = "stop" /\ t.test = i
    BY <2>2, SMT
  <2>4. Current(t, tests, asset)
    BY <2>1, <2>3 DEF Current
  <2> QED
    BY <1>1, <1>5, <2>1, <2>2, <2>4 DEF X!LoadStop
<1>6. CASE X!LoadEvaluate(s)
  <2>1. PICK i : /\ X!Judge(i) \notin {"skipped", "raises"}
                 /\ X!Begin(s, [kind |-> "evaluate", test |-> i, decision |-> X!Judge(i),
                                expired |-> tests[i].expired])
    BY <1>6 DEF X!LoadEvaluate
  <2>2. tests[i].status = "running"
    BY <2>1 DEF X!Judge
  <2>3. PICK d, e : d = X!Judge(i) /\ e = tests[i].expired
    OBVIOUS
  <2>4. PICK t : t = [kind |-> "evaluate", test |-> i, decision |-> d, expired |-> e]
    OBVIOUS
  <2>5. t.kind = "evaluate" /\ t.test = i
    BY <2>4, SMT
  <2>6. Current(t, tests, asset)
    BY <2>2, <2>5 DEF Current
  <2>7. X!Begin(s, t)
    BY <2>1, <2>3, <2>4
  <2> QED
    BY <1>1, <1>6, <2>6, <2>7 DEF X!LoadEvaluate
<1>7. CASE X!LoadPromote(s)
  <2>1. PICK i : X!Begin(s, [kind |-> "promote", test |-> i, winner |-> tests[i].winner, losers |-> X!Losers(i)])
    BY <1>7 DEF X!LoadPromote
  <2>2. PICK d, e : d = tests[i].winner /\ e = X!Losers(i)
    OBVIOUS
  <2>3. PICK t : t = [kind |-> "promote", test |-> i, winner |-> d, losers |-> e]
    OBVIOUS
  <2>4. t.kind = "promote" /\ t.losers = e
    BY <2>3, SMT
  <2>5. \A v \in e : asset[v] # "published"
    BY <2>2 DEF X!Losers
  <2>6. Current(t, tests, asset)
    BY <2>4, <2>5 DEF Current
  <2>7. X!Begin(s, t)
    BY <2>1, <2>2, <2>3
  <2> QED
    BY <1>1, <1>7, <2>6, <2>7 DEF X!LoadPromote
<1>8. CASE X!LoadDispatch(s)
  <2>1. PICK v, i, w :
          X!Begin(s, [kind |-> "dispatch", variant |-> v, test |-> i, split |-> w, todo |-> Recipients,
                      kept |-> {}, fresh |-> {}, mailed |-> FALSE])
    BY <1>8 DEF X!LoadDispatch
  <2>2. PICK t : t = [kind |-> "dispatch", variant |-> v, test |-> i, split |-> w, todo |-> Recipients,
                      kept |-> {}, fresh |-> {}, mailed |-> FALSE]
    OBVIOUS
  <2>3. t.kind = "dispatch"
    BY <2>2, SMT
  <2>4. Current(t, tests, asset)
    BY <2>3 DEF Current
  <2> QED
    BY <1>1, <1>8, <2>1, <2>2, <2>4 DEF X!LoadDispatch
<1> QED
  BY <1>2, <1>3, <1>4, <1>5, <1>6, <1>7, <1>8

\* Time passes, a variant is approved or opened: what was read of them stays so.
LEMMA SerialQuiet ==
  ASSUME ArmInv, AssetsKnown, raced \/ TestSerial,
         \/ UNCHANGED X!vars
         \/ \E v \in X!Variants : X!Approve(v) \/ X!Engage(v)
         \/ \E k \in DOMAIN tests : X!TimePasses(k)
  PROVE  raced' \/ TestSerial'
<1>1. UNCHANGED <<raced, tx>>
  BY DEF X!vars, X!Approve, X!Engage, X!TimePasses
<1> SUFFICES ASSUME ~raced, TestSerial PROVE TestSerial'
  BY <1>1
<1>2. \A i \in DOMAIN tests : tests'[i].status = tests[i].status
  <2>1. CASE tests' = tests
    BY <2>1
  <2>2. ASSUME NEW k \in DOMAIN tests, X!TimePasses(k)
        PROVE  \A i \in DOMAIN tests : tests'[i].status = tests[i].status
    <3>1. PICK t : Becomes(k, t) /\ t.status = tests[k].status
      BY <2>2, ClockBecomes
    <3> QED
      BY <3>1, OneRowWritten
  <2> QED
    BY <2>1, <2>2 DEF X!vars, X!Approve, X!Engage
<1>3. \A v \in X!Variants : asset[v] # "published" => asset'[v] # "published"
  <2>1. CASE asset' = asset
    BY <2>1
  <2>2. ASSUME NEW v \in X!Variants, X!Approve(v)
        PROVE  \A w \in X!Variants : asset[w] # "published" => asset'[w] # "published"
    BY <2>2 DEF X!Approve, AssetsKnown
  <2> QED
    BY <2>1, <2>2 DEF X!vars, X!Engage, X!TimePasses
<1>4. ASSUME NEW s \in Sessions PROVE Current(tx[s], tests', asset')
  <2>1. Current(tx[s], tests, asset)
    BY DEF TestSerial
  <2>2. tx[s].kind \in {"launch", "stop", "evaluate"} => tx[s].test \in DOMAIN tests
    BY DEF ArmInv, TestTxRead
  <2>3. tx[s].kind = "launch" => tests'[tx[s].test].status = "designing"
    BY <1>2, <2>1, <2>2 DEF Current
  <2>4. tx[s].kind = "stop" => tests'[tx[s].test].status \in X!Active
    BY <1>2, <2>1, <2>2 DEF Current
  <2>5. tx[s].kind = "evaluate" => tests'[tx[s].test].status = "running"
    BY <1>2, <2>1, <2>2 DEF Current
  <2>6. tx[s].kind = "promote" => \A v \in tx[s].losers \cap X!Variants : asset'[v] # "published"
    BY <1>3, <2>1 DEF Current
  <2> QED
    BY <2>3, <2>4, <2>5, <2>6 DEF Current
<1> QED
  BY <1>1, <1>4 DEF TestSerial

LEMMA SerialStep ==
  ASSUME ArmInv, AssetsKnown, raced \/ TestSerial, X!Next \/ UNCHANGED X!vars
  PROVE  raced' \/ TestSerial'
<1>1. CASE \/ UNCHANGED X!vars
           \/ \E v \in X!Variants : X!Approve(v) \/ X!Engage(v)
           \/ \E k \in DOMAIN tests : X!TimePasses(k)
  BY <1>1, SerialQuiet
<1>2. ASSUME NEW s \in Sessions,
             \/ X!LoadAddVariant(s) \/ X!LoadCreate(s) \/ X!LoadLaunch(s) \/ X!LoadStop(s)
             \/ X!LoadEvaluate(s) \/ X!LoadPromote(s) \/ X!LoadDispatch(s)
      PROVE  raced' \/ TestSerial'
  BY <1>2, SerialLoads
<1>3. ASSUME NEW s \in Sessions,
             \/ X!CommitAddVariant(s) \/ X!CommitCreate(s) \/ X!CommitLaunch(s) \/ X!CommitStop(s)
             \/ X!CommitEvaluate(s) \/ X!CommitPromote(s) \/ X!CommitDispatch(s) \/ X!Rollback(s)
      PROVE  raced' \/ TestSerial'
  BY <1>3, CommitsAreOpen, SerialEnds
<1>4. ASSUME NEW s \in Sessions, X!AssignVariant(s) \/ X!Send(s) PROVE raced' \/ TestSerial'
  BY <1>4, SerialGoesOn
<1> QED
  BY <1>1, <1>2, <1>3, <1>4 DEF X!Next

\* What a step does to the variants: it approves one, adds one, archives losers, publishes one.
LEMMA AssetSteps ==
  ASSUME X!Next \/ UNCHANGED X!vars
  PROVE  \/ asset' = asset
         \/ \E v \in X!Variants : X!Approve(v)
         \/ \E s \in Sessions : X!CommitAddVariant(s) \/ X!CommitPromote(s) \/ X!CommitDispatch(s)
<1>1. UNCHANGED X!vars => asset' = asset
  BY DEF X!vars
<1>2. \A v \in X!Variants : X!Engage(v) => asset' = asset
  BY DEF X!Engage
<1>3. \A k \in DOMAIN tests : X!TimePasses(k) => asset' = asset
  BY DEF X!TimePasses
<1>4. \A s \in Sessions :
        (X!LoadAddVariant(s) \/ X!LoadCreate(s) \/ X!LoadLaunch(s) \/ X!LoadStop(s)
         \/ X!LoadEvaluate(s) \/ X!LoadPromote(s) \/ X!LoadDispatch(s)) => asset' = asset
  BY DEF X!LoadAddVariant, X!LoadCreate, X!LoadLaunch, X!LoadStop, X!LoadEvaluate, X!LoadPromote,
         X!LoadDispatch
<1>5. \A s \in Sessions :
        (X!CommitCreate(s) \/ X!CommitLaunch(s) \/ X!CommitStop(s) \/ X!CommitEvaluate(s)
         \/ X!AssignVariant(s) \/ X!Send(s) \/ X!Rollback(s)) => asset' = asset
  BY DEF X!CommitCreate, X!CommitLaunch, X!CommitStop, X!CommitEvaluate, X!AssignVariant, X!Send,
         X!Rollback
<1> QED
  BY <1>1, <1>2, <1>3, <1>4, <1>5 DEF X!Next

LEMMA AssetsStay ==
  ASSUME AssetsKnown, X!Next \/ UNCHANGED X!vars
  PROVE  AssetsKnown'
<1>1. CASE asset' = asset
  BY <1>1 DEF AssetsKnown
<1>2. ASSUME NEW v, NEW x, asset' = [asset EXCEPT ![v] = x] PROVE AssetsKnown'
  BY <1>2 DEF AssetsKnown
<1>3. ASSUME NEW v \in X!Variants, X!Approve(v) PROVE AssetsKnown'
  BY <1>2, <1>3 DEF X!Approve
<1>4. ASSUME NEW s \in Sessions, X!CommitAddVariant(s) PROVE AssetsKnown'
  BY <1>2, <1>4 DEF X!CommitAddVariant
<1>5. ASSUME NEW s \in Sessions, X!CommitPromote(s) PROVE AssetsKnown'
  BY <1>5 DEF X!CommitPromote, AssetsKnown
<1>6. ASSUME NEW s \in Sessions, X!CommitDispatch(s) PROVE AssetsKnown'
  BY <1>2, <1>6 DEF X!CommitDispatch
<1> QED
  BY <1>1, <1>3, <1>4, <1>5, <1>6, AssetSteps

LEMMA PublishedStays ==
  ASSUME AssetsKnown, raced \/ TestSerial, X!Next \/ UNCHANGED X!vars
  PROVE  X!PublishedStaysStep
<1> SUFFICES ASSUME NEW v \in X!Variants, asset[v] = "published", TestSerial
             PROVE  asset'[v] = "published"
  BY DEF X!PublishedStaysStep
<1>1. \A w, x : asset' = [asset EXCEPT ![w] = x] => asset'[v] = IF v = w THEN x ELSE asset[v]
  BY DEF AssetsKnown
<1>2. CASE asset' = asset
  BY <1>2
<1>3. ASSUME NEW w \in X!Variants, X!Approve(w) PROVE asset'[v] = "published"
  BY <1>1, <1>3 DEF X!Approve
<1>4. ASSUME NEW s \in Sessions, X!CommitAddVariant(s) PROVE asset'[v] = "published"
  <2>1. PICK w : asset[w] = "none" /\ asset' = [asset EXCEPT ![w] = "requested"]
    BY <1>4 DEF X!CommitAddVariant
  <2> QED
    BY <1>1, <2>1
<1>5. ASSUME NEW s \in Sessions, X!CommitPromote(s) PROVE asset'[v] = "published"
  <2>1. v \notin tx[s].losers
    BY <1>5 DEF X!CommitPromote, TestSerial, Current
  <2> QED
    BY <1>5, <2>1 DEF X!CommitPromote
<1>6. ASSUME NEW s \in Sessions, X!CommitDispatch(s) PROVE asset'[v] = "published"
  <2>1. PICK w : w = tx[s].variant
    OBVIOUS
  <2>2. asset' = [asset EXCEPT ![w] = "published"]
    BY <1>6, <2>1 DEF X!CommitDispatch
  <2> QED
    BY <1>1, <2>2
<1> QED
  BY <1>2, <1>3, <1>4, <1>5, <1>6, AssetSteps

LEMMA FinishedStays ==
  ASSUME ArmInv, raced \/ TestSerial, X!Next \/ UNCHANGED X!vars
  PROVE  X!FinishedStaysStep
<1> SUFFICES ASSUME NEW i \in DOMAIN tests, tests[i].status \notin X!Active, TestSerial
             PROVE  tests'[i].status = tests[i].status /\ tests'[i].winner = tests[i].winner
  BY DEF X!FinishedStaysStep
<1>0. "designing" \in X!Active /\ "running" \in X!Active
  BY DEF X!Active
<1>1. ASSUME NEW k, NEW t, Becomes(k, t),
             i = k => t.status = tests[k].status /\ t.winner = tests[k].winner
      PROVE  tests'[i].status = tests[i].status /\ tests'[i].winner = tests[i].winner
  BY <1>1, OneRowWritten
<1>2. CASE tests' = tests
  BY <1>2
<1>3. ASSUME NEW k \in DOMAIN tests, X!TimePasses(k)
      PROVE  tests'[i].status = tests[i].status /\ tests'[i].winner = tests[i].winner
  BY <1>1, <1>3, ClockBecomes
<1>4. ASSUME NEW s \in Sessions, X!CommitCreate(s)
      PROVE  tests'[i].status = tests[i].status /\ tests'[i].winner = tests[i].winner
  BY <1>4, OneRowMore
<1>5. ASSUME NEW s \in Sessions, X!CommitPromote(s)
      PROVE  tests'[i].status = tests[i].status /\ tests'[i].winner = tests[i].winner
  BY <1>1, <1>5, SplitBecomes
<1>6. ASSUME NEW s \in Sessions, X!CommitLaunch(s) \/ X!CommitStop(s) \/ X!CommitEvaluate(s)
      PROVE  tests'[i].status = tests[i].status /\ tests'[i].winner = tests[i].winner
  <2>1. tests[tx[s].test].status \in X!Active
    <3>1. Current(tx[s], tests, asset)
      BY DEF TestSerial
    <3>2. tx[s].kind \in {"launch", "stop", "evaluate"}
      BY <1>6 DEF X!CommitLaunch, X!CommitStop, X!CommitEvaluate
    <3> QED
      BY <1>0, <3>1, <3>2 DEF Current
  <2>2. i # tx[s].test
    BY <2>1
  <2>3. \E t : Becomes(tx[s].test, t)
    BY <1>6, StatusBecomes, VerdictBecomes
  <2> QED
    BY <1>1, <2>2, <2>3
<1> QED
  BY <1>2, <1>3, <1>4, <1>5, <1>6, TestSteps
-----------------------------------------------------------------------------
LEMMA TestInit == X!Init => TestInv
<1> SUFFICES ASSUME X!Init PROVE TestInv
  OBVIOUS
<1>1. AssetsKnown
  BY DEF X!Init, AssetsKnown
<1>2. TestSerial
  <2>1. \A s \in Sessions : tx[s] = X!Idle
    BY DEF X!Init
  <2> QED
    BY <2>1, IdleCurrent DEF TestSerial
<1> QED
  BY <1>1, <1>2, ArmInit, FamilyInit DEF TestInv

LEMMA TestStep == TestInv /\ [X!Next]_(X!vars) => TestInv' /\ X!FinishedStaysStep /\ X!PublishedStaysStep
<1> SUFFICES ASSUME ArmInv, X!OneActiveTest, AssetsKnown, raced \/ TestSerial, X!Next \/ UNCHANGED X!vars
             PROVE  TestInv' /\ X!FinishedStaysStep /\ X!PublishedStaysStep
  BY DEF TestInv
<1>1. ArmInv' /\ X!OneActiveTest'
  BY ArmStep, FamilyStep
<1>2. AssetsKnown' /\ (raced' \/ TestSerial')
  BY AssetsStay, SerialStep
<1>3. X!FinishedStaysStep /\ X!PublishedStaysStep
  BY FinishedStays, PublishedStays
<1> QED
  BY <1>1, <1>2, <1>3 DEF TestInv

LEMMA TestSafe == TestInv => X!OneArm /\ X!OneActiveTest
  BY ArmIsOne DEF TestInv
-----------------------------------------------------------------------------
\* A behaviour of this scene takes the steps of the component.
LEMMA TestsAtWork ==
  ASSUME [XNext]_vars
  PROVE  [X!Next]_(X!vars)
<1>1. UNCHANGED vars => UNCHANGED X!vars
  BY DEF vars, X!vars
<1> QED
  BY <1>1 DEF XNext

LEMMA TestsAlways == TestsSpec => []TestInv
<1>1. XInit => TestInv
  BY TestInit DEF XInit
<1>2. TestInv /\ [XNext]_vars => TestInv'
  BY TestsAtWork, TestStep
<1> QED
  BY <1>1, <1>2, PTL DEF TestsSpec
-----------------------------------------------------------------------------
\* For all recipients, splits, variants and numbers of requests in flight: however
\* dispatches overlap, roll back and are tried again, the mails of one test give a
\* recipient one variant, and at most one active test has a given first variant
\* (TestsExclusive; assign_variant, dispatch_email_asset, uq_ab_test_active_per_variant_a).
THEOREM TestsAreExclusive == TestsSpec => []TestsExclusive
<1>1. TestInv => TestsExclusive
  BY TestSafe DEF TestsExclusive
<1> QED
  BY <1>1, TestsAlways, PTL

\* While requests do not overlap, a test that was stopped, decided or ran out keeps its
\* status and winner, and a published variant is never archived (EndsAreFinal;
\* evaluate_test, stop_ab_test, promote_ab_test).
THEOREM FinishedTestsStay == TestsSpec => EndsAreFinal
<1>1. TestInv /\ [XNext]_vars =>
        [scene = "experiment" => X!FinishedStaysStep /\ X!PublishedStaysStep]_vars
  BY TestsAtWork, TestStep
<1> QED
  BY <1>1, TestsAlways, PTL DEF TestsSpec, EndsAreFinal
=============================================================================
