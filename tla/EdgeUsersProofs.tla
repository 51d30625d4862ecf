-------------------------- MODULE EdgeUsersProofs --------------------------
(***************************************************************************)
(* What previews and the assistant's memory keep true in every scene of     *)
(* theirs: an inductive invariant for each component, and one lemma per     *)
(* action or group of actions.                                              *)
(***************************************************************************)
EXTENDS EdgeUsers, FiniteSetTheorems, TLAPS

\* The leaves are first-order reasoning about sets and functions unless they say SMT.
USE Zenon

-----------------------------------------------------------------------------
\* The audit of merge fields and the mail.

\* The last audit and the last dispatch are those of some text and some audience of
\* the campaign, which stays in the history; the mail went to some of its members.
Counted(t, aud) == P!AuditAudienceResolution(P!Referenced(P!AssetTextFields(t)), aud)
AuditKnown ==
  \/ report = P!Never
  \/ \E i \in DOMAIN audiences, t \in Texts, aud \in Audiences :
       audiences[i] = aud /\ report = [at |-> i, text |-> t, counts |-> Counted(t, aud)]

Gaps(t, aud, to) == [m \in to |-> P!Holes(P!MessageFromAsset(t), aud, m)]
MailKnown ==
  \/ mail = P!Never
  \/ \E i \in DOMAIN audiences, t \in Texts, aud \in Audiences, to \in SUBSET Members :
       audiences[i] = aud /\ mail = [at |-> i, text |-> t, holes |-> Gaps(t, aud, to)]

\* The inductive invariant of the audit and the mail.
AuditInv == text \in Texts /\ audiences \in Seq(Audiences) /\ AuditKnown /\ MailKnown

\* Nobody resolves a name exactly where the mail leaves a gap at it.
LEMMA SameGaps ==
  ASSUME NEW t, NEW aud \in Audiences, P!Ordinary(t, aud),
         NEW n \in P!Referenced(P!MessageFromAsset(t))
  PROVE  \A m \in Members : ~P!IsResolvable(P!ValueOf(aud[m], n))
                              <=> n \in P!Holes(P!MessageFromAsset(t), aud, m)
<1> DEFINE fields == P!MessageFromAsset(t)
<1> TAKE m \in Members
<1>1. PICK g \in fields : g.name = n
  BY DEF P!Referenced
<1>2. n # "unsubscribe_url" /\ \A f \in fields : f.plain
  BY <1>1 DEF P!Ordinary
<1> HIDE DEF fields
<1>3. n \in Names => aud[m][n] \in {"text", "blank", "number", "absent"}
  BY PreviewsAssumption DEF P!Ordinary
<1>4. n \in P!Holes(fields, aud, m)
        <=> n \notin P!StringOnlyPayload(aud[m]) \/ P!ValueOf(aud[m], n) = "blank"
  BY <1>1, <1>2 DEF P!Holes, P!Substituted
<1>5. ~P!IsResolvable(P!ValueOf(aud[m], n)) <=> n \in P!Holes(fields, aud, m)
  BY <1>3, <1>4 DEF P!StringOnlyPayload, P!ValueOf, P!IsResolvable
<1> QED
  BY <1>5 DEF fields

LEMMA AuditInit == ASSUME P!Init PROVE AuditInv
  BY SMT DEF P!Init, AuditInv, AuditKnown, MailKnown

\* Every step of the audit keeps what it does not write: the history only grows, and
\* the footer never changes.
LEMMA AuditRest ==
  ASSUME AuditInv, text' \in Texts, audiences' \in Seq(Audiences), footer' = footer,
         \A i \in DOMAIN audiences : i \in DOMAIN audiences' /\ audiences'[i] = audiences[i],
         report' = report \/ AuditKnown', mail' = mail \/ MailKnown'
  PROVE  AuditInv'
<1>1. AuditKnown'
  BY DEF AuditInv, AuditKnown
<1>2. MailKnown'
  <2>1. \A t, a, to : Gaps(t, a, to)' = Gaps(t, a, to)
    BY DEF Gaps, P!Holes, P!Substituted
  <2> QED
    BY <2>1 DEF AuditInv, MailKnown
<1> QED
  BY <1>1, <1>2 DEF AuditInv

LEMMA AuditStep == ASSUME AuditInv, [P!Next]_(P!vars) PROVE AuditInv'
<1>0. text \in Texts /\ audiences \in Seq(Audiences)
  BY DEF AuditInv
<1>1. CASE UNCHANGED P!vars
  BY <1>0, <1>1, AuditRest DEF P!vars
<1>2. CASE \E t \in Texts : P!Rewrite(t)
  BY <1>0, <1>2, AuditRest DEF P!Rewrite
<1>3. ASSUME NEW aud \in Audiences, P!NewAudience(aud) PROVE AuditInv'
  <2>1. audiences' = Append(audiences, aud) /\ UNCHANGED <<text, footer, report, mail>>
    BY <1>3 DEF P!NewAudience
  <2>2. /\ audiences' \in Seq(Audiences)
        /\ \A i \in DOMAIN audiences : i \in DOMAIN audiences' /\ audiences'[i] = audiences[i]
    BY <1>0, <2>1, SMT
  <2> QED
    BY <1>0, <2>1, <2>2, AuditRest
<1>4. CASE P!Audit
  <2>1. Len(audiences) \in DOMAIN audiences /\ P!Latest \in Audiences
    BY <1>0, <1>4, SMT DEF P!Audit, P!Latest
  <2>2. AuditKnown'
    BY <1>0, <1>4, <2>1 DEF P!Audit, AuditKnown, Counted, P!Latest
  <2> QED
    BY <1>0, <1>4, <2>2, AuditRest DEF P!Audit
<1>5. ASSUME NEW to \in SUBSET Members, P!Dispatch(to) PROVE AuditInv'
  <2>1. Len(audiences) \in DOMAIN audiences /\ P!Latest \in Audiences
    BY <1>0, <1>5, SMT DEF P!Dispatch, P!Latest
  <2>2. UNCHANGED <<audiences, footer>>
    BY <1>5 DEF P!Dispatch
  <2>3. \A t, a, u : Gaps(t, a, u)' = Gaps(t, a, u)
    BY <2>2 DEF Gaps, P!Holes, P!Substituted
  <2>4. mail' = [at |-> Len(audiences), text |-> text, holes |-> Gaps(text, P!Latest, to)]
    BY <1>5 DEF P!Dispatch, Gaps
  <2>5. MailKnown'
    BY <1>0, <1>5, <2>1, <2>2, <2>3, <2>4 DEF MailKnown, P!Latest
  <2> QED
    BY <1>0, <1>5, <2>5, AuditRest DEF P!Dispatch
<1> QED
  BY <1>1, <1>2, <1>3, <1>4, <1>5 DEF P!Next

\* The count of a field is the number of mails with a gap at it, and of the members
\* without a value who got no mail.
LEMMA AuditAgrees == ASSUME AuditInv PROVE P!AuditPredictsMail
<1> DEFINE Lacks(m, n) == ~P!IsResolvable(P!ValueOf(audiences[mail.at][m], n))
           gone(n) == {m \in DOMAIN mail.holes : n \in mail.holes[m]}
                        \cup {m \in Members \ DOMAIN mail.holes : Lacks(m, n)}
<1> SUFFICES ASSUME report # P!Never, mail # P!Never, report.at = mail.at,
                    report.text = mail.text, P!Ordinary(mail.text, audiences[mail.at]),
                    NEW n \in P!Referenced(P!AssetTextFields(mail.text)),
                    n \in P!Referenced(P!MessageFromAsset(mail.text))
             PROVE  report.counts[n] = P!Cardinality(gone(n))
  BY DEF P!AuditPredictsMail
<1>1. PICK i \in DOMAIN audiences, t \in Texts, aud \in Audiences :
        audiences[i] = aud /\ report = [at |-> i, text |-> t, counts |-> Counted(t, aud)]
  BY DEF AuditInv, AuditKnown
<1>2. PICK j \in DOMAIN audiences, u \in Texts, other \in Audiences, to \in SUBSET Members :
        audiences[j] = other /\ mail = [at |-> j, text |-> u, holes |-> Gaps(u, other, to)]
  BY DEF AuditInv, MailKnown
<1>3. /\ report.at = i /\ report.text = t /\ report.counts = Counted(t, aud)
      /\ mail.at = j /\ mail.text = u /\ mail.holes = Gaps(u, other, to)
  BY <1>1, <1>2, SMT
<1>4. i = j /\ t = u /\ aud = other /\ audiences[mail.at] = aud
  BY <1>1, <1>2, <1>3
<1>5. P!Ordinary(t, aud) /\ n \in P!Referenced(P!MessageFromAsset(t))
      /\ n \in P!Referenced(P!AssetTextFields(t))
  BY <1>3, <1>4
<1>6. report.counts[n] = P!Cardinality({m \in Members : ~P!IsResolvable(P!ValueOf(aud[m], n))})
  BY <1>3, <1>5 DEF Counted, P!AuditAudienceResolution
<1>7. /\ DOMAIN mail.holes = to
      /\ \A m \in to : mail.holes[m] = P!Holes(P!MessageFromAsset(t), aud, m)
  BY <1>3, <1>4 DEF Gaps
<1>8. \A m \in Members : ~P!IsResolvable(P!ValueOf(aud[m], n))
                           <=> n \in P!Holes(P!MessageFromAsset(t), aud, m)
  BY <1>5, SameGaps
<1>9. gone(n) = {m \in Members : ~P!IsResolvable(P!ValueOf(aud[m], n))}
  BY <1>4, <1>7, <1>8
<1> QED
  BY <1>6, <1>9

-----------------------------------------------------------------------------
\* The memory of a chat.

Message ==
  [role : {"user", "assistant"}, at : Nat, uses : SUBSET (Nat \X Nat), answers : SUBSET (Nat \X Nat)]

\* A thread the model accepts: it opens with a user message that answers nothing, every
\* result answers a call of the message before it, and messages come in the order
\* they were written, calls carrying the number of their message.
Chained(m) ==
  /\ 1 \in DOMAIN m => m[1].role = "user" /\ m[1].answers = {}
  /\ \A i \in DOMAIN m : i > 1 => m[i].answers \subseteq m[i - 1].uses
  /\ \A i \in DOMAIN m : \A u \in m[i].uses : u[1] = m[i].at
  /\ \A i, j \in DOMAIN m : i < j => m[i].at < m[j].at

Older(m, n) == \A i \in DOMAIN m : m[i].at < n
Since(m, n) == \A i \in DOMAIN m : m[i].at >= n

\* A message is added at the end.
LEMMA Extended ==
  ASSUME NEW m \in Seq(Message), NEW n \in Nat, NEW x \in Message, Chained(m), Older(m, n),
         x.at = n, \A u \in x.uses : u[1] = n,
         \/ x.role = "user" /\ x.answers = {}
         \/ Len(m) > 0 /\ x.answers \subseteq m[Len(m)].uses
  PROVE  /\ Append(m, x) \in Seq(Message) /\ Chained(Append(m, x)) /\ Older(Append(m, x), n + 1)
         /\ Len(Append(m, x)) = Len(m) + 1 /\ Append(m, x)[Len(m) + 1] = x
         /\ \A i \in DOMAIN m : i \in DOMAIN Append(m, x) /\ Append(m, x)[i] = m[i]
         /\ \A c \in Nat : Since(m, c) /\ c <= n => Since(Append(m, x), c)
<1> DEFINE e == Append(m, x)
<1>1. /\ e \in Seq(Message) /\ DOMAIN e = 1 .. Len(m) + 1 /\ Len(e) = Len(m) + 1
      /\ e[Len(m) + 1] = x /\ Len(m) \in Nat /\ DOMAIN m = 1 .. Len(m)
      /\ \A i \in 1 .. Len(m) : e[i] = m[i]
  BY SMT
<1>2. \A i \in 1 .. Len(m) : m[i].at \in Nat
  <2>1. \A i \in 1 .. Len(m) : m[i] \in Message
    BY <1>1, SMT
  <2> QED
    BY <2>1 DEF Message
<1>3. \A i \in 1 .. Len(m) + 1 : i \in 1 .. Len(m) \/ i = Len(m) + 1
  BY <1>1, SMT
<1> HIDE DEF e
<1>4. Older(e, n + 1)
  BY <1>1, <1>2, <1>3, SMT DEF Older
<1>5. \A c \in Nat : Since(m, c) /\ c <= n => Since(e, c)
  BY <1>1, <1>2, <1>3, SMT DEF Since
<1>6. Chained(e)
  <2>1. 1 \in DOMAIN e => e[1].role = "user" /\ e[1].answers = {}
    <3>1. CASE Len(m) = 0
      BY <1>1, <3>1, SMT
    <3>2. CASE Len(m) # 0
      <4>1. 1 \in DOMAIN m /\ e[1] = m[1]
        BY <1>1, <3>2, SMT
      <4> QED
        BY <4>1 DEF Chained
    <3> QED
      BY <3>1, <3>2
  <2>2. ASSUME NEW i \in DOMAIN e, i > 1 PROVE e[i].answers \subseteq e[i - 1].uses
    <3>1. CASE i = Len(m) + 1
      <4>1. e[i] = x /\ i - 1 = Len(m) /\ i - 1 \in 1 .. Len(m) /\ e[i - 1] = m[Len(m)]
        BY <1>1, <2>2, <3>1, SMT
      <4> QED
        BY <4>1
    <3>2. CASE i # Len(m) + 1
      <4>1. i \in DOMAIN m /\ e[i] = m[i] /\ i - 1 \in 1 .. Len(m) /\ e[i - 1] = m[i - 1]
        BY <1>1, <2>2, <3>2, SMT
      <4> QED
        BY <2>2, <4>1 DEF Chained
    <3> QED
      BY <3>1, <3>2
  <2>3. \A i \in DOMAIN e : \A u \in e[i].uses : u[1] = e[i].at
    BY <1>1, <1>3 DEF Chained
  <2>4. ASSUME NEW i \in DOMAIN e, NEW j \in DOMAIN e, i < j PROVE e[i].at < e[j].at
    <3>1. i \in 1 .. Len(m) /\ e[i] = m[i]
      BY <1>1, <2>4, SMT
    <3>2. CASE j = Len(m) + 1
      BY <1>1, <3>1, <3>2 DEF Older
    <3>3. CASE j # Len(m) + 1
      BY <1>1, <1>3, <2>4, <3>1, <3>3 DEF Chained
    <3> QED
      BY <3>2, <3>3
  <2> QED
    BY <2>1, <2>2, <2>3, <2>4 DEF Chained
<1>7. \A i \in DOMAIN m : i \in DOMAIN e /\ e[i] = m[i]
  BY <1>1, SMT
<1> QED
  BY <1>1, <1>4, <1>5, <1>6, <1>7 DEF e

\* A set of numbers that has an element has a least one.
LEMMA LeastElement ==
  ASSUME NEW T \in SUBSET Nat, T # {}
  PROVE  \E x \in T : \A y \in T : x <= y
<1> DEFINE Below(x) == {y \in T : y < x}
           family == {Below(x) : x \in T}
<1>1. family \subseteq FiniteSubsetsOf(Nat)
  <2> SUFFICES ASSUME NEW x \in T PROVE Below(x) \in FiniteSubsetsOf(Nat)
    OBVIOUS
  <2>1. x \in Nat /\ \A y \in Below(x) : y \in Nat /\ y < x
    OBVIOUS
  <2> HIDE DEF Below
  <2>2. Below(x) \subseteq 0 .. x
    BY <2>1, SMT
  <2>3. IsFiniteSet(0 .. x)
    BY <2>1, FS_Interval, SMT
  <2>4. IsFiniteSet(Below(x))
    BY <2>2, <2>3, FS_Subset
  <2> QED
    BY <2>1, <2>4 DEF FiniteSubsetsOf
<1>2. PICK x \in T : \A y \in T : ~(<<Below(y), Below(x)>> \in StrictSubsetOrdering(Nat))
  <2>1. family # {}
    OBVIOUS
  <2>2. PICK b \in family : \A c \in family : ~(<<c, b>> \in StrictSubsetOrdering(Nat))
    <3> HIDE DEF family
    <3> QED
    BY <1>1, <2>1, FS_StrictSubsetOrderingWellFounded, WFMin, Zenon
  <2> QED
    BY <2>2, Zenon
<1>3. ASSUME NEW y \in Below(x) PROVE FALSE
  <2>0. /\ x \in Nat /\ y \in T /\ y \in Nat /\ y < x
        /\ \A z \in Nat : (z < y => z < x) /\ ~(y < y)
    BY SMT
  <2>1. Below(y) \subseteq Below(x) /\ y \notin Below(y) /\ y \in T
    BY <2>0, Zenon
  <2>2. Below(y) \in SUBSET Nat /\ Below(x) \in SUBSET Nat /\ Below(y) # Below(x)
    BY <2>1
  <2> HIDE DEF Below
  <2>3. <<Below(y), Below(x)>> \in StrictSubsetOrdering(Nat)
    BY <2>1, <2>2 DEF StrictSubsetOrdering
  <2> QED
    BY <1>2, <2>1, <2>3
<1> QED
  BY <1>3, SMT

\* Where a thread that is too long may be cut.
Suffix(m, i) == SubSeq(m, i, Len(m))
Starts(m) == {i \in (Len(m) - MaxMessages + 1) .. Len(m) : C!Opens(Suffix(m, i))}

\* What _trim returns: the thread itself, nothing, or its longest suffix within the
\* window that opens with a user message whose results are not dangling.
LEMMA TrimCases ==
  ASSUME NEW m \in Seq(Message)
  PROVE  \/ Len(m) <= MaxMessages /\ C!Trim(m) = m
         \/ Len(m) > MaxMessages /\ Starts(m) = {} /\ C!Trim(m) = <<>>
         \/ Len(m) > MaxMessages /\ \E k \in Starts(m) :
              C!Trim(m) = Suffix(m, k) /\ \A j \in Starts(m) : k <= j
<1>0. Len(m) \in Nat /\ MaxMessages \in Nat
  BY WindowAssumption, SMT
<1>1. CASE Len(m) <= MaxMessages
  BY <1>1 DEF C!Trim
<1>2. CASE ~(Len(m) <= MaxMessages)
  <2>1. C!Trim(m) = IF Starts(m) = {} THEN <<>>
                    ELSE Suffix(m, CHOOSE i \in Starts(m) : \A j \in Starts(m) : i <= j)
    BY <1>2 DEF C!Trim, Starts, Suffix
  <2>2. Starts(m) \in SUBSET Nat /\ Len(m) > MaxMessages
    <3>1. (Len(m) - MaxMessages + 1) .. Len(m) \subseteq Nat /\ Len(m) > MaxMessages
      BY <1>0, <1>2, SMT
    <3> QED
      BY <3>1 DEF Starts
  <2>3. CASE Starts(m) # {}
    <3>1. \E k \in Starts(m) : \A j \in Starts(m) : k <= j
      BY <2>2, <2>3, LeastElement
    <3>2. PICK k : k = CHOOSE i \in Starts(m) : \A j \in Starts(m) : i <= j
      OBVIOUS
    <3>3. k \in Starts(m) /\ \A j \in Starts(m) : k <= j
      BY <3>1, <3>2
    <3> QED
      BY <2>1, <2>2, <2>3, <3>2, <3>3
  <2> QED
    BY <2>1, <2>2, <2>3
<1> QED
  BY <1>1, <1>2

\* The messages of a suffix.
LEMMA SuffixMessages ==
  ASSUME NEW m \in Seq(Message), NEW k \in 1 .. Len(m)
  PROVE  /\ Suffix(m, k) \in Seq(Message) /\ Len(Suffix(m, k)) = Len(m) - k + 1
         /\ DOMAIN Suffix(m, k) = 1 .. Len(m) - k + 1
         /\ \A i \in 1 .. Len(m) - k + 1 : Suffix(m, k)[i] = m[i + k - 1] /\ i + k - 1 \in 1 .. Len(m)
         /\ \A j \in k .. Len(m) : j - k + 1 \in 1 .. Len(m) - k + 1 /\ Suffix(m, k)[j - k + 1] = m[j]
         /\ Head(Suffix(m, k)) = m[k]
  BY SMT DEF Suffix

\* A thread may open with a message that answers nothing, and with no other: a result
\* answers the message right before it, which is cut off.
LEMMA OpensWithQuestion ==
  ASSUME NEW m \in Seq(Message), Chained(m), NEW k \in 2 .. Len(m)
  PROVE  C!Opens(Suffix(m, k)) <=> m[k].role = "user" /\ m[k].answers = {}
<1>1. /\ k \in 1 .. Len(m) /\ k \in DOMAIN m /\ k > 1 /\ DOMAIN m = 1 .. Len(m)
      /\ k - 1 \in DOMAIN m /\ \A j \in 1 .. Len(m) - k + 1 : k - 1 < j + k - 1
  BY SMT
<1>2. /\ Head(Suffix(m, k)) = m[k] /\ DOMAIN Suffix(m, k) = 1 .. Len(m) - k + 1
      /\ \A i \in 1 .. Len(m) - k + 1 : Suffix(m, k)[i] = m[i + k - 1] /\ i + k - 1 \in 1 .. Len(m)
  BY <1>1, SuffixMessages
<1>3. ASSUME NEW u \in m[k].answers, u \in C!KnownUses(Suffix(m, k)) PROVE FALSE
  <2>1. u[1] = m[k - 1].at
    BY <1>1 DEF Chained
  <2>2. PICK i \in 1 .. Len(m) - k + 1 : u \in m[i + k - 1].uses
    BY <1>2, <1>3 DEF C!KnownUses
  <2>3. u[1] = m[i + k - 1].at /\ m[k - 1].at < m[i + k - 1].at
    BY <1>1, <1>2, <2>2 DEF Chained
  <2>4. m[k - 1] \in Message
    BY <1>1, SMT
  <2>5. m[k - 1].at \in Nat
    BY <2>4 DEF Message
  <2> QED
    BY <2>1, <2>3, <2>5, SMT
<1> QED
  BY <1>2, <1>3 DEF C!Opens

\* _trim keeps a thread acceptable and within MAX_MESSAGES, invents no message, and keeps
\* a question that lies within the window.
LEMMA TrimKeeps ==
  ASSUME NEW m \in Seq(Message), Chained(m)
  PROVE  /\ C!Trim(m) \in Seq(Message) /\ Chained(C!Trim(m)) /\ Len(C!Trim(m)) <= MaxMessages
         /\ \A n \in Nat : Older(m, n) => Older(C!Trim(m), n)
         /\ \A n \in Nat : Since(m, n) => Since(C!Trim(m), n)
         /\ \A q \in DOMAIN m :
              q > Len(m) - MaxMessages /\ m[q].role = "user" /\ m[q].answers = {}
              => \E i \in DOMAIN C!Trim(m) : C!Trim(m)[i] = m[q]
<1>0. Len(m) \in Nat /\ MaxMessages \in Nat /\ DOMAIN m = 1 .. Len(m)
  BY WindowAssumption, SMT
<1>1. CASE Len(m) <= MaxMessages /\ C!Trim(m) = m
  BY <1>1
<1>2. CASE Len(m) > MaxMessages /\ Starts(m) = {} /\ C!Trim(m) = <<>>
  <2>1. /\ C!Trim(m) \in Seq(Message) /\ DOMAIN C!Trim(m) = {} /\ Len(C!Trim(m)) <= MaxMessages
    BY <1>0, <1>2, SMT
  <2>2. Chained(C!Trim(m)) /\ \A n \in Nat : Older(C!Trim(m), n) /\ Since(C!Trim(m), n)
    BY <2>1 DEF Chained, Older, Since
  <2>3. ASSUME NEW q \in DOMAIN m, q > Len(m) - MaxMessages, m[q].role = "user", m[q].answers = {}
        PROVE  FALSE
    <3>1. q \in 2 .. Len(m) /\ q \in (Len(m) - MaxMessages + 1) .. Len(m)
      BY <1>0, <1>2, <2>3, SMT
    <3> QED
      BY <1>2, <2>3, <3>1, OpensWithQuestion DEF Starts
  <2> QED
    BY <2>1, <2>2, <2>3
<1>3. ASSUME Len(m) > MaxMessages, NEW k \in Starts(m), C!Trim(m) = Suffix(m, k),
             \A j \in Starts(m) : k <= j
      PROVE  /\ C!Trim(m) \in Seq(Message) /\ Chained(C!Trim(m)) /\ Len(C!Trim(m)) <= MaxMessages
             /\ \A n \in Nat : Older(m, n) => Older(C!Trim(m), n)
             /\ \A n \in Nat : Since(m, n) => Since(C!Trim(m), n)
             /\ \A q \in DOMAIN m :
                  q > Len(m) - MaxMessages /\ m[q].role = "user" /\ m[q].answers = {}
                  => \E i \in DOMAIN C!Trim(m) : C!Trim(m)[i] = m[q]
  <2> DEFINE t == Suffix(m, k)
  <2>1. k \in (Len(m) - MaxMessages + 1) .. Len(m) /\ C!Opens(Suffix(m, k))
    BY DEF Starts
  <2>2. k \in 2 .. Len(m) /\ k \in 1 .. Len(m) /\ Len(m) - k + 1 <= MaxMessages /\ 1 \in 1 .. Len(m) - k + 1
        /\ 1 + k - 1 = k
    BY <1>0, <1>3, <2>1, SMT
  <2>3. m[k].role = "user" /\ m[k].answers = {}
    BY <2>1, <2>2, OpensWithQuestion
  <2>4. /\ t \in Seq(Message) /\ Len(t) = Len(m) - k + 1 /\ DOMAIN t = 1 .. Len(m) - k + 1
        /\ \A i \in 1 .. Len(m) - k + 1 : t[i] = m[i + k - 1] /\ i + k - 1 \in 1 .. Len(m)
        /\ \A j \in k .. Len(m) : j - k + 1 \in 1 .. Len(m) - k + 1 /\ t[j - k + 1] = m[j]
    BY <2>2, SuffixMessages
  <2> HIDE DEF t
  <2>5. /\ \A n \in Nat : Older(m, n) => Older(t, n)
        /\ \A n \in Nat : Since(m, n) => Since(t, n)
    BY <1>0, <2>4 DEF Older, Since
  <2>6. Chained(t)
    <3>1. t[1].role = "user" /\ t[1].answers = {}
      BY <2>2, <2>3, <2>4
    <3>2. ASSUME NEW i \in DOMAIN t, i > 1 PROVE t[i].answers \subseteq t[i - 1].uses
      <4>0. i \in 1 .. Len(m) - k + 1
        BY <2>4
      <4>1. /\ i - 1 \in 1 .. Len(m) - k + 1 /\ (i - 1) + k - 1 = (i + k - 1) - 1 /\ i + k - 1 > 1
        BY <1>0, <2>2, <3>2, <4>0, SMT
      <4>2. t[i] = m[i + k - 1] /\ t[i - 1] = m[(i + k - 1) - 1] /\ i + k - 1 \in DOMAIN m
        BY <1>0, <2>4, <4>1
      <4> QED
        BY <4>1, <4>2 DEF Chained
    <3>3. \A i \in DOMAIN t : \A u \in t[i].uses : u[1] = t[i].at
      <4> SUFFICES ASSUME NEW i \in 1 .. Len(m) - k + 1 PROVE \A u \in t[i].uses : u[1] = t[i].at
        BY <2>4
      <4>1. t[i] = m[i + k - 1] /\ i + k - 1 \in DOMAIN m
        BY <1>0, <2>4
      <4> QED
        BY <4>1 DEF Chained
    <3>4. ASSUME NEW i \in DOMAIN t, NEW j \in DOMAIN t, i < j PROVE t[i].at < t[j].at
      <4>1. i + k - 1 < j + k - 1
        BY <1>0, <2>2, <2>4, <3>4, SMT
      <4>2. /\ t[i] = m[i + k - 1] /\ i + k - 1 \in DOMAIN m
            /\ t[j] = m[j + k - 1] /\ j + k - 1 \in DOMAIN m
        BY <1>0, <2>4
      <4> QED
        BY <4>1, <4>2 DEF Chained
    <3> QED
      BY <3>1, <3>2, <3>3, <3>4 DEF Chained
  <2>7. ASSUME NEW q \in DOMAIN m, q > Len(m) - MaxMessages, m[q].role = "user", m[q].answers = {}
        PROVE  \E i \in DOMAIN t : t[i] = m[q]
    <3>1. q \in 2 .. Len(m) /\ q \in (Len(m) - MaxMessages + 1) .. Len(m)
      BY <1>0, <1>3, <2>7, SMT
    <3>2. k <= q
      BY <1>3, <2>7, <3>1, OpensWithQuestion DEF Starts
    <3>3. q \in k .. Len(m)
      BY <1>0, <2>2, <3>1, <3>2, SMT
    <3> QED
      BY <2>4, <3>3
  <2> QED
    BY <1>3, <2>2, <2>4, <2>5, <2>6, <2>7 DEF t
<1> QED
  BY <1>1, <1>2, <1>3, TrimCases

LEMMA TrimQuestion ==
  ASSUME NEW m \in Seq(Message), Chained(m), NEW q \in DOMAIN m, q > Len(m) - MaxMessages,
         m[q].role = "user", m[q].answers = {}
  PROVE  \E i \in DOMAIN C!Trim(m) : C!Trim(m)[i] = m[q]
  BY TrimKeeps

Chatting ==
  [busy : {TRUE}, turn : Nat, asked : Nat, focus : Campaigns \cup {NoCampaign}, row : BOOLEAN,
   messages : Seq(Message)]

\* A request in flight holds an acceptable thread, in which its question is followed by
\* the two messages of each tool call it made.
Asking(t, n) ==
  /\ Chained(t.messages) /\ Older(t.messages, n)
  /\ t.turn <= MaxTurns /\ Len(t.messages) - 2 * t.turn \in DOMAIN t.messages
  /\ t.messages[Len(t.messages) - 2 * t.turn] = C!Question(t.asked)

ChatTypes ==
  /\ fresh \in Nat /\ cleared \in Nat /\ cleared <= fresh
  /\ thread \in Seq(Message)
  /\ tx \in [Sessions -> {C!Idle} \cup Chatting]

\* As long as no two requests overlapped, one is in flight at most, and nothing older
\* than the last "Start over" is stored or in its hands.
Afresh ==
  ~raced =>
    /\ \A s, t \in Sessions : tx[s] # C!Idle /\ tx[t] # C!Idle => s = t
    /\ Since(thread, cleared)
    /\ \A s \in Sessions : tx[s] # C!Idle => Since(tx[s].messages, cleared)

\* The inductive invariant.
ChatInv ==
  /\ ChatTypes
  /\ Len(thread) <= MaxMessages /\ Chained(thread) /\ Older(thread, fresh)
  /\ \A s \in Sessions : tx[s] # C!Idle => Asking(tx[s], fresh)
  /\ Afresh

LEMMA ChatInit == ASSUME C!Init PROVE ChatInv
<1>1. /\ thread = <<>> /\ fresh = 1 /\ cleared = 1 /\ \A s \in Sessions : tx[s] = C!Idle
      /\ tx \in [Sessions -> {C!Idle}]
  BY DEF C!Init
<1>2. /\ thread \in Seq(Message) /\ DOMAIN thread = {} /\ Len(thread) <= MaxMessages
      /\ 1 \in Nat /\ 1 <= 1
  BY <1>1, WindowAssumption, SMT
<1>3. Chained(thread) /\ Older(thread, fresh) /\ Since(thread, cleared)
  BY <1>2 DEF Chained, Older, Since
<1>4. ChatTypes
  BY <1>1, <1>2 DEF ChatTypes
<1> QED
  BY <1>1, <1>2, <1>3, <1>4 DEF ChatInv, Afresh

\* A request that is busy is one of them.
LEMMA Busy ==
  ASSUME ChatTypes, NEW s \in Sessions
  PROVE  /\ tx[s].busy <=> tx[s] # C!Idle
         /\ tx[s] # C!Idle => tx[s] \in Chatting /\ tx[s].turn \in Nat /\ tx[s].asked \in Nat
                              /\ tx[s].messages \in Seq(Message)
<1>1. tx[s] \in {C!Idle} \cup Chatting
  BY DEF ChatTypes
<1>2. C!Idle.busy = FALSE
  BY DEF C!Idle
<1>3. \A t \in Chatting : t.busy = TRUE /\ t.turn \in Nat /\ t.asked \in Nat /\ t.messages \in Seq(Message)
  BY DEF Chatting
<1> QED
  BY <1>1, <1>2, <1>3

\* Only the order of the numbers matters to a thread: later ones leave it older.
LEMMA OlderGrows ==
  ASSUME NEW m \in Seq(Message), NEW a \in Nat, NEW b \in Nat, a <= b, Older(m, a)
  PROVE  Older(m, b)
<1>1. \A i \in DOMAIN m : m[i] \in Message
  BY SMT
<1>2. \A i \in DOMAIN m : m[i].at \in Nat
  BY <1>1 DEF Message
<1> QED
  BY <1>2, SMT DEF Older

\* The four messages.
LEMMA Messages ==
  ASSUME NEW i \in Nat, NEW n \in 1 .. 2
  PROVE  /\ C!Question(i) \in Message /\ C!Question(i).at = i /\ C!Question(i).uses = {}
         /\ C!Question(i).role = "user" /\ C!Question(i).answers = {}
         /\ C!Reply(i) \in Message /\ C!Reply(i).at = i /\ C!Reply(i).uses = {} /\ C!Reply(i).answers = {}
         /\ C!ToolUse(i, n) \in Message /\ C!ToolUse(i, n).at = i
         /\ C!ToolUse(i, n).uses = {i} \X (1 .. n) /\ C!ToolUse(i, n).answers = {}
         /\ \A u \in C!ToolUse(i, n).uses : u[1] = i
         /\ C!ToolResult(i) \in Message /\ C!ToolResult(i).at = i + 1 /\ C!ToolResult(i).uses = {}
         /\ C!ToolResult(i).answers \subseteq C!ToolUse(i, n).uses
<1>1. C!Question(i) \in Message /\ C!Reply(i) \in Message
  BY DEF C!Question, C!Reply, Message
<1>2. {i} \X (1 .. n) \subseteq Nat \X Nat /\ <<i, 1>> \in {i} \X (1 .. n) /\ i + 1 \in Nat
      /\ \A u \in {i} \X (1 .. n) : u[1] = i
  BY SMT
<1>3. C!ToolUse(i, n) \in Message /\ C!ToolResult(i) \in Message
  BY <1>2 DEF C!ToolUse, C!ToolResult, Message
<1>4. /\ C!Question(i).at = i /\ C!Question(i).uses = {}
      /\ C!Question(i).role = "user" /\ C!Question(i).answers = {}
      /\ C!Reply(i).at = i /\ C!Reply(i).uses = {} /\ C!Reply(i).answers = {}
  BY DEF C!Question, C!Reply
<1>5. /\ C!ToolUse(i, n).at = i /\ C!ToolUse(i, n).uses = {i} \X (1 .. n)
      /\ C!ToolUse(i, n).answers = {}
      /\ C!ToolResult(i).at = i + 1 /\ C!ToolResult(i).uses = {} /\ C!ToolResult(i).answers = {<<i, 1>>}
  BY DEF C!ToolUse, C!ToolResult
<1> QED
  BY <1>1, <1>2, <1>3, <1>4, <1>5

\* A request ends, its thread stored or not.
LEMMA ChatEnds ==
  ASSUME ChatInv, NEW s \in Sessions, tx' = [tx EXCEPT ![s] = C!Idle],
         UNCHANGED <<cleared, raced>>, fresh' \in Nat, fresh <= fresh',
         thread' \in Seq(Message), Len(thread') <= MaxMessages, Chained(thread'),
         Older(thread', fresh'), ~raced => Since(thread', cleared)
  PROVE  ChatInv'
<1>0. /\ ChatTypes /\ Afresh /\ tx \in [Sessions -> {C!Idle} \cup Chatting]
      /\ fresh \in Nat /\ cleared \in Nat /\ cleared <= fresh
  BY DEF ChatInv, ChatTypes
<1>1. tx'[s] = C!Idle /\ \A o \in Sessions \ {s} : tx'[o] = tx[o]
  BY <1>0
<1>2. cleared' <= fresh'
  BY <1>0, SMT
<1>3. ChatTypes'
  BY <1>0, <1>1, <1>2 DEF ChatTypes
<1>4. ASSUME NEW o \in Sessions, tx'[o] # C!Idle PROVE Asking(tx'[o], fresh')
  <2>1. tx'[o] = tx[o] /\ tx[o] # C!Idle /\ tx[o].messages \in Seq(Message) /\ Asking(tx[o], fresh)
    BY <1>0, <1>1, <1>4, Busy DEF ChatInv
  <2>2. Older(tx[o].messages, fresh')
    BY <1>0, <2>1, OlderGrows DEF Asking
  <2> QED
    BY <2>1, <2>2 DEF Asking
<1>5. Afresh'
  BY <1>0, <1>1 DEF Afresh
<1> QED
  BY <1>3, <1>4, <1>5 DEF ChatInv

\* The messages a tool call adds: the call, and its result.
LEMMA Called ==
  ASSUME ChatInv, NEW s \in Sessions, tx[s] # C!Idle, NEW n \in 1 .. 2
  PROVE  /\ C!WithTool(s, n) \in Seq(Message) /\ Chained(C!WithTool(s, n))
         /\ Older(C!WithTool(s, n), fresh + 2)
         /\ Len(C!WithTool(s, n)) = Len(tx[s].messages) + 2
         /\ \A i \in DOMAIN tx[s].messages :
              i \in DOMAIN C!WithTool(s, n) /\ C!WithTool(s, n)[i] = tx[s].messages[i]
         /\ Since(tx[s].messages, cleared) => Since(C!WithTool(s, n), cleared)
<1> DEFINE m == tx[s].messages
           a == C!ToolUse(fresh, n)
           b == C!ToolResult(fresh)
<1>0. /\ ChatTypes /\ fresh \in Nat /\ cleared \in Nat /\ cleared <= fresh
      /\ m \in Seq(Message) /\ Asking(tx[s], fresh)
  BY Busy DEF ChatInv, ChatTypes
<1>1. Chained(m) /\ Older(m, fresh) /\ Len(m) - 2 * tx[s].turn \in DOMAIN m
  BY <1>0 DEF Asking
<1>2. /\ a \in Message /\ a.at = fresh /\ a.answers = {} /\ \A u \in a.uses : u[1] = fresh
      /\ b \in Message /\ b.at = fresh + 1 /\ b.answers \subseteq a.uses /\ b.uses = {}
  BY <1>0, Messages
<1>3. C!WithTool(s, n) = m \o <<a, b>>
  BY DEF C!WithTool
<1> HIDE DEF m, a, b
<1>4. Len(m) \in Nat /\ Len(m) > 0 /\ fresh + 1 \in Nat /\ fresh <= fresh + 1 /\ (fresh + 1) + 1 = fresh + 2
      /\ Len(m) + 1 > 0 /\ (Len(m) + 1) + 1 = Len(m) + 2
  BY <1>0, <1>1, SMT
<1>10. Len(m) > 0 /\ a.answers \subseteq m[Len(m)].uses
  BY <1>2, <1>4
<1> DEFINE c == Append(m, a)
<1>5. /\ c \in Seq(Message) /\ Chained(c) /\ Older(c, fresh + 1) /\ Len(c) = Len(m) + 1
      /\ c[Len(m) + 1] = a /\ \A i \in DOMAIN m : i \in DOMAIN c /\ c[i] = m[i]
      /\ Since(m, cleared) => Since(c, cleared)
  BY <1>0, <1>1, <1>2, <1>10, Extended
<1>6. C!WithTool(s, n) = Append(c, b)
  BY <1>0, <1>2, <1>3, SMT
<1> HIDE DEF c
<1>7. cleared <= fresh + 1
  BY <1>0, SMT
<1>8. Len(c) > 0 /\ b.answers \subseteq c[Len(c)].uses /\ \A u \in b.uses : u[1] = fresh + 1
  BY <1>2, <1>4, <1>5
<1>9. /\ Append(c, b) \in Seq(Message) /\ Chained(Append(c, b)) /\ Older(Append(c, b), (fresh + 1) + 1)
      /\ Len(Append(c, b)) = Len(c) + 1
      /\ \A i \in DOMAIN c : i \in DOMAIN Append(c, b) /\ Append(c, b)[i] = c[i]
      /\ Since(c, cleared) => Since(Append(c, b), cleared)
  <2>1. PICK n1 \in Nat : n1 = fresh + 1
    BY <1>4
  <2>2. /\ c \in Seq(Message) /\ b \in Message /\ Chained(c) /\ Older(c, n1) /\ b.at = n1
        /\ \A u \in b.uses : u[1] = n1
        /\ Len(c) > 0 /\ b.answers \subseteq c[Len(c)].uses /\ cleared \in Nat /\ cleared <= n1
    BY <1>0, <1>2, <1>5, <1>7, <1>8, <2>1
  <2> QED
    BY <2>1, <2>2, Extended
<1> QED
  BY <1>4, <1>5, <1>6, <1>9 DEF m

\* The question of a request survives the trim: an exchange is shorter than the window.
LEMMA QuestionKept ==
  ASSUME ChatInv, NEW s \in Sessions, tx[s] # C!Idle, tx[s].turn < MaxTurns,
         NEW w \in Seq(Message), Chained(w),
         Len(w) = Len(tx[s].messages) + 1 \/ Len(w) = Len(tx[s].messages) + 2,
         \A i \in DOMAIN tx[s].messages : i \in DOMAIN w /\ w[i] = tx[s].messages[i]
  PROVE  \E i \in DOMAIN C!Trim(w) : C!Trim(w)[i] = C!Question(tx[s].asked)
<1> DEFINE m == tx[s].messages
           q == Len(m) - 2 * tx[s].turn
<1>0. /\ ChatTypes /\ m \in Seq(Message) /\ tx[s].turn \in Nat /\ tx[s].asked \in Nat
      /\ Asking(tx[s], fresh)
  BY Busy DEF ChatInv
<1>1. q \in DOMAIN m /\ m[q] = C!Question(tx[s].asked)
  BY <1>0 DEF Asking
<1>2. q \in DOMAIN w /\ w[q] = C!Question(tx[s].asked)
  BY <1>1
<1>4. Len(m) \in Nat /\ Len(w) \in Nat
  BY <1>0, SMT
<1>5. q > Len(w) - MaxMessages
  BY <1>0, <1>4, WindowAssumption, SMT
<1> HIDE DEF q
<1>6. w[q].role = "user" /\ w[q].answers = {}
  <2>1. \A x : C!Question(x).role = "user" /\ C!Question(x).answers = {}
    BY DEF C!Question
  <2> QED
    BY <1>2, <2>1
<1> QED
  BY <1>2, <1>5, <1>6, TrimQuestion

\* The history is read and the question appended.
LEMMA LoadStep ==
  ASSUME ChatInv, NEW s \in Sessions, C!LoadHistory(s)
  PROVE  ChatInv'
<1> DEFINE w == Append(thread, C!Question(fresh))
           t == [busy |-> TRUE, turn |-> 0, asked |-> fresh, focus |-> NoCampaign,
                 row |-> TRUE, messages |-> w]
<1>0. /\ ChatTypes /\ Afresh /\ tx \in [Sessions -> {C!Idle} \cup Chatting]
      /\ fresh \in Nat /\ cleared \in Nat /\ cleared <= fresh /\ thread \in Seq(Message)
      /\ Chained(thread) /\ Older(thread, fresh) /\ Len(thread) <= MaxMessages
  BY DEF ChatInv, ChatTypes
<1>1. /\ tx' = [tx EXCEPT ![s] = t] /\ fresh' = fresh + 1 /\ raced' = C!Overlaps
      /\ UNCHANGED <<thread, cleared>>
  BY DEF C!LoadHistory
<1>2. fresh + 1 \in Nat /\ fresh <= fresh + 1 /\ cleared <= fresh + 1
  BY <1>0, SMT
<1>3. /\ w \in Seq(Message) /\ Chained(w) /\ Older(w, fresh + 1)
      /\ Len(w) = Len(thread) + 1 /\ w[Len(thread) + 1] = C!Question(fresh)
      /\ Since(thread, cleared) => Since(w, cleared)
  <2>1. 1 \in 1 .. 2
    BY SMT
  <2>2. /\ C!Question(fresh) \in Message /\ C!Question(fresh).at = fresh
        /\ C!Question(fresh).uses = {} /\ C!Question(fresh).role = "user"
        /\ C!Question(fresh).answers = {}
    BY <1>0, <2>1, Messages
  <2> QED
    BY <1>0, <2>2, Extended
<1> HIDE DEF w
<1>4. t \in Chatting
  BY <1>0, <1>3, SMT DEF Chatting
<1>5. t.turn = 0 /\ t.messages = w /\ t.asked = fresh
  OBVIOUS
<1> HIDE DEF t
<1>6. Asking(t, fresh + 1)
  <2>1. Len(w) - 2 * 0 = Len(thread) + 1 /\ Len(thread) + 1 \in DOMAIN w /\ 0 <= MaxTurns
    BY <1>0, <1>3, WindowAssumption, SMT
  <2> QED
    BY <1>3, <1>5, <2>1 DEF Asking
<1>7. tx'[s] = t /\ \A o \in Sessions \ {s} : tx'[o] = tx[o]
  BY <1>0, <1>1
<1>8. Older(thread, fresh + 1)
  BY <1>0, <1>2, OlderGrows
<1>9. ChatTypes'
  BY <1>0, <1>1, <1>2, <1>4, <1>7 DEF ChatTypes
<1>10. ASSUME NEW o \in Sessions, tx'[o] # C!Idle PROVE Asking(tx'[o], fresh + 1)
  <2>1. CASE o = s
    BY <1>6, <1>7, <2>1
  <2>2. CASE o # s
    <3>1. tx'[o] = tx[o] /\ tx[o].messages \in Seq(Message) /\ Asking(tx[o], fresh)
      BY <1>0, <1>7, <1>10, <2>2, Busy DEF ChatInv
    <3>2. Older(tx[o].messages, fresh + 1)
      BY <1>0, <1>2, <3>1, OlderGrows DEF Asking
    <3> QED
      BY <3>1, <3>2 DEF Asking
  <2> QED
    BY <2>1, <2>2
<1>11. Afresh'
  <2> SUFFICES ASSUME ~raced' PROVE Afresh'
    BY DEF Afresh
  <2>1. ~raced /\ \A o \in Sessions : ~tx[o].busy
    BY <1>1 DEF C!Overlaps
  <2>2. \A o \in Sessions : tx[o] = C!Idle
    BY <1>0, <2>1, Busy
  <2>3. Since(thread, cleared) /\ Since(w, cleared)
    BY <1>0, <1>3, <2>1 DEF Afresh
  <2> QED
    BY <1>1, <1>5, <1>7, <2>2, <2>3 DEF Afresh
<1> QED
  BY <1>0, <1>1, <1>8, <1>9, <1>10, <1>11 DEF ChatInv

\* An exchange is stored, trimmed.
LEMMA SaveStep ==
  ASSUME ChatInv, NEW s \in Sessions, tx[s] # C!Idle, NEW w \in Seq(Message), Chained(w),
         fresh' \in Nat, fresh <= fresh', Older(w, fresh'),
         Since(tx[s].messages, cleared) => Since(w, cleared), C!SaveHistory(s, w)
  PROVE  ChatInv'
<1>0. Afresh /\ cleared \in Nat
  BY DEF ChatInv, ChatTypes
<1>1. /\ tx' = [tx EXCEPT ![s] = C!Idle] /\ UNCHANGED <<cleared, raced>> /\ thread' = C!Trim(w)
  BY DEF C!SaveHistory
<1>2. /\ C!Trim(w) \in Seq(Message) /\ Chained(C!Trim(w)) /\ Len(C!Trim(w)) <= MaxMessages
      /\ Older(C!Trim(w), fresh') /\ (Since(w, cleared) => Since(C!Trim(w), cleared))
  BY <1>0, TrimKeeps
<1>3. ~raced => Since(C!Trim(w), cleared)
  BY <1>0, <1>2 DEF Afresh
<1> QED
  BY <1>1, <1>2, <1>3, ChatEnds

\* The messages of a reply.
LEMMA Replied ==
  ASSUME ChatInv, NEW s \in Sessions, tx[s] # C!Idle
  PROVE  LET w == Append(tx[s].messages, C!Reply(fresh)) IN
         /\ w \in Seq(Message) /\ Chained(w) /\ Older(w, fresh + 1)
         /\ Len(w) = Len(tx[s].messages) + 1
         /\ \A i \in DOMAIN tx[s].messages : i \in DOMAIN w /\ w[i] = tx[s].messages[i]
         /\ Since(tx[s].messages, cleared) => Since(w, cleared)
<1> DEFINE m == tx[s].messages
<1>0. /\ ChatTypes /\ fresh \in Nat /\ cleared \in Nat /\ cleared <= fresh
      /\ m \in Seq(Message) /\ Asking(tx[s], fresh)
  BY Busy DEF ChatInv, ChatTypes
<1>1. Chained(m) /\ Older(m, fresh) /\ Len(m) - 2 * tx[s].turn \in DOMAIN m
  BY <1>0 DEF Asking
<1>2. Len(m) > 0 /\ 1 \in 1 .. 2
  BY <1>0, <1>1, SMT
<1>3. /\ C!Reply(fresh) \in Message /\ C!Reply(fresh).at = fresh
      /\ \A u \in C!Reply(fresh).uses : u[1] = fresh
      /\ Len(m) > 0 /\ C!Reply(fresh).answers \subseteq m[Len(m)].uses
  BY <1>0, <1>2, Messages
<1> HIDE DEF m
<1>4. LET w == Append(m, C!Reply(fresh)) IN
         /\ w \in Seq(Message) /\ Chained(w) /\ Older(w, fresh + 1)
         /\ Len(w) = Len(m) + 1
         /\ \A i \in DOMAIN m : i \in DOMAIN w /\ w[i] = m[i]
         /\ Since(m, cleared) => Since(w, cleared)
  BY <1>0, <1>1, <1>3, Extended
<1> QED
  BY <1>4 DEF m

\* The model's reply, or a tool that asks for confirmation, ends the exchange.
LEMMA StoredSteps ==
  ASSUME ChatInv, NEW s \in Sessions,
         C!Answer(s) \/ \E n \in 1 .. 2 : C!AskConfirmation(s, n)
  PROVE  /\ ChatInv'
         /\ \E i \in DOMAIN thread' : thread'[i] = C!Question(tx[s].asked)
         /\ tx[s].busy
<1>0. ChatTypes /\ fresh \in Nat /\ fresh + 1 \in Nat /\ fresh + 2 \in Nat /\ fresh <= fresh + 1
      /\ fresh <= fresh + 2
  <2>1. ChatTypes /\ fresh \in Nat
    BY DEF ChatInv, ChatTypes
  <2> QED
    BY <2>1, SMT
<1>1. tx[s].busy /\ tx[s] # C!Idle /\ tx[s].turn < MaxTurns
  BY <1>0, Busy DEF C!Answer, C!AskConfirmation, C!Thinking
<1>2. ASSUME NEW w \in Seq(Message), Chained(w), fresh' \in Nat, fresh <= fresh', Older(w, fresh'),
             Len(w) = Len(tx[s].messages) + 1 \/ Len(w) = Len(tx[s].messages) + 2,
             \A i \in DOMAIN tx[s].messages : i \in DOMAIN w /\ w[i] = tx[s].messages[i],
             Since(tx[s].messages, cleared) => Since(w, cleared), C!SaveHistory(s, w)
      PROVE  ChatInv' /\ \E i \in DOMAIN thread' : thread'[i] = C!Question(tx[s].asked)
  <2>1. ChatInv'
    BY <1>1, <1>2, SaveStep
  <2>2. thread' = C!Trim(w)
    BY <1>2 DEF C!SaveHistory
  <2>3. \E i \in DOMAIN C!Trim(w) : C!Trim(w)[i] = C!Question(tx[s].asked)
    BY <1>1, <1>2, QuestionKept
  <2> QED
    BY <2>1, <2>2, <2>3
<1>3. CASE C!Answer(s)
  <2> DEFINE w == Append(tx[s].messages, C!Reply(fresh))
  <2>1. C!SaveHistory(s, w) /\ fresh' = fresh + 1
    BY <1>3 DEF C!Answer
  <2>2. /\ w \in Seq(Message) /\ Chained(w) /\ Older(w, fresh + 1)
        /\ Len(w) = Len(tx[s].messages) + 1
        /\ \A i \in DOMAIN tx[s].messages : i \in DOMAIN w /\ w[i] = tx[s].messages[i]
        /\ Since(tx[s].messages, cleared) => Since(w, cleared)
    BY <1>1, Replied
  <2> HIDE DEF w
  <2> QED
    BY <1>0, <1>1, <1>2, <2>1, <2>2
<1>4. ASSUME NEW n \in 1 .. 2, C!AskConfirmation(s, n)
      PROVE  ChatInv' /\ \E i \in DOMAIN thread' : thread'[i] = C!Question(tx[s].asked)
  <2> DEFINE w == C!WithTool(s, n)
  <2>1. C!SaveHistory(s, w) /\ fresh' = fresh + 2
    BY <1>4 DEF C!AskConfirmation
  <2>2. /\ w \in Seq(Message) /\ Chained(w) /\ Older(w, fresh + 2)
        /\ Len(w) = Len(tx[s].messages) + 2
        /\ \A i \in DOMAIN tx[s].messages : i \in DOMAIN w /\ w[i] = tx[s].messages[i]
        /\ Since(tx[s].messages, cleared) => Since(w, cleared)
    BY <1>1, Called
  <2> HIDE DEF w
  <2> QED
    BY <1>0, <1>2, <2>1, <2>2
<1> QED
  BY <1>1, <1>3, <1>4

\* A tool runs and the model is asked again.
LEMMA DispatchStep ==
  ASSUME ChatInv, NEW s \in Sessions, NEW n \in 1 .. 2, NEW c \in Campaigns \cup {NoCampaign},
         C!DispatchTool(s, n, c)
  PROVE  ChatInv'
<1> DEFINE w == C!WithTool(s, n)
<1>0. /\ ChatTypes /\ Afresh /\ tx \in [Sessions -> {C!Idle} \cup Chatting]
      /\ fresh \in Nat /\ cleared \in Nat /\ cleared <= fresh /\ thread \in Seq(Message)
      /\ Chained(thread) /\ Older(thread, fresh) /\ Len(thread) <= MaxMessages
  BY DEF ChatInv, ChatTypes
<1>1. tx[s] # C!Idle /\ tx[s] \in Chatting /\ tx[s].turn \in Nat /\ tx[s].turn < MaxTurns
      /\ tx[s].messages \in Seq(Message) /\ Asking(tx[s], fresh)
  BY <1>0, Busy DEF C!DispatchTool, C!Thinking, ChatInv
<1>2. /\ w \in Seq(Message) /\ Chained(w) /\ Older(w, fresh + 2)
      /\ Len(w) = Len(tx[s].messages) + 2
      /\ \A i \in DOMAIN tx[s].messages : i \in DOMAIN w /\ w[i] = tx[s].messages[i]
      /\ Since(tx[s].messages, cleared) => Since(w, cleared)
  BY <1>1, Called
<1> HIDE DEF w
<1>3. fresh' = fresh + 2 /\ UNCHANGED <<thread, cleared, raced>>
  BY DEF C!DispatchTool
<1>4. fresh + 2 \in Nat /\ fresh <= fresh + 2 /\ cleared <= fresh + 2
  BY <1>0, SMT
<1>5. PICK t \in Chatting : /\ tx' = [tx EXCEPT ![s] = t]
                            /\ t.turn = tx[s].turn + 1 /\ t.messages = w /\ t.asked = tx[s].asked
  <2> DEFINE t == [tx[s] EXCEPT !.turn = @ + 1, !.messages = w,
                                !.focus = IF c = NoCampaign THEN @ ELSE c,
                                !.row = @ /\ (c # NoCampaign => row)]
  <2>1. tx' = [tx EXCEPT ![s] = t]
    BY DEF C!DispatchTool, w
  <2>2. t \in Chatting
    <3> DEFINE f == IF c = NoCampaign THEN tx[s].focus ELSE c
               r == tx[s].row /\ (c # NoCampaign => row)
    <3>1. tx[s].turn + 1 \in Nat
      BY <1>1, SMT
    <3>2. f \in Campaigns \cup {NoCampaign}
      BY <1>1 DEF Chatting
    <3>3. r \in BOOLEAN
      OBVIOUS
    <3>4. t = [tx[s] EXCEPT !.turn = tx[s].turn + 1, !.messages = w, !.focus = f, !.row = r]
      BY <1>1 DEF Chatting
    <3> HIDE DEF f, r, t
    <3> QED
      BY <1>1, <1>2, <3>1, <3>2, <3>3, <3>4 DEF Chatting
  <2>3. t.turn = tx[s].turn + 1 /\ t.messages = w /\ t.asked = tx[s].asked
    BY <1>1 DEF Chatting
  <2> HIDE DEF t
  <2> QED
    BY <2>1, <2>2, <2>3
<1>6. tx'[s] = t /\ \A o \in Sessions \ {s} : tx'[o] = tx[o]
  BY <1>0, <1>5
<1>7. Asking(t, fresh + 2)
  <2> DEFINE m == tx[s].messages
  <2>1. /\ Len(m) - 2 * tx[s].turn \in DOMAIN m /\ m[Len(m) - 2 * tx[s].turn] = C!Question(tx[s].asked)
    BY <1>1 DEF Asking
  <2>2. Len(w) - 2 * t.turn = Len(m) - 2 * tx[s].turn /\ t.turn <= MaxTurns
    <3>1. Len(m) \in Nat
      BY <1>1, SMT
    <3>2. /\ tx[s].turn \in Nat /\ tx[s].turn < MaxTurns /\ MaxTurns \in Nat
          /\ t.turn = tx[s].turn + 1 /\ Len(w) = Len(m) + 2
      BY <1>1, <1>2, <1>5, WindowAssumption
    <3>3. ASSUME NEW a \in Nat, NEW l \in Nat, NEW max \in Nat, a < max
          PROVE  (l + 2) - 2 * (a + 1) = l - 2 * a /\ a + 1 <= max
      BY <3>3, SMTT(20)
    <3> HIDE DEF m
    <3> QED
      BY <3>1, <3>2, <3>3
  <2> HIDE DEF m
  <2>3. Len(m) - 2 * tx[s].turn \in DOMAIN w /\ w[Len(m) - 2 * tx[s].turn] = C!Question(tx[s].asked)
    BY <1>2, <2>1 DEF m
  <2> QED
    BY <1>2, <1>5, <2>2, <2>3 DEF Asking
<1>8. ASSUME NEW o \in Sessions, tx'[o] # C!Idle PROVE Asking(tx'[o], fresh + 2)
  <2>1. CASE o = s
    BY <1>6, <1>7, <2>1
  <2>2. CASE o # s
    <3>1. tx'[o] = tx[o] /\ tx[o].messages \in Seq(Message) /\ Asking(tx[o], fresh)
      BY <1>0, <1>6, <1>8, <2>2, Busy DEF ChatInv
    <3>2. Older(tx[o].messages, fresh + 2)
      BY <1>0, <1>4, <3>1, OlderGrows DEF Asking
    <3> QED
      BY <3>1, <3>2 DEF Asking
  <2> QED
    BY <2>1, <2>2
<1>9. Older(thread, fresh + 2)
  BY <1>0, <1>4, OlderGrows
<1>10. ChatTypes'
  BY <1>0, <1>3, <1>4, <1>5 DEF ChatTypes
<1>11. Afresh'
  <2> SUFFICES ASSUME ~raced PROVE Afresh'
    BY <1>3 DEF Afresh
  <2>1. Since(tx[s].messages, cleared)
    BY <1>0, <1>1 DEF Afresh
  <2> QED
    BY <1>0, <1>1, <1>2, <1>3, <1>5, <1>6, <2>1 DEF Afresh
<1> QED
  BY <1>0, <1>3, <1>8, <1>9, <1>10, <1>11 DEF ChatInv

\* A request that fails, or gives up, stores no message.
LEMMA UnstoredSteps ==
  ASSUME ChatInv, NEW s \in Sessions, C!GiveUp(s) \/ C!Fail(s)
  PROVE  ChatInv'
<1>1. tx' = [tx EXCEPT ![s] = C!Idle] /\ UNCHANGED <<cleared, raced, fresh, thread>>
  BY DEF C!GiveUp, C!Fail
<1>2. /\ fresh \in Nat /\ thread \in Seq(Message) /\ Len(thread) <= MaxMessages
      /\ Chained(thread) /\ Older(thread, fresh) /\ (~raced => Since(thread, cleared))
  BY DEF ChatInv, ChatTypes, Afresh
<1>3. fresh <= fresh
  BY <1>2, SMT
<1> QED
  BY <1>1, <1>2, <1>3, ChatEnds

\* "Start over" forgets the thread; a request in flight makes the run a raced one.
LEMMA ClearStep == ASSUME ChatInv, C!ClearHistory PROVE ChatInv'
<1>0. /\ ChatTypes /\ tx \in [Sessions -> {C!Idle} \cup Chatting] /\ fresh \in Nat
      /\ \A s \in Sessions : tx[s] # C!Idle => Asking(tx[s], fresh)
  BY DEF ChatInv, ChatTypes
<1>1. /\ thread' = <<>> /\ cleared' = fresh /\ raced' = C!Overlaps /\ UNCHANGED <<fresh, tx>>
  BY DEF C!ClearHistory, C!Forget
<1>2. /\ <<>> \in Seq(Message) /\ DOMAIN <<>> = {} /\ Len(<<>>) <= MaxMessages /\ fresh <= fresh
  BY <1>0, WindowAssumption, SMT
<1>3. Chained(<<>>) /\ Older(<<>>, fresh) /\ Since(<<>>, fresh)
  BY <1>2 DEF Chained, Older, Since
<1>4. ChatTypes'
  BY <1>0, <1>1, <1>2 DEF ChatTypes
<1>5. Afresh'
  <2> SUFFICES ASSUME ~raced' PROVE Afresh'
    BY DEF Afresh
  <2>1. \A o \in Sessions : tx[o] = C!Idle
    BY <1>0, <1>1, Busy DEF C!Overlaps
  <2> QED
    BY <1>1, <1>3, <2>1 DEF Afresh
<1> QED
  BY <1>0, <1>1, <1>2, <1>3, <1>4, <1>5 DEF ChatInv

LEMMA ChatStep == ASSUME ChatInv, [C!Next]_(C!vars) PROVE ChatInv'
<1>1. CASE UNCHANGED C!vars
  <2>1. UNCHANGED <<thread, fresh, cleared, raced, tx>>
    BY <1>1 DEF C!vars
  <2> QED
    BY <2>1 DEF ChatInv, ChatTypes, Afresh
<1>2. CASE C!Next
  BY <1>2, LoadStep, StoredSteps, DispatchStep, UnstoredSteps, ClearStep DEF C!Next
<1> QED
  BY <1>1, <1>2

\* The thread is replayable and holds nothing older than the last "Start over".
LEMMA ChatSafe == ChatInv => C!ThreadReplayable /\ C!StartedOver
<1> SUFFICES ASSUME ChatInv PROVE C!ThreadReplayable /\ C!StartedOver
  OBVIOUS
<1>0. thread \in Seq(Message) /\ Chained(thread) /\ Len(thread) <= MaxMessages /\ Afresh
  BY DEF ChatInv, ChatTypes
<1>1. C!StartedOver
  BY <1>0 DEF C!StartedOver, Afresh, Since
<1>2. thread # <<>> => 1 \in DOMAIN thread
  BY <1>0, SMT
<1>3. \A i \in 2 .. Len(thread) : i \in DOMAIN thread /\ i > 1
  BY <1>0, SMT
<1> QED
  BY <1>0, <1>1, <1>2, <1>3 DEF C!ThreadReplayable, Chained

\* A thread that changes holds the question of the request that stored it.
LEMMA NewestStep == ASSUME ChatInv, [C!Next]_(C!vars) PROVE C!NewestKeptStep
<1> SUFFICES ASSUME thread' # thread, thread' # <<>>
             PROVE  \E s \in Sessions : tx[s].busy /\
                      \E i \in DOMAIN thread' : thread'[i] = C!Question(tx[s].asked)
  BY DEF C!NewestKeptStep
<1>1. PICK s \in Sessions : C!Answer(s) \/ \E n \in 1 .. 2 : C!AskConfirmation(s, n)
  BY DEF C!Next, C!vars, C!LoadHistory, C!DispatchTool, C!GiveUp, C!Fail, C!ClearHistory, C!Forget
<1> QED
  BY <1>1, StoredSteps
=============================================================================
