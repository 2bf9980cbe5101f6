-------------------------- MODULE IncidentAgentProofs --------------------------
(***************************************************************************)
(* The incident agent for any documents, drafts and numbers of alerts and  *)
(* faults.  The invariant follows one request through its steps            *)
(* (Progress), the approvals from the document over the corpus and the     *)
(* response to the records (Approval), and the newest incident from SET to *)
(* the answer (Ordered).                                                   *)
(***************************************************************************)
EXTENDS IncidentAgent, TLAPS

Deciders ==
  {"retrieve", "generate", "validate", "criticise", "judge", "refine", "finalize"}

\* What a request has in hand at each of its steps.
Progress ==
  /\ pc # "idle" => alert \in Fingerprints
  /\ pc \in Deciders => corpus \in Documents
  /\ pc \in {"validate", "criticise", "judge", "refine", "finalize"} => draft \in Draft
  /\ pc \in {"refine", "finalize"} => refined = None
  /\ pc \in {"criticise", "judge"} => Passes(InHand)
  /\ pc = "set" => result \in Published

\* Whatever is or may be used for a confirmation has been approved.
Approval ==
  /\ Mapping(document) \subseteq approved
  /\ corpus # None => Mapping(corpus) \subseteq approved
  /\ result # None /\ result.cause # None =>
       <<result.fingerprint, result.cause>> \in approved
  /\ ConfirmationApproved

\* From its SET to its answer the newest record is on its way to the front of
\* the index.
Ordered ==
  /\ pc \in {"push", "trim", "answer"} => records # <<>> /\ NewId \notin answered
  /\ pc = "push" => \A i \in DOMAIN index : index[i] < NewId
  /\ pc \in {"trim", "answer"} => index # <<>> /\ index[1] = NewId
  /\ AnsweredIsKept

\* The inductive invariant.
Inv == TypeOK /\ Progress /\ Approval /\ UnreviewedWithheld /\ Ordered

-----------------------------------------------------------------------------
\* LPUSH: the new id in front of the others, once or twice.
LEMMA PushSeq ==
  ASSUME NEW S, NEW q \in Seq(S), NEW x \in S
  PROVE  /\ <<x>> \o q \in Seq(S) /\ Len(<<x>> \o q) = Len(q) + 1
         /\ (<<x>> \o q)[1] = x
         /\ \A i \in DOMAIN q : (<<x>> \o q)[i + 1] = q[i]
OBVIOUS

LEMMA PushTwiceSeq ==
  ASSUME NEW S, NEW q \in Seq(S), NEW x \in S
  PROVE  /\ <<x, x>> \o q \in Seq(S) /\ Len(<<x, x>> \o q) = Len(q) + 2
         /\ (<<x, x>> \o q)[1] = x /\ (<<x, x>> \o q)[2] = x
         /\ \A i \in DOMAIN q : (<<x, x>> \o q)[i + 2] = q[i]
<1>1. <<x, x>> \o q \in Seq(S) /\ Len(<<x, x>> \o q) = Len(q) + 2
  OBVIOUS
<1>2. (<<x, x>> \o q)[1] = x /\ (<<x, x>> \o q)[2] = x
  OBVIOUS
<1>3. \A i \in DOMAIN q : (<<x, x>> \o q)[i + 2] = q[i]
  OBVIOUS
<1>4. QED  BY <1>1, <1>2, <1>3

\* SET: one more record, the others as they were.
LEMMA AppendSeq ==
  ASSUME NEW S, NEW q \in Seq(S), NEW x \in S, NEW new, new = Append(q, x)
  PROVE  /\ new \in Seq(S) /\ Len(new) = Len(q) + 1 /\ new # <<>>
         /\ DOMAIN new = DOMAIN q \cup {Len(q) + 1}
         /\ \A i \in DOMAIN q : new[i] = q[i]
         /\ new[Len(q) + 1] = x
OBVIOUS

\* A sequence over a set is one over a larger set.
LEMMA WiderSeq ==
  ASSUME NEW S, NEW T, S \subseteq T, NEW q \in Seq(S)
  PROVE  q \in Seq(T)
OBVIOUS

\* None is told apart from everything it stands in for.
LEMMA NoneIsFresh ==
  /\ None \notin Fingerprints /\ None \notin Families
  /\ None \notin Document /\ None \notin Draft /\ None \notin Documents
  /\ None \notin Published
BY NoneFresh, DocumentsTyped

\* A fallback is a draft.
LEMMA DraftsAreDrafts == Drafts \cup Fallbacks \subseteq Draft
BY DraftsTyped DEF Fallbacks, Draft, Hypotheses

-----------------------------------------------------------------------------
\* The initial state: an empty store, no process, no request.
LEMMA InitInv == Init => Inv
<1> SUFFICES ASSUME Init PROVE Inv
  OBVIOUS
<1>1. TypeOK
  BY IncidentsBound, FaultsBound DEF Init, TypeOK, Steps, Mapping
<1>2. Progress /\ UnreviewedWithheld
  BY DEF Init, Progress, UnreviewedWithheld, Deciders
<1>3. Approval
  BY DEF Init, Approval, ConfirmationApproved
<1>4. Ordered
  BY DEF Init, Ordered, AnsweredIsKept
<1>5. QED  BY <1>1, <1>2, <1>3, <1>4 DEF Inv

-----------------------------------------------------------------------------
(* A decision touches neither the stores nor the history: of the invariant *)
(* it can only disturb what concerns the request.                          *)

LEMMA DecidingInv ==
  ASSUME Inv, Deciding, pc \notin {"push", "trim", "answer"},
         pc' \in Deciders \cup {"set"},
         draft' \in Draft \cup {None}, refined' \in Draft \cup {None},
         criticism' \in Criticism \cup {None},
         result' \in Published \cup {None},
         Progress',
         result' # result => /\ UnreviewedWithheld'
                             /\ result'.cause # None =>
                                  <<result'.fingerprint, result'.cause>> \in approved
  PROVE  Inv'
<1>1. TypeOK'
  BY DEF Inv, TypeOK, Deciding, redis, history, Deciders, Steps
<1>2. UnreviewedWithheld'
  BY DEF Inv, UnreviewedWithheld
<1>3. Approval'
  BY DEF Inv, Approval, ConfirmationApproved, Deciding, redis, history, Mapping, Unique
<1>4. Ordered'
  BY DEF Inv, Ordered, AnsweredIsKept, Deciding, redis, history, NewId, Deciders
<1>5. QED  BY <1>1, <1>2, <1>3, <1>4 DEF Inv

\* An approved example answers.
LEMMA ExactInv ==
  ASSUME Inv, NEW k \in Families, RetrieveExact(k)
  PROVE  Inv'
<1>1. alert \in Fingerprints /\ corpus \in Documents
  BY DEF RetrieveExact, Inv, Progress, Deciders
<1>2. result' = Confirmed(k) /\ result' \in Published
  BY <1>1 DEF RetrieveExact, Confirmed, Published, Hypotheses
<1>3. <<alert, k>> \in approved
  BY <1>1, NoneIsFresh DEF RetrieveExact, Confirmable, Inv, Approval, Mapping
<1>4. UnreviewedWithheld'
  BY <1>2, NoneIsFresh DEF UnreviewedWithheld, Confirmed
<1>5. Progress'
  BY <1>1, <1>2 DEF RetrieveExact, Progress, Deciders, Deciding
<1>6. result'.fingerprint = alert /\ result'.cause = k
  BY <1>2 DEF Confirmed
<1>7. QED
  BY <1>2, <1>3, <1>4, <1>5, <1>6, DecidingInv
     DEF RetrieveExact, Inv, TypeOK

\* A draft is accepted, or downgraded.
LEMMA AdvisoryInv ==
  ASSUME Inv, CriticPasses \/ Finalize
  PROVE  Inv'
<1>1. alert \in Fingerprints /\ corpus \in Documents /\ draft \in Draft
  BY DEF CriticPasses, Finalize, Inv, Progress, Deciders
<1>2. InHand \in Draft
  BY <1>1 DEF InHand, Inv, TypeOK
<1>3. Downgrade(draft) \in Draft /\ Downgrade(draft).hypothesis # "unknown"
      /\ Downgrade(draft).action = "investigation"
  BY <1>1 DEF Downgrade, Draft, Hypotheses
<1>4. /\ result' \in Published
      /\ result'.cause = None
      /\ result'.hypothesis # "unknown"
      /\ result'.reviewed => /\ result'.hypothesis \in {"none", "cited"}
                             /\ result'.evidence = "known"
      /\ ~result'.reviewed => result'.action = "investigation"
  <2>1. CASE CriticPasses
    <3>1. InHand.hypothesis \in {"none", "cited"} /\ InHand.evidence = "known"
      BY <2>1 DEF CriticPasses, Inv, Progress, Passes
    <3>2. QED  BY <1>1, <1>2, <2>1, <3>1 DEF CriticPasses, Advisory, Published, Draft
  <2>2. CASE Finalize
    BY <1>1, <1>3, <2>2 DEF Finalize, Advisory, Published, Draft
  <2>3. QED  BY <2>1, <2>2
<1>5. UnreviewedWithheld'
  BY <1>4 DEF UnreviewedWithheld
<1>6. Progress'
  BY <1>1, <1>4 DEF CriticPasses, Finalize, Progress, Deciders, Deciding
<1>7. QED
  BY <1>4, <1>5, <1>6, DecidingInv
     DEF CriticPasses, Finalize, Inv, TypeOK

\* The other steps of a decision choose the draft and the next gate.
LEMMA GateInv ==
  ASSUME Inv,
         \/ RetrieveAdvice \/ \E d \in Drafts \cup Fallbacks : Generate(d)
         \/ Validate \/ Invalidate \/ CriticRejects
         \/ \E c \in Criticism : Criticise(c)
         \/ RefineFails \/ \E d \in Drafts : Refine(d)
  PROVE  Inv'
<1>1. /\ Deciding /\ result' = result
      /\ pc \in Deciders /\ pc' \in Deciders
  BY DEF RetrieveAdvice, Generate, Validate, Invalidate, Criticise, CriticRejects, Reject,
         RefineFails, Refine, Deciders
<1>2. /\ draft' \in Draft \cup {None} /\ refined' \in Draft \cup {None}
      /\ criticism' \in Criticism \cup {None}
  BY DraftsAreDrafts DEF Inv, TypeOK, RetrieveAdvice, Generate, Validate, Invalidate,
                         Criticise, CriticRejects, Reject, RefineFails, Refine
<1>3. Progress'
  <2>1. alert' \in Fingerprints /\ corpus' \in Documents
    BY <1>1 DEF Deciding, Inv, Progress, Deciders
  <2>2. pc' \in {"validate", "criticise", "judge", "refine", "finalize"} => draft' \in Draft
    BY DraftsAreDrafts DEF Inv, Progress, RetrieveAdvice, Generate, Validate, Invalidate,
                           Criticise, CriticRejects, Reject, RefineFails, Refine
  <2>3. pc' \in {"criticise", "judge"} => Passes(InHand)'
    BY DEF RetrieveAdvice, Generate, Validate, Invalidate, Criticise, CriticRejects, Reject,
           RefineFails, Refine, Inv, Progress, Passes, InHand
  <2>4. pc' \in {"refine", "finalize"} => refined' = None
    BY DEF Inv, Progress, RetrieveAdvice, Generate, Validate, Invalidate, Criticise,
           CriticRejects, Reject, RefineFails, Refine
  <2>5. QED  BY <1>1, <2>1, <2>2, <2>3, <2>4 DEF Progress, Deciders
<1>4. QED
  BY <1>1, <1>2, <1>3, DecidingInv DEF Deciders, Inv, TypeOK

-----------------------------------------------------------------------------
(* The three calls of IncidentStore.save. *)

LEMMA SetInv == ASSUME Inv, Set PROVE Inv'
<1>1. result \in Published /\ alert \in Fingerprints
  BY DEF Set, Inv, Progress
<1>2. VerdictOf(result) \in Verdict
  BY <1>1 DEF VerdictOf, Verdict, Published
<1>3. /\ records' \in Seq(Verdict) /\ Len(records') = Len(records) + 1
      /\ \A i \in DOMAIN records : records'[i] = records[i]
      /\ records'[Len(records) + 1] = VerdictOf(result)
      /\ DOMAIN records' = DOMAIN records \cup {Len(records) + 1}
      /\ records' # <<>>
  <2>1. records \in Seq(Verdict) /\ records' = Append(records, VerdictOf(result))
    BY DEF Set, Inv, TypeOK
  <2>2. QED  BY <1>2, <2>1, AppendSeq
<1>4. index' \in Seq(DOMAIN records')
  BY <1>3, WiderSeq DEF Set, Inv, TypeOK
<1>5. TypeOK'
  BY <1>3, <1>4 DEF Inv, TypeOK, Set, request, history, Steps
<1>6. Progress'
  BY <1>1 DEF Set, Progress, Deciders, request
<1>7. UnreviewedWithheld'
  BY DEF Set, Inv, UnreviewedWithheld, request
<1>8. Approval'
  <2>1. ConfirmationApproved'
    <3>1. VerdictOf(result).cause # None =>
            <<VerdictOf(result).fingerprint, VerdictOf(result).cause>> \in approved
      BY <1>1, NoneIsFresh DEF Inv, Approval, VerdictOf, UnreviewedWithheld, Published
    <3>2. QED  BY <1>3, <3>1 DEF Set, Inv, Approval, ConfirmationApproved, history
  <2>2. QED  BY <2>1 DEF Set, Inv, Approval, request, history, Mapping, Unique
<1>9. Ordered'
  <2>1. \A i \in DOMAIN index : index[i] <= Len(records)
    BY DEF Inv, TypeOK
  <2>2. Len(records') \notin answered
    BY <1>3 DEF Inv, TypeOK
  <2>3. QED
    BY <1>3, <2>1, <2>2 DEF Set, Inv, TypeOK, Ordered, AnsweredIsKept, NewId, history
<1>10. QED  BY <1>5, <1>6, <1>7, <1>8, <1>9 DEF Inv

LEMMA PushInv == ASSUME Inv, Push \/ PushRepeated PROVE Inv'
<1>1. NewId \in DOMAIN records /\ NewId \in Nat
  BY DEF Push, PushRepeated, Inv, TypeOK, Ordered, NewId
<1>2. index \in Seq(DOMAIN records) /\ Len(index) \in Nat
  BY DEF Inv, TypeOK
<1>0. PICK n \in {1, 2} :
        \/ n = 1 /\ index' = <<NewId>> \o index
        \/ n = 2 /\ index' = <<NewId, NewId>> \o index /\ PushRepeated
  BY DEF Push, PushRepeated
<1>3. /\ index' \in Seq(DOMAIN records) /\ index'[1] = NewId
      /\ \A i \in DOMAIN index : index'[i + n] = index[i]
      /\ \A i \in 1 .. n : index'[i] = NewId
      /\ Len(index') = Len(index) + n
      /\ DOMAIN index' = 1 .. Len(index) + n
  <2>1. /\ index' \in Seq(DOMAIN records) /\ Len(index') = Len(index) + n
        /\ \A i \in 1 .. n : index'[i] = NewId
        /\ \A i \in DOMAIN index : index'[i + n] = index[i]
    <3>1. CASE n = 1
      <4>1. index' = <<NewId>> \o index
        BY <1>0, <3>1
      <4>2. /\ index' \in Seq(DOMAIN records) /\ Len(index') = Len(index) + 1
            /\ index'[1] = NewId
            /\ \A i \in DOMAIN index : index'[i + 1] = index[i]
        <5>1. NewId \in DOMAIN records /\ index \in Seq(DOMAIN records)
          BY <1>1, <1>2
        <5>2. /\ <<NewId>> \o index \in Seq(DOMAIN records)
              /\ Len(<<NewId>> \o index) = Len(index) + 1
              /\ (<<NewId>> \o index)[1] = NewId
              /\ \A i \in DOMAIN index : (<<NewId>> \o index)[i + 1] = index[i]
          BY <5>1, PushSeq
        <5>3. QED  BY ONLY <4>1, <5>2, ZenonT(30)
      <4>3. QED  BY ONLY <3>1, <4>2, SMTT(30)
    <3>2. CASE n = 2
      <4>1. index' = <<NewId, NewId>> \o index
        BY <1>0, <3>2
      <4>2. /\ index' \in Seq(DOMAIN records) /\ Len(index') = Len(index) + 2
            /\ index'[1] = NewId /\ index'[2] = NewId
            /\ \A i \in DOMAIN index : index'[i + 2] = index[i]
        <5>1. NewId \in DOMAIN records /\ index \in Seq(DOMAIN records)
          BY <1>1, <1>2
        <5>2. /\ <<NewId, NewId>> \o index \in Seq(DOMAIN records)
              /\ Len(<<NewId, NewId>> \o index) = Len(index) + 2
              /\ (<<NewId, NewId>> \o index)[1] = NewId
              /\ (<<NewId, NewId>> \o index)[2] = NewId
              /\ \A i \in DOMAIN index : (<<NewId, NewId>> \o index)[i + 2] = index[i]
          BY <5>1, PushTwiceSeq
        <5>3. QED  BY ONLY <4>1, <5>2, ZenonT(30)
      <4>3. QED  BY ONLY <3>2, <4>2, SMTT(30)
    <3>3. QED  BY <3>1, <3>2
  <2>2. QED  BY <1>2, <1>0, <2>1
<1>4. TypeOK'
  <2>1. faults' \in 0 .. MaxFaults
    BY FaultsBound DEF Inv, TypeOK, Push, PushRepeated, Fault, history
  <2>2. QED
    BY <1>3, <2>1 DEF Inv, TypeOK, Push, PushRepeated, request, history, Steps
<1>5. Progress' /\ UnreviewedWithheld' /\ Approval'
  BY DEF Push, PushRepeated, Inv, Progress, Deciders, UnreviewedWithheld, Approval,
         ConfirmationApproved, request, history, Mapping, Unique
<1>6. Ordered'
  <2>1. /\ \A i \in DOMAIN index : index[i] < NewId
        /\ NewId \notin answered /\ records # <<>> /\ AnsweredIsKept
    BY DEF Push, PushRepeated, Inv, Ordered
  <2>2. /\ UNCHANGED <<records, answered>> /\ pc' = "trim"
        /\ faults \in Nat /\ faults' \in Nat
        /\ faults' >= faults /\ (n = 2 => faults' > 0)
    <3>1. CASE n = 1
      BY <3>1, FaultsBound DEF Push, PushRepeated, Fault, history, Inv, TypeOK
    <3>2. CASE n = 2
      BY <1>0, <3>2, FaultsBound DEF PushRepeated, Fault, Inv, TypeOK
    <3>3. QED  BY <3>1, <3>2
  <2>3. \A i, j \in DOMAIN index' :
          i < j => index'[i] > index'[j] \/ (index'[i] = index'[j] /\ faults' > 0)
    <3> SUFFICES ASSUME NEW i \in DOMAIN index', NEW j \in DOMAIN index', i < j
                 PROVE  index'[i] > index'[j] \/ (index'[i] = index'[j] /\ faults' > 0)
      OBVIOUS
    <3>1. CASE j <= n
      BY <1>1, <1>3, <2>2, <3>1
    <3>2. CASE j > n
      <4>1. j - n \in DOMAIN index /\ index'[j] = index[j - n]
        BY <1>2, <1>3, <3>2
      <4>2. CASE i <= n
        BY <1>1, <1>2, <1>3, <2>1, <4>1, <4>2
      <4>3. CASE i > n
        <5>1. i - n \in DOMAIN index /\ index'[i] = index[i - n]
          BY <1>2, <1>3, <4>3
        <5>2. i - n < j - n
          BY <1>3
        <5>3. QED  BY <2>1, <2>2, <4>1, <5>1, <5>2 DEF AnsweredIsKept
      <4>4. QED  BY <1>3, <4>2, <4>3
    <3>3. QED  BY <1>3, <3>1, <3>2
  <2>4. \A id \in answered :
          \/ \E i \in DOMAIN index' : index'[i] = id
          \/ Len(index') >= MaxRecords /\ \A i \in 1 .. MaxRecords : index'[i] > id
    <3> SUFFICES ASSUME NEW id \in answered,
                        ~ \E i \in DOMAIN index' : index'[i] = id
                 PROVE  /\ Len(index') >= MaxRecords
                        /\ \A i \in 1 .. MaxRecords : index'[i] > id
      OBVIOUS
    <3>1. ~ \E i \in DOMAIN index : index[i] = id
      <4>1. \A i \in DOMAIN index : i + n \in DOMAIN index'
        BY <1>2, <1>3
      <4>2. QED  BY <1>3, <4>1
    <3>2. Len(index) >= MaxRecords /\ \A i \in 1 .. MaxRecords : index[i] > id
      BY <2>1, <3>1 DEF AnsweredIsKept
    <3>3. id \in Nat /\ id < NewId
      BY <2>1, <1>1 DEF Inv, TypeOK, NewId
    <3>4. ASSUME NEW i \in 1 .. MaxRecords PROVE index'[i] > id
      <4>1. CASE i <= n
        BY <1>1, <1>3, <3>3, <4>1
      <4>2. CASE i > n
        <5>1. i - n \in 1 .. MaxRecords /\ i - n \in DOMAIN index
          BY <1>2, <1>3, <3>2, <4>2, RecordsBound
        <5>2. index'[i] = index[i - n]
          BY <1>3, <5>1
        <5>3. QED  BY <3>2, <5>1, <5>2
      <4>3. QED  BY <1>3, <4>1, <4>2
    <3>5. QED  BY <1>2, <1>3, <3>2, <3>4, RecordsBound
  <2>5. QED
    BY <1>2, <1>3, <2>1, <2>2, <2>3, <2>4 DEF Ordered, AnsweredIsKept, NewId
<1>7. QED  BY <1>4, <1>5, <1>6 DEF Inv

LEMMA TrimInv == ASSUME Inv, Trim PROVE Inv'
<1>1. index \in Seq(DOMAIN records) /\ Len(index) \in Nat
  BY DEF Inv, TypeOK
<1>2. /\ index' \in Seq(DOMAIN records)
      /\ \A i \in DOMAIN index' : i \in DOMAIN index /\ index'[i] = index[i]
      /\ \/ Len(index) <= MaxRecords /\ index' = index
         \/ Len(index) > MaxRecords /\ DOMAIN index' = 1 .. MaxRecords
                                    /\ Len(index') = MaxRecords
  <2>1. CASE Len(index) > MaxRecords
    BY <1>1, <2>1, RecordsBound DEF Trim
  <2>2. CASE Len(index) <= MaxRecords
    BY <1>1, <2>2, RecordsBound DEF Trim
  <2>3. QED  BY <1>1, <2>1, <2>2, RecordsBound
<1>3. TypeOK'
  BY <1>2 DEF Inv, TypeOK, Trim, request, history, Steps
<1>4. Progress' /\ UnreviewedWithheld' /\ Approval'
  BY DEF Trim, Inv, Progress, Deciders, UnreviewedWithheld, Approval,
         ConfirmationApproved, request, history, Mapping, Unique
<1>5. Ordered'
  <2>1. /\ NewId \notin answered /\ records # <<>> /\ AnsweredIsKept
        /\ index # <<>> /\ index[1] = NewId
    BY DEF Trim, Inv, Ordered
  <2>2. UNCHANGED <<records, answered, faults>> /\ pc' = "answer"
    BY DEF Trim, history
  <2>3. index' # <<>> /\ index'[1] = NewId
    BY <1>1, <1>2, <2>1, RecordsBound
  <2>4. \A i, j \in DOMAIN index' :
          i < j => index'[i] > index'[j] \/ (index'[i] = index'[j] /\ faults' > 0)
    BY <1>2, <2>1, <2>2 DEF AnsweredIsKept
  <2>5. \A id \in answered :
          \/ \E i \in DOMAIN index' : index'[i] = id
          \/ Len(index') >= MaxRecords /\ \A i \in 1 .. MaxRecords : index'[i] > id
    <3>1. CASE index' = index
      BY <2>1, <3>1 DEF AnsweredIsKept
    <3>2. CASE /\ Len(index) > MaxRecords /\ DOMAIN index' = 1 .. MaxRecords
               /\ Len(index') = MaxRecords
      <4> SUFFICES ASSUME NEW id \in answered,
                          ~ \E i \in DOMAIN index' : index'[i] = id
                   PROVE  \A i \in 1 .. MaxRecords : index'[i] > id
        BY <3>2, RecordsBound
      <4>1. \A i \in 1 .. MaxRecords : index[i] # id
        BY <1>2, <3>2
      <4>2. CASE \A i \in 1 .. MaxRecords : index[i] > id
        BY <1>2, <3>2, <4>2
      <4>3. CASE \E j \in DOMAIN index : index[j] = id
        <5>1. PICK j \in DOMAIN index : index[j] = id
          BY <4>3
        <5>2. j > MaxRecords /\ j \in Nat
          BY <1>1, <4>1, <5>1, RecordsBound
        <5>3. ASSUME NEW i \in 1 .. MaxRecords PROVE index[i] > id
          <6>1. i \in DOMAIN index /\ i < j
            BY <1>1, <3>2, <5>2, RecordsBound
          <6>2. QED  BY <2>1, <4>1, <5>1, <6>1 DEF AnsweredIsKept
        <5>4. QED  BY <1>2, <3>2, <5>3
      <4>4. QED  BY <2>1, <4>2, <4>3 DEF AnsweredIsKept
    <3>3. QED  BY <1>2, <3>1, <3>2
  <2>6. QED
    BY <2>1, <2>2, <2>3, <2>4, <2>5 DEF Ordered, AnsweredIsKept, NewId
<1>6. QED  BY <1>3, <1>4, <1>5 DEF Inv

-----------------------------------------------------------------------------
(* The ends of a request, its beginning, and the reviewers. *)

LEMMA EndInv ==
  ASSUME Inv, Finish,
         UNCHANGED redis, corpus' \in {corpus, None},
         answered' = answered \/ (pc = "answer" /\ answered' = answered \cup {NewId}),
         faults' = faults \/ Fault, UNCHANGED <<alerts, approved>>
  PROVE  Inv'
<1>1. pc = "answer" => NewId \in DOMAIN records /\ index # <<>> /\ index[1] = NewId
  BY DEF Inv, TypeOK, Ordered, NewId
<1>2. TypeOK'
  <2>1. faults' \in 0 .. MaxFaults
    BY FaultsBound DEF Inv, TypeOK, Fault
  <2>2. QED  BY <1>1, <2>1 DEF Inv, TypeOK, Finish, redis, Steps
<1>3. Progress' /\ UnreviewedWithheld'
  BY DEF Finish, Progress, Deciders, UnreviewedWithheld
<1>4. Approval'
  BY DEF Inv, Approval, ConfirmationApproved, Finish, redis, Mapping, Unique
<1>5. Ordered'
  <2>1. faults > 0 => faults' > 0
    BY DEF Inv, TypeOK, Fault
  <2>2. pc = "answer" => \E i \in DOMAIN index : index[i] = NewId
    BY <1>1 DEF Inv, TypeOK
  <2>3. AnsweredIsKept'
    BY <2>1, <2>2 DEF Inv, Ordered, AnsweredIsKept, redis
  <2>4. QED  BY <2>3 DEF Ordered, Finish
<1>6. QED  BY <1>2, <1>3, <1>4, <1>5 DEF Inv

LEMMA BeginInv ==
  ASSUME Inv,
         \/ \E doc \in Documents : Curate(doc)
         \/ \E f \in Fingerprints : Investigate(f)
         \/ Build
  PROVE  Inv'
<1>1. CASE \E doc \in Documents : Curate(doc)
  <2>1. PICK doc \in Documents : Curate(doc)
    BY <1>1
  <2>2. TypeOK'
    BY <2>1 DEF Inv, TypeOK, Curate, request, Mapping
  <2>3. Progress' /\ UnreviewedWithheld'
    BY <2>1 DEF Inv, Progress, UnreviewedWithheld, Curate, request, InHand, Passes
  <2>4. Approval'
    <3>1. approved \subseteq approved' /\ Mapping(document') \subseteq approved'
      BY <2>1 DEF Curate
    <3>2. UNCHANGED <<corpus, result, records>>
      BY <2>1 DEF Curate, request
    <3>3. ConfirmationApproved'
      BY <3>1, <3>2 DEF Inv, Approval, ConfirmationApproved
    <3>4. QED  BY <3>1, <3>2, <3>3 DEF Inv, Approval
  <2>5. Ordered'
    BY <2>1 DEF Inv, Ordered, AnsweredIsKept, Curate, NewId
  <2>6. QED  BY <2>2, <2>3, <2>4, <2>5 DEF Inv
<1>2. CASE \E f \in Fingerprints : Investigate(f)
  <2>1. PICK f \in Fingerprints : Investigate(f)
    BY <1>2
  <2>2. TypeOK'
    BY <2>1, IncidentsBound DEF Inv, TypeOK, Investigate, redis, Steps
  <2>3. Progress' /\ UnreviewedWithheld'
    BY <2>1 DEF Inv, TypeOK, Progress, Deciders, UnreviewedWithheld, Investigate
  <2>4. Approval'
    BY <2>1 DEF Inv, Approval, ConfirmationApproved, Investigate, redis, Mapping, Unique
  <2>5. Ordered'
    BY <2>1 DEF Inv, Ordered, AnsweredIsKept, Investigate, redis, NewId
  <2>6. QED  BY <2>2, <2>3, <2>4, <2>5 DEF Inv
<1>3. CASE Build
  <2>1. TypeOK'
    BY <1>3 DEF Inv, TypeOK, Build, redis, request, history, Steps
  <2>2. Progress' /\ UnreviewedWithheld'
    BY <1>3 DEF Inv, TypeOK, Progress, Deciders, UnreviewedWithheld, Build, request, redis
  <2>3. Approval'
    BY <1>3 DEF Inv, Approval, ConfirmationApproved, Build, redis, request, history,
                Mapping, Unique
  <2>4. Ordered'
    BY <1>3 DEF Inv, Ordered, AnsweredIsKept, Build, redis, history, NewId
  <2>5. QED  BY <2>1, <2>2, <2>3, <2>4 DEF Inv
<1>4. QED  BY <1>1, <1>2, <1>3

-----------------------------------------------------------------------------
\* Every step keeps the invariant.
LEMMA StepInv == Inv /\ [Next]_vars => Inv'
<1> SUFFICES ASSUME Inv, [Next]_vars PROVE Inv'
  OBVIOUS
<1>1. CASE UNCHANGED vars
  BY <1>1 DEF vars, Inv, TypeOK, Progress, Approval, UnreviewedWithheld, Ordered,
              AnsweredIsKept, ConfirmationApproved, Mapping, Unique, InHand, Passes, NewId
<1>2. CASE \/ \E doc \in Documents : Curate(doc)
           \/ \E f \in Fingerprints : Investigate(f)
           \/ Build
  BY <1>2, BeginInv
<1>3. CASE \E k \in Families : RetrieveExact(k)
  BY <1>3, ExactInv
<1>4. CASE CriticPasses \/ Finalize
  BY <1>4, AdvisoryInv
<1>5. CASE \/ RetrieveAdvice \/ \E d \in Drafts \cup Fallbacks : Generate(d)
           \/ Validate \/ Invalidate \/ CriticRejects
           \/ \E c \in Criticism : Criticise(c)
           \/ RefineFails \/ \E d \in Drafts : Refine(d)
  BY <1>5, GateInv
<1>6. CASE Set
  BY <1>6, SetInv
<1>7. CASE Push \/ PushRepeated
  BY <1>7, PushInv
<1>8. CASE Trim
  BY <1>8, TrimInv
<1>9. CASE Answer \/ Raise \/ RedisFails \/ Restart
  BY <1>9, EndInv DEF Answer, Raise, RedisFails, Restart, redis, history
<1>10. QED
  BY <1>1, <1>2, <1>3, <1>4, <1>5, <1>6, <1>7, <1>8, <1>9 DEF Next, Decide, Save

\* The inductive invariant is one of the specification.
LEMMA Invariant == Spec => []Inv
BY InitInv, StepInv, PTL DEF Spec

\* Every variable keeps its type.
THEOREM TypeCorrect == Spec => []TypeOK
<1>1. Inv => TypeOK
  BY DEF Inv
<1>2. QED  BY <1>1, Invariant, PTL

\* However often reviewers replace the document while requests are served
\* from an older copy, a recorded cause was approved for its fingerprint by one
\* version (KnowledgeStore.corpus).
THEOREM CauseIsApproved == Spec => []ConfirmationApproved
<1>1. Inv => ConfirmationApproved
  BY DEF Inv, Approval
<1>2. QED  BY <1>1, Invariant, PTL

\* Whatever the language model answers, a rejected draft is published without
\* a cause, a remediation or a hypothesis on unknown evidence, and an accepted
\* one cites nothing unknown (finalize_diagnosis, validate_diagnosis).
THEOREM RejectedIsWithheld == Spec => []UnreviewedWithheld
<1>1. Inv => UnreviewedWithheld
  BY DEF Inv
<1>2. QED  BY <1>1, Invariant, PTL

\* An answered incident stays in the index until MaxRecords newer entries are
\* in front of it, for any number of alerts and faults (IncidentStore.save).
THEOREM AnswerIsKept == Spec => []AnsweredIsKept
<1>1. Inv => AnsweredIsKept
  BY DEF Inv, Ordered
<1>2. QED  BY <1>1, Invariant, PTL

\* A request ends without an answer only after a fault, on a draft that the
\* gates raise on or on a verdict of the critic that its parser raises on
\* (create_app, decide_diagnosis, _parse_critic_result).
THEOREM NoAnswerIsExplained == Spec => UnansweredExplained
<1>1. Inv /\ [Next]_vars =>
        [pc # "idle" /\ pc' = "idle" =>
           \/ answered' # answered
           \/ faults' # faults
           \/ InHand # None /\ InHand.shape \in {"text", "objects"}
           \/ criticism = "unhashable"]_vars
  <2> SUFFICES ASSUME Inv, Next, pc # "idle", pc' = "idle"
               PROVE  \/ answered' # answered
                      \/ faults' # faults
                      \/ InHand # None /\ InHand.shape \in {"text", "objects"}
                      \/ criticism = "unhashable"
    BY DEF vars
  <2>1. CASE Answer
    <3>1. NewId \notin answered
      BY <2>1 DEF Answer, Inv, Ordered
    <3>2. QED  BY <2>1, <3>1 DEF Answer
  <2>2. CASE Raise
    <3>1. draft \in Draft /\ InHand \in Draft
      BY <2>2 DEF Raise, Inv, Progress, InHand, TypeOK
    <3>2. CASE pc = "validate"
      BY <2>2, <3>1, <3>2, NoneIsFresh DEF Raise
    <3>3. CASE pc = "finalize"
      BY <2>2, <3>1, <3>3, NoneIsFresh DEF Raise, InHand, Inv, Progress
    <3>4. QED  BY <2>2, <3>2, <3>3 DEF Raise
  <2>3. CASE RedisFails \/ PushRepeated \/ Restart
    BY <2>3 DEF RedisFails, PushRepeated, Restart, Fault, Inv, TypeOK
  <2>4. QED
    BY <2>1, <2>2, <2>3
       DEF Next, Decide, Save, Curate, Investigate, Build, RetrieveExact,
           RetrieveAdvice, Generate, Validate, Invalidate, Criticise, CriticPasses,
           CriticRejects, Reject, RefineFails, Refine, Finalize, Set, Push, Trim
<1>2. QED  BY <1>1, Invariant, PTL DEF Spec, UnansweredExplained
=============================================================================
