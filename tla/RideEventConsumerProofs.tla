----------------------- MODULE RideEventConsumerProofs -----------------------
(***************************************************************************)
(* For any stream, any number of replicas of dispatch-service, any retry   *)
(* limit and any faults: an acknowledged entry's event was handled or      *)
(* quarantined, a well-formed entry is quarantined only after              *)
(* maxEventRetries failures and INCRs sent again, an event has one outcome *)
(* per replica and one for each that was given up or written again, and a  *)
(* replica overtakes only an entry that had been given up or stalled on.   *)
(***************************************************************************)
EXTENDS RideEventConsumer, FiniteSetTheorems, TLAPS

\* The steps of a consumer on its current entry.
Action(c, m) ==
  \/ Work(c, m) \/ CountRepeated(c, m) \/ BuryRepeated(c, m)
  \/ CallFails(c, m) \/ ReplyLost(c, m)

LEMMA NextCases ==
  ASSUME Next
  PROVE  \E c \in Consumers :
           \/ Read(c) \/ ReadLost(c)
           \/ Claim(c) \/ ClaimFromStalled(c) \/ Crash(c)
           \/ \E m \in Entries : IsCurrent(c, m) /\ Action(c, m)
<1>1. ASSUME NEW c \in Consumers, NEW m \in Entries, Action(c, m)
      PROVE  IsCurrent(c, m)
  BY <1>1 DEF Action, Work, Check, HandleOk, HandleRetryable, HandlePermanent,
     CountRetry, Bury, Clear, Record, Ack, CallFails, ReplyLost, CountRepeated,
     BuryRepeated
<1>2. PICK c \in Consumers :
        \/ Read(c) \/ ReadLost(c)
        \/ Claim(c) \/ ClaimFromStalled(c) \/ Crash(c)
        \/ \E m \in Entries : Action(c, m)
  BY DEF Next, Action
<1>3. QED  BY <1>1, <1>2

\* The least entry of a queue is unique.
LEMMA CurrentUnique ==
  ASSUME TypeOK, NEW c \in Consumers, NEW m \in Entries, NEW k \in Entries,
         IsCurrent(c, m), IsCurrent(c, k)
  PROVE  m = k
BY NumEntriesNat DEF IsCurrent, Entries

-----------------------------------------------------------------------------
LEMMA TypeInit == Init => TypeOK
BY NumEntriesNat, FaultsNat DEF Init, TypeOK, Steps

LEMMA TypeStep == TypeOK /\ [Next]_vars => TypeOK'
<1> SUFFICES ASSUME TypeOK, [Next]_vars PROVE TypeOK'
  OBVIOUS
<1> USE DEF TypeOK
<1>1. ASSUME NEW c \in Consumers, Read(c) PROVE TypeOK'
  <2>1. PICK last \in lastRead + 1 .. NumEntries :
               /\ lastRead' = last
               /\ queue' = [queue EXCEPT ![c] = lastRead + 1 .. last]
    BY <1>1 DEF Read
  <2>2. lastRead' \in 0 .. NumEntries /\ 1 .. lastRead \subseteq 1 .. lastRead'
    BY <2>1, NumEntriesNat
  <2>3. queue' \in [Consumers -> SUBSET (1 .. lastRead')]
    BY <2>1, <2>2, NumEntriesNat
  <2>4. acked' \subseteq 1 .. lastRead'
    BY <1>1, <2>2 DEF Read
  <2>5. QED  BY <1>1, <2>2, <2>3, <2>4 DEF Read
<1>7. ASSUME NEW c \in Consumers, ReadLost(c) PROVE TypeOK'
  <2>1. PICK last \in lastRead + 1 .. NumEntries :
               /\ lastRead' = last
               /\ deferred' = deferred \cup (lastRead + 1 .. last)
    BY <1>7 DEF ReadLost
  <2>2. /\ lastRead' \in 0 .. NumEntries /\ 1 .. lastRead \subseteq 1 .. lastRead'
        /\ lastRead + 1 .. last \subseteq Entries
    BY <2>1, NumEntriesNat DEF Entries
  <2>3. queue' \in [Consumers -> SUBSET (1 .. lastRead')]
    <3>1. \A d \in Consumers : queue[d] \subseteq 1 .. lastRead'
      BY <2>2
    <3>2. QED  BY <1>7, <3>1 DEF ReadLost
  <2>4. acked' \subseteq 1 .. lastRead' /\ deferred' \subseteq Entries
    BY <1>7, <2>1, <2>2 DEF ReadLost
  <2>5. faults' \in 0 .. MaxFaults
    BY <1>7, FaultsNat DEF ReadLost, Fault
  <2>6. QED  BY <1>7, <2>2, <2>3, <2>4, <2>5 DEF ReadLost
<1>2. ASSUME NEW c \in Consumers, Claim(c) \/ ClaimFromStalled(c)
      PROVE  TypeOK'
  <2>1. \E S \in SUBSET Pending : queue' = [queue EXCEPT ![c] = S]
    BY <1>2 DEF Claim, ClaimFromStalled
  <2>2. queue' \in [Consumers -> SUBSET (1 .. lastRead)]
    BY <2>1 DEF Pending
  <2>3. faults' \in 0 .. MaxFaults
    BY <1>2, FaultsNat DEF Claim, ClaimFromStalled, Fault
  <2>4. deferred' \subseteq Entries
    <3>1. Pending \subseteq Entries
      BY NumEntriesNat DEF Pending, Entries
    <3>2. QED  BY <1>2, <3>1 DEF Claim, ClaimFromStalled
  <2>5. QED  BY <1>2, <2>2, <2>3, <2>4 DEF Claim, ClaimFromStalled
<1>3. ASSUME NEW c \in Consumers, Crash(c) PROVE TypeOK'
  <2>1. PICK m \in queue[c] : LoseRecord(c, m)
    BY <1>3 DEF Crash
  <2>2. m \in Entries
    BY NumEntriesNat DEF Entries
  <2>3. EventOf[m] \in Events
    BY <2>2, EventOfType
  <2>4. lost' \in [Events -> Nat]
    BY <2>1, <2>3 DEF LoseRecord
  <2>5. faults' \in 0 .. MaxFaults
    BY <1>3, FaultsNat DEF Crash, Fault
  <2>6. deferred' \subseteq Entries
    <3>1. queue[c] \subseteq 1 .. lastRead
      OBVIOUS
    <3>2. lastRead \in Nat /\ lastRead <= NumEntries
      BY NumEntriesNat
    <3>3. 1 .. lastRead \subseteq Entries
      BY <3>2, NumEntriesNat DEF Entries
    <3>4. deferred' \subseteq deferred \cup queue[c]
      BY <1>3 DEF Crash
    <3>5. QED  BY <3>1, <3>3, <3>4
  <2>7. queue' \in [Consumers -> SUBSET (1 .. lastRead)]
    BY <1>3 DEF Crash
  <2>8. QED  BY <1>3, <2>4, <2>5, <2>6, <2>7 DEF Crash, Steps
<1>4. ASSUME NEW c \in Consumers, NEW m \in Entries,
             IsCurrent(c, m), Action(c, m)
      PROVE  TypeOK'
  <2>1. EventOf[m] \in Events /\ m \in 1 .. lastRead
    BY <1>4, EventOfType DEF IsCurrent
  <2>2. /\ queue' \in [Consumers -> SUBSET (1 .. lastRead)]
        /\ pc' \in [Consumers -> Steps]
        /\ deferred' \subseteq Entries
    <3>1. CASE GiveUp(c, m)
      BY <3>1 DEF GiveUp, Finish, Steps
    <3>2. CASE /\ \E s \in Steps : Goto(c, s)
               /\ deferred' = deferred
      BY <3>2 DEF Goto
    <3>3. CASE Finish(c, m) /\ deferred' = deferred
      BY <3>3 DEF Finish, Steps
    <3>4. \/ GiveUp(c, m)
          \/ (\E s \in Steps : Goto(c, s)) /\ deferred' = deferred
          \/ Finish(c, m) /\ deferred' = deferred
          \/ UNCHANGED <<queue, pc, deferred>>
      BY <1>4 DEF Action, Work, Check, HandleOk, HandleRetryable,
         HandlePermanent, CountRetry, Bury, Clear, Record, Ack, CallFails,
         ReplyLost, CountRepeated, BuryRepeated, Steps
    <3>5. QED  BY <3>1, <3>2, <3>3, <3>4 DEF TypeOK
  <2>3. /\ acked' = acked \/ acked' = acked \cup {m}
        /\ processed' = processed \/ processed' = processed \cup {EventOf[m]}
        /\ lastRead' = lastRead
    BY <1>4 DEF Action, Work, Check, HandleOk, HandleRetryable,
       HandlePermanent, CountRetry, Bury, Clear, Record, Ack, CallFails,
       ReplyLost, CountRepeated, BuryRepeated
  <2>4. /\ dlq' = dlq \/ dlq' = Append(dlq, m)
        /\ \/ effects' = effects
           \/ effects' = Append(effects, [entry |-> m, by |-> c])
    BY <1>4 DEF Action, Work, Check, HandleOk, HandleRetryable,
       HandlePermanent, CountRetry, Bury, Clear, Record, Ack, CallFails,
       ReplyLost, CountRepeated, BuryRepeated
  <2>5. /\ \/ retry' = retry
           \/ retry' = [retry EXCEPT ![m] = @ + 1]
           \/ retry' = [retry EXCEPT ![m] = 0]
        /\ failures' = failures \/ failures' = [failures EXCEPT ![m] = @ + 1]
        /\ recounted' = recounted \/ recounted' = [recounted EXCEPT ![m] = @ + 1]
        /\ lost' = lost \/ lost' = [lost EXCEPT ![EventOf[m]] = @ + 1]
        /\ faults' = faults \/ (faults < MaxFaults /\ faults' = faults + 1)
    BY <1>4 DEF Action, Work, Check, HandleOk, HandleRetryable,
       HandlePermanent, CountRetry, Bury, Clear, Record, Ack, CallFails,
       ReplyLost, CountRepeated, BuryRepeated, Fault, LoseRecord
  <2>6. acked' \subseteq 1 .. lastRead' /\ processed' \subseteq Events
    BY <2>1, <2>3
  <2>7. dlq' \in Seq(Entries) /\ effects' \in Seq(Runs)
    <3>1. /\ dlq \in Seq(Entries) /\ Append(dlq, m) \in Seq(Entries)
      OBVIOUS
    <3>2. [entry |-> m, by |-> c] \in Runs
      BY DEF Runs
    <3>3. /\ effects \in Seq(Runs)
          /\ Append(effects, [entry |-> m, by |-> c]) \in Seq(Runs)
      BY <3>2
    <3>4. QED  BY <2>4, <3>1, <3>3, Zenon
  <2>8. retry' \in [Entries -> Nat]
    <3>1. CASE retry' = retry
      BY <3>1
    <3>2. CASE retry' = [retry EXCEPT ![m] = @ + 1]
      BY <3>2
    <3>3. CASE retry' = [retry EXCEPT ![m] = 0]
      BY <3>3
    <3>4. QED  BY <2>5, <3>1, <3>2, <3>3
  <2>9. failures' \in [Entries -> Nat] /\ recounted' \in [Entries -> Nat]
    <3>1. failures[m] + 1 \in Nat /\ recounted[m] + 1 \in Nat
      OBVIOUS
    <3>2. QED  BY <2>5, <3>1, Zenon
  <2>10. lost' \in [Events -> Nat] /\ faults' \in 0 .. MaxFaults
    <3>1. lost[EventOf[m]] + 1 \in Nat
      BY <2>1
    <3>2. lost' \in [Events -> Nat]
      BY <2>1, <2>5, <3>1, Zenon
    <3>3. faults' \in 0 .. MaxFaults
      BY <2>5, FaultsNat
    <3>4. QED  BY <3>2, <3>3
  <2>11. QED  BY <2>2, <2>3, <2>6, <2>7, <2>8, <2>9, <2>10
<1>5. CASE UNCHANGED vars
  BY <1>5 DEF vars
<1>6. QED  BY <1>1, <1>2, <1>3, <1>4, <1>5, <1>7, NextCases

(***************************************************************************)
(* Every variable keeps its type, in particular queues hold delivered      *)
(* entries only.                                                           *)
(***************************************************************************)
THEOREM TypeCorrect == Spec => []TypeOK
BY TypeInit, TypeStep, PTL DEF Spec

-----------------------------------------------------------------------------
LEMMA InvInit == Init => IInv
<1> SUFFICES ASSUME Init PROVE IInv
  OBVIOUS
<1>1. TypeOK
  BY TypeInit
<1>2. /\ ProcessedHasOutcome /\ AckedIsProcessed /\ IdleAtCheck
      /\ QuarantineEarned
  BY DEF Init, ProcessedHasOutcome, AckedIsProcessed, IdleAtCheck,
         QuarantineEarned, Buried
<1>3. StepEarned
  BY DEF Init, StepEarned, IsCurrent
<1>4. \A m \in Entries : Counting(m) = {}
  BY DEF Init, Counting
<1>5. RetriesAreFailures
  <2>1. \A m \in Entries : Cardinality(Counting(m)) = 0
    BY <1>4, FS_EmptySet
  <2>2. QED  BY <2>1 DEF RetriesAreFailures, Init
<1>6. QED  BY <1>1, <1>2, <1>3, <1>5 DEF IInv

\* What the calls of one step append or set.
LEMMA ActionEffects ==
  ASSUME NEW c \in Consumers, NEW m \in Entries, Action(c, m)
  PROVE  /\ dlq' = dlq \/ (pc[c] = "bury" /\ dlq' = Append(dlq, m))
         /\ \/ effects' = effects
            \/ effects' = Append(effects, [entry |-> m, by |-> c])
         /\ failures' = failures \/ failures' = [failures EXCEPT ![m] = @ + 1]
         /\ \/ recounted' = recounted
            \/ recounted' = [recounted EXCEPT ![m] = @ + 1]
         /\ \/ processed' = processed
            \/ pc[c] = "record" /\ processed' = processed \cup {EventOf[m]}
         /\ acked' = acked \/ (pc[c] = "ack" /\ acked' = acked \cup {m})
BY DEF Action, Work, Check, HandleOk, HandleRetryable, HandlePermanent,
       CountRetry, Bury, Clear, Record, Ack, CallFails, ReplyLost, CountRepeated, BuryRepeated

LEMMA Monotone ==
  ASSUME TypeOK, NEW c \in Consumers, NEW m \in Entries, Action(c, m)
  PROVE  /\ processed \subseteq processed'
         /\ \A e \in Events : HasOutcome(e) => HasOutcome(e)'
         /\ \A k \in Entries :
              failures'[k] >= failures[k] /\ recounted'[k] >= recounted[k]
<1>1. processed \subseteq processed'
  BY ActionEffects
<1>2. \A k \in Entries : Handled(k) => Handled(k)'
  <2>1. effects \in Seq(Runs)
    BY DEF TypeOK
  <2>2. effects' = effects \/ effects' = Append(effects, [entry |-> m, by |-> c])
    BY ActionEffects
  <2>3. QED  BY <2>1, <2>2 DEF Handled
<1>3. \A k \in Entries : Buried(k) => Buried(k)'
  <2>1. dlq \in Seq(Entries)
    BY DEF TypeOK
  <2>2. dlq' = dlq \/ dlq' = Append(dlq, m)
    BY ActionEffects
  <2>3. QED  BY <2>1, <2>2 DEF Buried
<1>4. \A e \in Events : HasOutcome(e) => HasOutcome(e)'
  BY <1>2, <1>3 DEF HasOutcome
<1>5. \A k \in Entries :
        failures'[k] >= failures[k] /\ recounted'[k] >= recounted[k]
  <2>1. failures \in [Entries -> Nat] /\ recounted \in [Entries -> Nat]
    BY DEF TypeOK
  <2>2. /\ failures' = failures \/ failures' = [failures EXCEPT ![m] = @ + 1]
        /\ \/ recounted' = recounted
           \/ recounted' = [recounted EXCEPT ![m] = @ + 1]
    BY ActionEffects
  <2>3. QED  BY <2>1, <2>2
<1>6. QED  BY <1>1, <1>4, <1>5

\* An appended entry is handled or buried.
LEMMA AppendedIsThere ==
  ASSUME NEW S, NEW s \in Seq(S), NEW x \in S, NEW t, t = Append(s, x)
  PROVE  \E i \in DOMAIN t : t[i] = x
<1>1. Len(s) + 1 \in DOMAIN t /\ t[Len(s) + 1] = x
  OBVIOUS
<1>2. QED  BY <1>1

\* A step of one consumer leaves the others where they are, and takes its
\* own to a step it has earned or back to its check.
LEMMA StepEarnedKept ==
  ASSUME TypeOK, StepEarned, NEW c \in Consumers,
         \A d \in Consumers \ {c} : pc'[d] = pc[d] /\ queue'[d] = queue[d],
         processed \subseteq processed',
         \A e \in Events : HasOutcome(e) => HasOutcome(e)',
         \A k \in Entries :
           failures'[k] >= failures[k] /\ recounted'[k] >= recounted[k],
         failures' \in [Entries -> Nat], recounted' \in [Entries -> Nat],
         \/ pc'[c] = "check"
         \/ /\ queue'[c] = queue[c]
            /\ \A m \in Entries : IsCurrent(c, m) => Earned(pc[c], m)'
  PROVE  StepEarned'
<1> SUFFICES ASSUME NEW d \in Consumers, NEW m \in Entries, IsCurrent(d, m)'
             PROVE  Earned(pc[d], m)'
  BY DEF StepEarned
<1>1. EventOf[m] \in Events
  BY EventOfType
<1>2. CASE d # c
  <2>1. IsCurrent(d, m) /\ pc'[d] = pc[d]
    BY <1>2 DEF IsCurrent
  <2>2. Earned(pc[d], m)
    BY <2>1 DEF StepEarned
  <2>3. /\ failures[m] \in Nat /\ failures'[m] \in Nat /\ MaxRetries \in Nat
        /\ recounted[m] \in Nat /\ recounted'[m] \in Nat
    BY RetriesNat DEF TypeOK
  <2>4. /\ failures[m] > 0 => failures'[m] > 0
        /\ failures[m] + recounted[m] >= MaxRetries =>
             failures'[m] + recounted'[m] >= MaxRetries
    BY <2>3
  <2>5. QED  BY <1>1, <2>1, <2>2, <2>4 DEF Earned
<1>3. CASE d = c /\ pc'[c] = "check"
  BY <1>3 DEF Earned
<1>4. CASE d = c /\ pc'[c] # "check"
  BY <1>4 DEF IsCurrent
<1>5. QED  BY <1>2, <1>3, <1>4

\* Entries no consumer starts to count keep their slack.
LEMMA CountingFinite ==
  ASSUME NEW m
  PROVE  IsFiniteSet(Counting(m)) /\ Cardinality(Counting(m)) \in Nat
<1>1. Counting(m) \subseteq Consumers
  BY DEF Counting
<1>2. QED  BY <1>1, ConsumersFin, FS_Subset, FS_CardinalityType

LEMMA CountingShrinks ==
  ASSUME NEW c \in Consumers, NEW m \in Entries,
         \A d \in Consumers \ {c} : pc'[d] = pc[d] /\ queue'[d] = queue[d],
         pc'[c] # "count"
  PROVE  /\ Counting(m)' \subseteq Counting(m) \ {c}
         /\ Cardinality(Counting(m)') \in Nat
         /\ Cardinality(Counting(m)') <= Cardinality(Counting(m))
<1>1. Counting(m)' \subseteq Counting(m) \ {c}
  BY DEF Counting, IsCurrent
<1>2. QED
  BY <1>1, CountingFinite, FS_Subset, FS_CardinalityType

LEMMA SlackKept ==
  ASSUME TypeOK, RetriesAreFailures, NEW c \in Consumers,
         \A d \in Consumers \ {c} : pc'[d] = pc[d] /\ queue'[d] = queue[d],
         pc'[c] # "count",
         \A k \in Entries : retry'[k] <= retry[k] /\ retry'[k] \in Nat,
         \A k \in Entries :
           failures'[k] >= failures[k] /\ recounted'[k] >= recounted[k],
         failures' \in [Entries -> Nat], recounted' \in [Entries -> Nat]
  PROVE  RetriesAreFailures'
<1> SUFFICES ASSUME NEW k \in Entries
             PROVE  retry'[k] + Cardinality(Counting(k)') <= failures'[k] + recounted'[k]
  BY DEF RetriesAreFailures
<1>1. /\ Cardinality(Counting(k)') \in Nat
      /\ Cardinality(Counting(k)) \in Nat
      /\ Cardinality(Counting(k)') <= Cardinality(Counting(k))
  BY CountingShrinks, CountingFinite
<1>2. retry[k] + Cardinality(Counting(k)) <= failures[k] + recounted[k]
  BY DEF RetriesAreFailures
<1>3. /\ retry[k] \in Nat /\ failures[k] \in Nat /\ failures'[k] \in Nat
      /\ recounted[k] \in Nat /\ recounted'[k] \in Nat
  BY DEF TypeOK
<1>4. QED  BY <1>1, <1>2, <1>3

LEMMA InvStep == IInv /\ [Next]_vars => IInv'
<1> SUFFICES ASSUME IInv, [Next]_vars PROVE IInv'
  OBVIOUS
<1> USE DEF IInv
<1>1. TypeOK'
  BY TypeStep
<1>2. ASSUME NEW c \in Consumers,
             Read(c) \/ ReadLost(c) \/ Claim(c) \/ ClaimFromStalled(c) \/ Crash(c)
      PROVE  IInv'
  <2>1. /\ UNCHANGED <<acked, processed, retry, dlq, effects, failures, recounted>>
        /\ pc'[c] = "check"
        /\ \A d \in Consumers \ {c} : pc'[d] = pc[d] /\ queue'[d] = queue[d]
    BY <1>2 DEF Read, ReadLost, Claim, ClaimFromStalled, Crash, IdleAtCheck, TypeOK
  <2>2. /\ \A e \in Events : HasOutcome(e) => HasOutcome(e)'
        /\ \A k \in Entries :
             failures'[k] >= failures[k] /\ recounted'[k] >= recounted[k]
        /\ \A k \in Entries : retry'[k] <= retry[k] /\ retry'[k] \in Nat
    BY <2>1 DEF HasOutcome, Handled, Buried, TypeOK
  <2>3. ProcessedHasOutcome' /\ AckedIsProcessed' /\ QuarantineEarned'
    BY <2>1 DEF ProcessedHasOutcome, AckedIsProcessed, QuarantineEarned,
       HasOutcome, Handled, Buried
  <2>4. IdleAtCheck'
    BY <2>1 DEF IdleAtCheck
  <2>5. StepEarned'
    BY <1>1, <2>1, <2>2, StepEarnedKept DEF TypeOK
  <2>6. RetriesAreFailures'
    BY <1>1, <2>1, <2>2, SlackKept DEF TypeOK
  <2>7. QED  BY <1>1, <2>3, <2>4, <2>5, <2>6
<1>3. ASSUME NEW c \in Consumers, NEW m \in Entries,
             IsCurrent(c, m), Action(c, m)
      PROVE  IInv'
  <2>1. /\ processed \subseteq processed'
        /\ \A e \in Events : HasOutcome(e) => HasOutcome(e)'
        /\ \A k \in Entries :
             failures'[k] >= failures[k] /\ recounted'[k] >= recounted[k]
    BY <1>3, Monotone
  <2>2. EventOf[m] \in Events /\ Earned(pc[c], m)
    BY <1>3, EventOfType DEF StepEarned
  <2>3. /\ \A d \in Consumers \ {c} : pc'[d] = pc[d] /\ queue'[d] = queue[d]
        /\ \/ pc'[c] = "check"
           \/ queue'[c] = queue[c] /\ m \in queue'[c]
    BY <1>3 DEF Action, Work, Check, HandleOk, HandleRetryable,
       HandlePermanent, CountRetry, Bury, Clear, Record, Ack, CallFails,
       ReplyLost, CountRepeated, BuryRepeated, GiveUp, Finish, Goto, IsCurrent, TypeOK
  <2>4. IdleAtCheck'
    BY <2>3 DEF IdleAtCheck
  <2>5. ProcessedHasOutcome'
    <3>1. \/ processed' = processed
          \/ pc[c] = "record" /\ processed' = processed \cup {EventOf[m]}
      BY <1>3, ActionEffects
    <3>2. pc[c] = "record" => HasOutcome(EventOf[m])
      BY <2>2 DEF Earned
    <3>3. processed \subseteq Events
      BY DEF TypeOK
    <3>4. ASSUME NEW e \in processed' PROVE HasOutcome(e)'
      <4>1. e \in Events /\ HasOutcome(e)
        BY <2>2, <3>1, <3>2, <3>3 DEF ProcessedHasOutcome
      <4>2. QED  BY <2>1, <4>1
    <3>5. QED  BY <3>4 DEF ProcessedHasOutcome
  <2>6. AckedIsProcessed'
    BY <1>3, <2>1, <2>2, ActionEffects DEF AckedIsProcessed, Earned
  <2>7. QuarantineEarned'
    <3> SUFFICES ASSUME NEW k \in Entries \ Poison, Buried(k)'
                 PROVE  /\ failures'[k] > 0
                        /\ failures'[k] + recounted'[k] >= MaxRetries
      BY DEF QuarantineEarned
    <3>1. /\ failures[k] \in Nat /\ failures'[k] \in Nat /\ MaxRetries \in Nat
          /\ recounted[k] \in Nat /\ recounted'[k] \in Nat
      BY <1>1, RetriesNat DEF TypeOK
    <3>2. CASE Buried(k)
      BY <2>1, <3>1, <3>2 DEF QuarantineEarned
    <3>3. CASE ~Buried(k)
      <4>1. pc[c] = "bury" /\ dlq' = Append(dlq, m) /\ dlq \in Seq(Entries)
        BY <1>3, <3>3, ActionEffects DEF Buried, TypeOK
      <4>2. k = m
        BY <3>3, <4>1 DEF Buried
      <4>3. QED  BY <2>1, <2>2, <3>1, <4>1, <4>2 DEF Earned
    <3>4. QED  BY <3>2, <3>3
  <2>8. StepEarned'
    <3>1. \/ pc'[c] = "check"
          \/ Earned(pc[c], m)'
      <4>1. CASE Check(c, m)
        BY <4>1 DEF Check, Goto, Earned, TypeOK
      <4>2. CASE HandleOk(c, m)
        <5>1. /\ effects \in Seq(Runs) /\ [entry |-> m, by |-> c] \in Runs
              /\ effects' = Append(effects, [entry |-> m, by |-> c])
          BY <4>2 DEF HandleOk, TypeOK, Runs
        <5>2. \E i \in DOMAIN effects' : effects'[i] = [entry |-> m, by |-> c]
          BY <5>1, AppendedIsThere
        <5>3. HasOutcome(EventOf[m])'
          BY <5>2 DEF HasOutcome, Handled
        <5>4. pc'[c] = "clear"
          BY <4>2 DEF HandleOk, Goto, TypeOK
        <5>5. QED  BY <5>3, <5>4 DEF Earned
      <4>3. CASE HandleRetryable(c, m)
        BY <4>3 DEF HandleRetryable, Goto, Earned, TypeOK
      <4>4. CASE HandlePermanent(c, m)
        BY <4>4 DEF HandlePermanent, Goto, Earned, TypeOK
      <4>5. CASE CountRetry(c, m)
        <5>1. CASE pc'[c] = "check"
          BY <5>1
        <5>2. CASE pc'[c] # "check"
          <6>1. /\ pc[c] = "count" /\ pc'[c] = "bury" /\ failures' = failures
                /\ ~(retry[m] + 1 < MaxRetries)
            BY <4>5, <5>2 DEF CountRetry, GiveUp, Finish, Goto, TypeOK
          <6>2. c \in Counting(m)
            BY <1>3, <6>1 DEF Counting
          <6>3. Cardinality(Counting(m)) >= 1
            BY <6>2, CountingFinite, FS_EmptySet
          <6>4. retry[m] + 1 <= failures[m] + recounted[m]
            BY <6>3, CountingFinite DEF RetriesAreFailures, TypeOK
          <6>5. recounted' = recounted /\ failures[m] > 0
            BY <2>2, <4>5, <6>1 DEF CountRetry, Earned
          <6>6. failures'[m] > 0 /\ failures'[m] + recounted'[m] >= MaxRetries
            BY <6>1, <6>4, <6>5, RetriesNat DEF TypeOK
          <6>7. QED  BY <6>1, <6>6 DEF Earned
        <5>3. QED  BY <5>1, <5>2
      <4>6. CASE Bury(c, m)
        <5>1. dlq' = Append(dlq, m) /\ dlq \in Seq(Entries)
          BY <4>6 DEF Bury, TypeOK
        <5>2. HasOutcome(EventOf[m])'
          BY <5>1, AppendedIsThere DEF HasOutcome, Buried
        <5>3. pc'[c] \in {"clear", "record"}
          BY <4>6 DEF Bury, Goto, TypeOK
        <5>4. QED  BY <5>2, <5>3 DEF Earned
      <4>7. CASE Clear(c, m)
        <5>1. pc[c] = "clear" /\ pc'[c] = "record"
          BY <4>7 DEF Clear, Goto, TypeOK
        <5>2. QED  BY <2>1, <2>2, <5>1 DEF Earned
      <4>8. CASE Record(c, m)
        BY <4>8 DEF Record, Goto, Earned, TypeOK
      <4>9. CASE Ack(c, m) \/ CallFails(c, m) \/ ReplyLost(c, m)
        BY <4>9 DEF Ack, CallFails, ReplyLost, CountRepeated, BuryRepeated, GiveUp, Finish, TypeOK
      <4>10. CASE CountRepeated(c, m) \/ BuryRepeated(c, m)
        <5>1. /\ pc'[c] = pc[c] /\ failures' = failures
              /\ pc[c] \in {"count", "bury"}
          BY <4>10 DEF CountRepeated, BuryRepeated
        <5>2. recounted'[m] >= recounted[m]
          BY <2>1
        <5>3. /\ failures[m] \in Nat /\ recounted[m] \in Nat /\ recounted'[m] \in Nat
              /\ MaxRetries \in Nat
          BY <1>1, RetriesNat DEF TypeOK
        <5>4. QED  BY <2>2, <5>1, <5>2, <5>3 DEF Earned
      <4>11. QED
        BY <1>3, <4>1, <4>2, <4>3, <4>4, <4>5, <4>6, <4>7, <4>8, <4>9, <4>10
           DEF Action, Work
    <3>2. \/ pc'[c] = "check"
          \/ /\ queue'[c] = queue[c]
             /\ \A k \in Entries : IsCurrent(c, k) => Earned(pc[c], k)'
      BY <1>3, <2>3, <3>1, CurrentUnique
    <3>3. QED
      BY <1>1, <2>1, <2>3, <3>2, StepEarnedKept DEF TypeOK
  <2>9. RetriesAreFailures'
    <3>1. CASE HandleRetryable(c, m)
      <4> SUFFICES ASSUME NEW k \in Entries
                   PROVE  retry'[k] + Cardinality(Counting(k)') <= failures'[k] + recounted'[k]
        BY DEF RetriesAreFailures
      <4>1. /\ pc[c] = "handle" /\ pc' = [pc EXCEPT ![c] = "count"]
            /\ queue' = queue /\ retry' = retry /\ recounted' = recounted
            /\ failures' = [failures EXCEPT ![m] = @ + 1]
        BY <3>1 DEF HandleRetryable, Goto
      <4>2. /\ retry[k] \in Nat /\ failures[k] \in Nat
            /\ recounted[k] \in Nat
            /\ retry[k] + Cardinality(Counting(k)) <= failures[k] + recounted[k]
            /\ IsFiniteSet(Counting(k)) /\ Cardinality(Counting(k)) \in Nat
        BY CountingFinite DEF TypeOK, RetriesAreFailures
      <4>3. CASE k = m
        <5>1. c \notin Counting(k)
          BY <4>1 DEF Counting
        <5>2. Counting(k)' = Counting(k) \cup {c}
          BY <1>3, <4>1, <4>3 DEF Counting, IsCurrent, TypeOK
        <5>3. Cardinality(Counting(k)') = Cardinality(Counting(k)) + 1
          BY <4>2, <5>1, <5>2, FS_AddElement
        <5>4. failures'[k] = failures[k] + 1
          BY <4>1, <4>3 DEF TypeOK
        <5>5. QED  BY <4>1, <4>2, <5>3, <5>4
      <4>4. CASE k # m
        <5>1. ~IsCurrent(c, k)
          BY <1>3, <4>4, CurrentUnique
        <5>2. Counting(k)' = Counting(k)
          BY <4>1, <5>1 DEF Counting, IsCurrent, TypeOK
        <5>3. failures'[k] = failures[k]
          BY <4>1, <4>4 DEF TypeOK
        <5>4. QED  BY <4>1, <4>2, <5>2, <5>3
      <4>5. QED  BY <4>3, <4>4
    <3>2. CASE pc[c] = "count" /\ (CountRetry(c, m) \/ ReplyLost(c, m))
      <4> SUFFICES ASSUME NEW k \in Entries
                   PROVE  retry'[k] + Cardinality(Counting(k)') <= failures'[k] + recounted'[k]
        BY DEF RetriesAreFailures
      <4>1. /\ pc'[c] # "count" /\ failures' = failures /\ recounted' = recounted
            /\ retry' = [retry EXCEPT ![m] = @ + 1]
        BY <3>2 DEF CountRetry, ReplyLost, GiveUp, Finish, Goto, TypeOK
      <4>2. /\ retry[k] \in Nat /\ failures[k] \in Nat
            /\ recounted[k] \in Nat
            /\ retry[k] + Cardinality(Counting(k)) <= failures[k] + recounted[k]
            /\ IsFiniteSet(Counting(k)) /\ Cardinality(Counting(k)) \in Nat
        BY CountingFinite DEF TypeOK, RetriesAreFailures
      <4>3. /\ Counting(k)' \subseteq Counting(k) \ {c}
            /\ Cardinality(Counting(k)') \in Nat
            /\ Cardinality(Counting(k)') <= Cardinality(Counting(k))
        BY <2>3, <4>1, CountingShrinks
      <4>4. CASE k = m
        <5>1. c \in Counting(k)
          BY <1>3, <3>2, <4>4 DEF Counting
        <5>2. /\ IsFiniteSet(Counting(k) \ {c})
              /\ Cardinality(Counting(k) \ {c}) = Cardinality(Counting(k)) - 1
          BY <4>2, <5>1, FS_RemoveElement
        <5>3. Cardinality(Counting(k)') <= Cardinality(Counting(k)) - 1
          BY <4>3, <5>2, FS_Subset
        <5>4. retry'[k] = retry[k] + 1
          BY <4>1, <4>4 DEF TypeOK
        <5>5. QED  BY <4>1, <4>2, <4>3, <5>3, <5>4
      <4>5. CASE k # m
        <5>1. retry'[k] = retry[k]
          BY <4>1, <4>5 DEF TypeOK
        <5>2. QED  BY <4>1, <4>2, <4>3, <5>1
      <4>6. QED  BY <4>4, <4>5
    <3>4. CASE CountRepeated(c, m)
      <4>1. /\ pc' = pc /\ queue' = queue /\ failures' = failures
            /\ retry' = [retry EXCEPT ![m] = @ + 1]
            /\ recounted' = [recounted EXCEPT ![m] = @ + 1]
        BY <3>4 DEF CountRepeated
      <4>2. \A k \in Entries : Counting(k)' = Counting(k)
        BY <4>1 DEF Counting, IsCurrent
      <4>3. \A k \in Entries :
              retry'[k] - recounted'[k] = retry[k] - recounted[k]
        BY <4>1 DEF TypeOK
      <4>4. /\ retry \in [Entries -> Nat] /\ retry' \in [Entries -> Nat]
            /\ failures \in [Entries -> Nat]
            /\ recounted \in [Entries -> Nat] /\ recounted' \in [Entries -> Nat]
        BY <1>1 DEF TypeOK
      <4>5. QED  BY <4>1, <4>2, <4>3, <4>4, CountingFinite DEF RetriesAreFailures
    <3>3. CASE /\ ~HandleRetryable(c, m) /\ ~CountRepeated(c, m)
               /\ ~(pc[c] = "count" /\ (CountRetry(c, m) \/ ReplyLost(c, m)))
      <4>1. /\ pc'[c] # "count"
            /\ retry' = retry \/ retry' = [retry EXCEPT ![m] = 0]
        BY <1>3, <3>3
           DEF Action, Work, Check, HandleOk, HandlePermanent, CountRetry,
           Bury, Clear, Record, Ack, CallFails, ReplyLost, CountRepeated, BuryRepeated, GiveUp, Finish,
           Goto, TypeOK
      <4>2. \A k \in Entries : retry'[k] <= retry[k] /\ retry'[k] \in Nat
        <5>1. CASE retry' = retry
          BY <5>1 DEF TypeOK
        <5>2. CASE retry' = [retry EXCEPT ![m] = 0]
          BY <5>2 DEF TypeOK
        <5>3. QED  BY <4>1, <5>1, <5>2
      <4>3. QED  BY <1>1, <2>1, <2>3, <4>1, <4>2, SlackKept DEF TypeOK
    <3>5. QED  BY <3>1, <3>2, <3>3, <3>4
  <2>10. QED
    BY <1>1, <2>4, <2>5, <2>6, <2>7, <2>8, <2>9
<1>4. CASE UNCHANGED vars
  BY <1>1, <1>4
     DEF vars, ProcessedHasOutcome, AckedIsProcessed, IdleAtCheck, StepEarned,
     RetriesAreFailures, QuarantineEarned, HasOutcome, Handled, Buried,
     Earned, IsCurrent, Counting
<1>5. QED  BY <1>2, <1>3, <1>4, NextCases

LEMMA Invariance == Spec => []IInv
BY InvInit, InvStep, PTL DEF Spec

(***************************************************************************)
(* Nothing is dropped: when an entry is acknowledged its event was handled *)
(* successfully or is in the dead letter queue.                            *)
(***************************************************************************)
THEOREM AckedHasOutcome == Spec => []NothingDropped
<1>1. IInv => NothingDropped
  BY DEF IInv, AckedIsProcessed, ProcessedHasOutcome, NothingDropped
<1>2. QED  BY <1>1, Invariance, PTL

(***************************************************************************)
(* A well-formed entry reaches the dead letter queue only after its        *)
(* handler failed, and maxEventRetries times but for the INCRs sent again, *)
(* however replicas race.                                                  *)
(***************************************************************************)
THEOREM QuarantineIsEarned == Spec => []QuarantineEarned
<1>1. IInv => QuarantineEarned
  BY DEF IInv
<1>2. QED  BY <1>1, Invariance, PTL

-----------------------------------------------------------------------------
(***************************************************************************)
(* The order in which a replica handles entries.                           *)
(***************************************************************************)
\* A delivered entry nobody holds was acknowledged or given up.
Pursued == \A m \in 1 .. lastRead : m \in acked \cup Held \cup deferred

\* What a replica holds is younger than what it handled, or was given up.
NotOlder ==
  \A i \in DOMAIN effects :
    /\ effects[i].entry <= lastRead
    /\ \A m \in queue[effects[i].by] : m \in deferred \/ effects[i].entry <= m

Handling == Pursued /\ NotOlder /\ OvertakenOnlyIfDeferred

\* What the calls of one step do to the queues.
LEMMA ActionQueues ==
  ASSUME TypeOK, NEW c \in Consumers, NEW m \in Entries, IsCurrent(c, m), Action(c, m)
  PROVE  /\ lastRead' = lastRead /\ acked \subseteq acked' /\ deferred \subseteq deferred'
         /\ \A d \in Consumers : queue'[d] \subseteq queue[d]
         /\ Held \subseteq Held' \cup acked' \cup deferred'
         /\ \/ effects' = effects
            \/ effects' = Append(effects, [entry |-> m, by |-> c])
<1>1. lastRead' = lastRead /\ acked \subseteq acked'
  BY DEF Action, Work, Check, HandleOk, HandleRetryable, HandlePermanent, CountRetry,
     Bury, Clear, Record, Ack, CallFails, ReplyLost, CountRepeated, BuryRepeated
<1>2. \/ GiveUp(c, m)
      \/ queue' = queue /\ deferred' = deferred
      \/ Finish(c, m) /\ deferred' = deferred /\ m \in acked'
  BY DEF Action, Work, Check, HandleOk, HandleRetryable, HandlePermanent, CountRetry,
     Bury, Clear, Record, Ack, CallFails, ReplyLost, CountRepeated, BuryRepeated, Goto
<1>3. /\ \A d \in Consumers : /\ queue'[d] \subseteq queue[d]
                              /\ queue[d] \subseteq queue'[d] \cup {m}
      /\ deferred \subseteq deferred'
      /\ queue' = queue \/ m \in acked' \cup deferred'
  BY <1>2 DEF GiveUp, Finish, TypeOK
<1>4. Held \subseteq Held' \cup acked' \cup deferred'
  BY <1>3 DEF Held
<1>5. QED  BY <1>1, <1>3, <1>4, ActionEffects

LEMMA HandlingStep == TypeOK /\ Handling /\ [Next]_vars => Handling'
<1> SUFFICES ASSUME TypeOK, Handling, [Next]_vars PROVE Handling'
  OBVIOUS
<1> USE DEF Handling
<1>1. /\ lastRead \in Nat /\ effects \in Seq(Runs)
      /\ \A i \in DOMAIN effects :
           effects[i].entry \in Nat /\ effects[i].by \in Consumers
  <2>1. effects \in Seq(Runs) /\ lastRead \in Nat /\ Entries \subseteq Nat
    BY NumEntriesNat DEF TypeOK, Entries
  <2>2. \A i \in DOMAIN effects : effects[i] \in Runs
    BY <2>1
  <2>3. QED  BY <2>1, <2>2 DEF Runs
<1>2. ASSUME UNCHANGED <<acked, queue, effects, deferred, lastRead>> PROVE Handling'
  BY <1>2 DEF Pursued, Held, NotOlder, OvertakenOnlyIfDeferred
<1>3. ASSUME NEW c \in Consumers, Read(c) PROVE Handling'
  <2>1. PICK last \in lastRead + 1 .. NumEntries :
               /\ lastRead' = last /\ queue' = [queue EXCEPT ![c] = lastRead + 1 .. last]
               /\ queue[c] = {} /\ UNCHANGED <<acked, effects, deferred>>
    BY <1>3 DEF Read
  <2>2. last \in Nat /\ lastRead <= last /\ \A m \in lastRead + 1 .. last : lastRead <= m
    BY <1>1, <2>1, NumEntriesNat
  <2>3. 1 .. last \subseteq 1 .. lastRead \cup (lastRead + 1 .. last)
    BY <1>1, <2>2
  <2>4. Held \cup (lastRead + 1 .. last) \subseteq Held'
    BY <2>1 DEF Held, TypeOK
  <2>5. Pursued'
    BY <2>1, <2>3, <2>4 DEF Pursued
  <2>6. NotOlder'
    <3> SUFFICES ASSUME NEW i \in DOMAIN effects
                 PROVE  /\ effects[i].entry <= last
                        /\ \A m \in queue'[effects[i].by] :
                             m \in deferred \/ effects[i].entry <= m
      BY <2>1 DEF NotOlder
    <3>1. effects[i].entry <= lastRead
      BY DEF NotOlder
    <3>2. effects[i].entry <= last /\ \A m \in lastRead + 1 .. last : effects[i].entry <= m
      BY <1>1, <2>1, <2>2, <3>1
    <3>3. QED  BY <1>1, <2>1, <3>2 DEF NotOlder, TypeOK
  <2>7. OvertakenOnlyIfDeferred'
    BY <2>1 DEF OvertakenOnlyIfDeferred
  <2>8. QED  BY <2>5, <2>6, <2>7
<1>9. ASSUME NEW c \in Consumers, ReadLost(c) PROVE Handling'
  <2>1. PICK last \in lastRead + 1 .. NumEntries :
               /\ lastRead' = last /\ deferred' = deferred \cup (lastRead + 1 .. last)
               /\ UNCHANGED <<acked, effects, queue>>
    BY <1>9 DEF ReadLost
  <2>2. /\ last \in Nat /\ lastRead <= last
        /\ 1 .. last \subseteq 1 .. lastRead \cup (lastRead + 1 .. last)
    BY <1>1, <2>1, NumEntriesNat
  <2>3. Held' = Held
    BY <2>1 DEF Held
  <2>4. Pursued'
    BY <2>1, <2>2, <2>3 DEF Pursued
  <2>5. NotOlder' /\ OvertakenOnlyIfDeferred'
    BY <1>1, <2>1, <2>2 DEF NotOlder, OvertakenOnlyIfDeferred
  <2>6. QED  BY <2>4, <2>5
<1>4. ASSUME NEW c \in Consumers, Claim(c) \/ ClaimFromStalled(c) PROVE Handling'
  <2>1. PICK S \in SUBSET Pending :
               /\ queue' = [queue EXCEPT ![c] = S] /\ queue[c] = {}
               /\ S \cap Held = {} \/ S \subseteq deferred'
    BY <1>4 DEF Claim, ClaimFromStalled
  <2>2. UNCHANGED <<acked, effects, lastRead>> /\ deferred \subseteq deferred'
    BY <1>4 DEF Claim, ClaimFromStalled
  <2>3. Held \subseteq Held'
    BY <2>1 DEF Held, TypeOK
  <2>4. S \subseteq deferred'
    BY <2>1, <2>2 DEF Pursued, Pending
  <2>5. Pursued' /\ OvertakenOnlyIfDeferred'
    BY <2>2, <2>3 DEF Pursued, OvertakenOnlyIfDeferred
  <2>6. NotOlder'
    BY <1>1, <2>1, <2>2, <2>4 DEF NotOlder, TypeOK
  <2>7. QED  BY <2>5, <2>6
<1>5. ASSUME NEW c \in Consumers, Crash(c) PROVE Handling'
  <2>1. /\ UNCHANGED <<acked, effects, lastRead>>
        /\ deferred' = deferred \cup queue[c] /\ queue' = [queue EXCEPT ![c] = {}]
    BY <1>5 DEF Crash
  <2>2. Held \subseteq Held' \cup queue[c]
    BY <2>1 DEF Held, TypeOK
  <2>3. QED  BY <1>1, <2>1, <2>2 DEF Pursued, NotOlder, OvertakenOnlyIfDeferred, TypeOK
<1>6. ASSUME NEW c \in Consumers, NEW m \in Entries, IsCurrent(c, m), Action(c, m)
      PROVE  Handling'
  <2>1. /\ lastRead' = lastRead /\ acked \subseteq acked' /\ deferred \subseteq deferred'
        /\ \A d \in Consumers : queue'[d] \subseteq queue[d]
        /\ Held \subseteq Held' \cup acked' \cup deferred'
        /\ \/ effects' = effects
           \/ effects' = Append(effects, [entry |-> m, by |-> c])
    BY <1>6, ActionQueues
  <2>2. Pursued'
    BY <2>1 DEF Pursued
  <2>3. m \in 1 .. lastRead /\ m \in queue[c] /\ \A k \in queue[c] : m <= k
    BY <1>6 DEF IsCurrent, TypeOK
  <2>4. CASE effects' = effects
    BY <1>1, <2>1, <2>2, <2>4 DEF NotOlder, OvertakenOnlyIfDeferred
  <2>5. CASE effects' = Append(effects, [entry |-> m, by |-> c])
    <3> DEFINE n == Len(effects) + 1
    <3>1. /\ DOMAIN effects' = DOMAIN effects \cup {n}
          /\ effects'[n] = [entry |-> m, by |-> c]
          /\ \A i \in DOMAIN effects : effects'[i] = effects[i] /\ i < n /\ ~(n < i)
          /\ ~(n < n)
      BY <1>1, <2>5
    <3>2. NotOlder'
      <4> SUFFICES ASSUME NEW i \in DOMAIN effects'
                   PROVE  /\ effects'[i].entry <= lastRead
                          /\ \A k \in queue'[effects'[i].by] :
                               k \in deferred' \/ effects'[i].entry <= k
        BY <2>1 DEF NotOlder
      <4>1. CASE i \in DOMAIN effects
        BY <1>1, <2>1, <3>1, <4>1 DEF NotOlder
      <4>2. CASE i = n
        BY <1>1, <2>1, <2>3, <3>1, <4>2
      <4>3. QED  BY <3>1, <4>1, <4>2
    <3>3. OvertakenOnlyIfDeferred'
      <4> SUFFICES ASSUME NEW i \in DOMAIN effects', NEW j \in DOMAIN effects',
                          i < j, effects'[i].by = effects'[j].by,
                          effects'[i].entry > effects'[j].entry
                   PROVE  effects'[j].entry \in deferred'
        BY DEF OvertakenOnlyIfDeferred
      <4>1. i \in DOMAIN effects
        BY <3>1
      <4>2. CASE j \in DOMAIN effects
        BY <2>1, <3>1, <4>1, <4>2 DEF OvertakenOnlyIfDeferred
      <4>3. CASE j = n
        <5>1. effects[i].by = c /\ effects[i].entry > m /\ effects[i].entry \in Nat
          BY <1>1, <3>1, <4>1, <4>3
        <5>2. m \in deferred \/ effects[i].entry <= m
          BY <2>3, <4>1, <5>1 DEF NotOlder
        <5>3. QED  BY <1>1, <2>1, <2>3, <3>1, <4>3, <5>1, <5>2
      <4>4. QED  BY <3>1, <4>2, <4>3
    <3>4. QED  BY <2>2, <3>2, <3>3
  <2>6. QED  BY <2>1, <2>4, <2>5
<1>7. CASE UNCHANGED vars
  BY <1>2, <1>7 DEF vars
<1>8. QED  BY <1>3, <1>4, <1>5, <1>6, <1>7, <1>9, NextCases

(***************************************************************************)
(* Within a replica an entry is handled after a later one only when it had *)
(* been given up or stalled on.                                            *)
(***************************************************************************)
THEOREM OvertakingIsExplained == Spec => []OvertakenOnlyIfDeferred
<1>1. Init => Handling
  BY DEF Init, Handling, Pursued, NotOlder, OvertakenOnlyIfDeferred
<1>2. Handling => OvertakenOnlyIfDeferred
  BY DEF Handling
<1>3. QED  BY <1>1, <1>2, HandlingStep, TypeCorrect, PTL DEF Spec

-----------------------------------------------------------------------------
(***************************************************************************)
(* The outcomes of an event.  Until its key is set, every outcome belongs  *)
(* to a replica that is about to set it, or was given up.  Once it is set, *)
(* only the replicas that passed the check before can add an outcome.      *)
(***************************************************************************)
Before == {"handle", "count", "bury"}
After  == {"clear", "record"}

\* The replicas whose current entry carries e, at one of the steps S.
Working(S, e) ==
  {c \in Consumers : pc[c] \in S /\ \E m \in Entries : IsCurrent(c, m) /\ EventOf[m] = e}

Trying(e) == Working(Before, e)
Owing(e)  == Working(After, e)

Outcomes(e) == Times(e) + Burials(e)

CountedOnce(e) ==
  /\ e \notin processed => Outcomes(e) <= Cardinality(Owing(e)) + lost[e]
  /\ e \in processed =>
       Outcomes(e) + Cardinality(Trying(e)) <= Cardinality(Consumers) + lost[e]

OutcomesCounted == \A e \in Events : CountedOnce(e)

LEMMA WorkingFinite ==
  ASSUME NEW e
  PROVE  /\ IsFiniteSet(Trying(e)) /\ Cardinality(Trying(e)) \in Nat
         /\ IsFiniteSet(Owing(e)) /\ Cardinality(Owing(e)) \in Nat
         /\ Cardinality(Consumers) \in Nat
         /\ Cardinality(Owing(e)) + Cardinality(Trying(e)) <= Cardinality(Consumers)
<1>1. /\ Trying(e) \subseteq Consumers /\ Owing(e) \subseteq Consumers
      /\ Trying(e) \cup Owing(e) \subseteq Consumers /\ Owing(e) \cap Trying(e) = {}
  BY DEF Trying, Owing, Working, Before, After
<1>2. IsFiniteSet(Trying(e)) /\ IsFiniteSet(Owing(e))
  BY <1>1, ConsumersFin, FS_Subset
<1>3. /\ Cardinality(Trying(e)) \in Nat /\ Cardinality(Owing(e)) \in Nat
      /\ Cardinality(Consumers) \in Nat
  BY <1>2, ConsumersFin, FS_CardinalityType
<1>4. Cardinality(Owing(e) \cup Trying(e)) <= Cardinality(Consumers)
  BY <1>1, ConsumersFin, FS_Subset
<1>5. Cardinality(Owing(e) \cup Trying(e))
        = Cardinality(Owing(e)) + Cardinality(Trying(e)) - Cardinality(Owing(e) \cap Trying(e))
  BY <1>2, FS_Union
<1>6. Cardinality(Owing(e) \cap Trying(e)) = 0
  BY <1>1, FS_EmptySet
<1>7. QED  BY <1>2, <1>3, <1>4, <1>5, <1>6

\* How many entries of a sequence are in P: one more after an Append.
Count(s, P) == Cardinality({i \in DOMAIN s : s[i] \in P})

LEMMA CountAppend ==
  ASSUME NEW S, NEW s \in Seq(S), NEW y \in S, NEW P
  PROVE  /\ Count(s, P) \in Nat
         /\ Count(Append(s, y), P) = Count(s, P) + (IF y \in P THEN 1 ELSE 0)
<1> DEFINE I == {i \in DOMAIN s : s[i] \in P}
           J == {i \in DOMAIN Append(s, y) : Append(s, y)[i] \in P}
           n == Len(s) + 1
<1>1. /\ Len(s) \in Nat /\ DOMAIN s = 1 .. Len(s) /\ n \notin DOMAIN s
      /\ DOMAIN Append(s, y) = DOMAIN s \cup {n} /\ Append(s, y)[n] = y
      /\ \A i \in DOMAIN s : Append(s, y)[i] = s[i]
  OBVIOUS
<1>2. J = IF y \in P THEN I \cup {n} ELSE I
  BY <1>1
<1>3. n \notin I
  BY <1>1
<1>4. IsFiniteSet(I)
  <2>1. IsFiniteSet(1 .. Len(s)) /\ I \subseteq 1 .. Len(s)
    BY <1>1, FS_Interval
  <2>2. QED  BY <2>1, FS_Subset
<1> HIDE DEF I, J, n
<1>5. Cardinality(I) \in Nat
  BY <1>4, FS_CardinalityType
<1>6. Cardinality(I \cup {n}) = Cardinality(I) + 1
  BY <1>3, <1>4, FS_AddElement
<1>7. Cardinality(J) = Cardinality(I) + (IF y \in P THEN 1 ELSE 0)
  BY <1>2, <1>5, <1>6
<1>8. QED  BY <1>5, <1>7 DEF I, J, Count

LEMMA OutcomesNat ==
  ASSUME TypeOK, NEW e
  PROVE  Times(e) \in Nat /\ Burials(e) \in Nat
<1> DEFINE I == {i \in DOMAIN effects : EventOf[effects[i].entry] = e}
           J == {i \in DOMAIN dlq : EventOf[dlq[i]] = e}
<1>1. /\ Len(effects) \in Nat /\ I \subseteq 1 .. Len(effects)
      /\ Len(dlq) \in Nat /\ J \subseteq 1 .. Len(dlq)
  BY DEF TypeOK
<1>2. IsFiniteSet(1 .. Len(effects)) /\ IsFiniteSet(1 .. Len(dlq))
  BY <1>1, FS_Interval
<1> HIDE DEF I, J
<1>3. Cardinality(I) \in Nat /\ Cardinality(J) \in Nat
  BY <1>1, <1>2, FS_Subset, FS_CardinalityType
<1>4. QED  BY <1>3 DEF I, J, Times, Burials

LEMMA OutcomesAppend ==
  ASSUME TypeOK, NEW e \in Events, NEW c \in Consumers, NEW m \in Entries
  PROVE  /\ Times(e) \in Nat /\ Burials(e) \in Nat
         /\ effects' = Append(effects, [entry |-> m, by |-> c]) =>
              Times(e)' = Times(e) + (IF EventOf[m] = e THEN 1 ELSE 0)
         /\ dlq' = Append(dlq, m) =>
              Burials(e)' = Burials(e) + (IF EventOf[m] = e THEN 1 ELSE 0)
<1> DEFINE R == {r \in Runs : EventOf[r.entry] = e}
           B == {k \in Entries : EventOf[k] = e}
           y == [entry |-> m, by |-> c]
<1>1. effects \in Seq(Runs) /\ dlq \in Seq(Entries) /\ y \in Runs
  BY DEF TypeOK, Runs
<1>2. y \in R <=> EventOf[m] = e
  BY <1>1
<1>3. m \in B <=> EventOf[m] = e
  OBVIOUS
<1>4. \A s \in Seq(Runs) : {i \in DOMAIN s : EventOf[s[i].entry] = e}
                            = {i \in DOMAIN s : s[i] \in R}
  OBVIOUS
<1>5. \A s \in Seq(Entries) : {i \in DOMAIN s : EventOf[s[i]] = e}
                               = {i \in DOMAIN s : s[i] \in B}
  OBVIOUS
<1>6. Append(effects, y) \in Seq(Runs) /\ Append(dlq, m) \in Seq(Entries)
  BY <1>1
<1> HIDE DEF R, B, y
<1>7. /\ Times(e) = Count(effects, R)
      /\ effects' = Append(effects, y) => Times(e)' = Count(Append(effects, y), R)
  BY <1>1, <1>4, <1>6 DEF Times, Count
<1>8. /\ Burials(e) = Count(dlq, B)
      /\ dlq' = Append(dlq, m) => Burials(e)' = Count(Append(dlq, m), B)
  BY <1>1, <1>5, <1>6 DEF Burials, Count
<1>9. /\ Count(effects, R) \in Nat /\ Count(dlq, B) \in Nat
      /\ Count(Append(effects, y), R) = Count(effects, R) + (IF y \in R THEN 1 ELSE 0)
      /\ Count(Append(dlq, m), B) = Count(dlq, B) + (IF m \in B THEN 1 ELSE 0)
  BY <1>1, CountAppend
<1>10. QED  BY <1>2, <1>3, <1>7, <1>8, <1>9 DEF y

\* What a call does to the outcomes, by the step of the consumer: it makes
\* none, one that is to be recorded, or one that is given up at once; it
\* records one made before, or gives it up, or the client repeats one.
LEMMA OutcomeMoves ==
  ASSUME TypeOK, NEW c \in Consumers, NEW m \in Entries, IsCurrent(c, m), Action(c, m)
  PROVE  \/ /\ UNCHANGED <<effects, dlq, lost, processed>>
            /\ pc'[c] \in Before => pc[c] \in Before \/ EventOf[m] \notin processed
            /\ pc'[c] \in After <=> pc[c] \in After
         \/ /\ pc[c] \in Before /\ pc'[c] \in After /\ UNCHANGED <<lost, processed>>
            /\ \/ effects' = Append(effects, [entry |-> m, by |-> c]) /\ UNCHANGED dlq
               \/ dlq' = Append(dlq, m) /\ UNCHANGED effects
         \/ /\ pc[c] \in Before /\ pc'[c] = "check" /\ UNCHANGED <<effects, processed>>
            /\ dlq' = Append(dlq, m) /\ lost' = [lost EXCEPT ![EventOf[m]] = @ + 1]
         \/ /\ pc[c] \in After /\ pc'[c] \notin Before \cup After
            /\ UNCHANGED <<effects, dlq, lost>>
            /\ processed' = processed \cup {EventOf[m]}
         \/ /\ pc[c] \in After /\ pc'[c] = "check"
            /\ UNCHANGED <<effects, dlq, processed>>
            /\ lost' = [lost EXCEPT ![EventOf[m]] = @ + 1]
         \/ /\ UNCHANGED <<pc, effects, processed>> /\ dlq' = Append(dlq, m)
            /\ lost' = [lost EXCEPT ![EventOf[m]] = @ + 1]
<1> USE DEF Before, After, Goto, TypeOK
<1>1. CASE Check(c, m)
  BY <1>1 DEF Check
<1>2. CASE HandleOk(c, m)
  BY <1>2 DEF HandleOk
<1>3. CASE HandleRetryable(c, m) \/ HandlePermanent(c, m)
  BY <1>3 DEF HandleRetryable, HandlePermanent
<1>4. CASE CountRetry(c, m)
  BY <1>4 DEF CountRetry, GiveUp, Finish
<1>5. CASE Bury(c, m)
  BY <1>5 DEF Bury
<1>6. CASE Clear(c, m)
  BY <1>6 DEF Clear
<1>7. CASE Record(c, m)
  BY <1>7 DEF Record
<1>8. CASE Ack(c, m)
  BY <1>8 DEF Ack, Finish
<1>9. CASE CallFails(c, m)
  BY <1>9 DEF CallFails, GiveUp, Finish, LoseRecord
<1>10. CASE ReplyLost(c, m)
  BY <1>10 DEF ReplyLost, GiveUp, Finish
<1>11. CASE CountRepeated(c, m) \/ BuryRepeated(c, m)
  BY <1>11 DEF CountRepeated, BuryRepeated
<1>12. QED
  BY <1>1, <1>2, <1>3, <1>4, <1>5, <1>6, <1>7, <1>8, <1>9, <1>10, <1>11 DEF Action, Work

\* A step of c moves nobody else, and c in the sets of its entry only.
LEMMA WorkingMoves ==
  ASSUME TypeOK, TypeOK', NEW c \in Consumers, NEW m \in Entries, IsCurrent(c, m),
         \A d \in Consumers \ {c} : pc'[d] = pc[d] /\ queue'[d] = queue[d],
         pc'[c] = "check" \/ queue'[c] = queue[c],
         NEW S \in SUBSET (Steps \ {"check"}), NEW e \in Events
  PROVE  /\ EventOf[m] # e => Working(S, e)' = Working(S, e)
         /\ EventOf[m] = e =>
              /\ c \in Working(S, e) <=> pc[c] \in S
              /\ Working(S, e)' = IF pc'[c] \in S THEN Working(S, e) \cup {c}
                                  ELSE Working(S, e) \ {c}
<1>1. \A k \in Entries : IsCurrent(c, k) => k = m
  BY CurrentUnique
<1>2. pc'[c] \in S => \A k \in Entries : IsCurrent(c, k)' <=> IsCurrent(c, k)
  BY DEF IsCurrent
<1>3. \A d \in Consumers \ {c} : \A k \in Entries : IsCurrent(d, k)' <=> IsCurrent(d, k)
  BY DEF IsCurrent
<1>4. \A d \in Consumers \ {c} : d \in Working(S, e)' <=> d \in Working(S, e)
  BY <1>3 DEF Working
<1>5. c \in Working(S, e) <=> pc[c] \in S /\ EventOf[m] = e
  BY <1>1 DEF Working
<1>6. c \in Working(S, e)' <=> pc'[c] \in S /\ EventOf[m] = e
  BY <1>1, <1>2 DEF Working
<1>7. Working(S, e) \subseteq Consumers /\ Working(S, e)' \subseteq Consumers
  BY DEF Working
<1>8. QED  BY <1>4, <1>5, <1>6, <1>7

LEMMA CountedOnceStep ==
  ASSUME IInv, [Next]_vars, NEW e \in Events, CountedOnce(e)
  PROVE  CountedOnce(e)'
<1> TypeOK /\ TypeOK' /\ IdleAtCheck
  BY TypeStep DEF IInv
<1> DEFINE x == Outcomes(e)            xP == Outcomes(e)'
           o == Cardinality(Owing(e))  oP == Cardinality(Owing(e)')
           t == Cardinality(Trying(e)) tP == Cardinality(Trying(e)')
           n == Cardinality(Consumers)
           l == lost[e]                lP == lost'[e]
<1>1. /\ x \in Nat /\ o \in Nat /\ t \in Nat /\ n \in Nat /\ l \in Nat /\ lP \in Nat
      /\ o + t <= n
  <2>1. x \in Nat
    BY OutcomesNat DEF Outcomes
  <2>2. QED  BY <2>1, WorkingFinite DEF TypeOK
<1>2. /\ Owing(e)' = Working(After, e)' /\ Trying(e)' = Working(Before, e)'
      /\ Before \in SUBSET (Steps \ {"check"}) /\ After \in SUBSET (Steps \ {"check"})
  BY DEF Owing, Trying, Before, After, Steps
<1>3. CountedOnce(e)' = (/\ e \notin processed' => xP <= oP + lP
                         /\ e \in processed' => xP + tP <= n + lP)
  BY DEF CountedOnce
<1>4. /\ e \notin processed => x <= o + l
      /\ e \in processed => x + t <= n + l
  BY DEF CountedOnce
<1> HIDE DEF x, xP, o, oP, t, tP, n, l, lP
<1>5. CASE UNCHANGED vars
  <2>1. xP = x /\ oP = o /\ tP = t /\ lP = l /\ processed' = processed
    BY <1>5 DEF vars, x, xP, o, oP, t, tP, l, lP, Outcomes, Times, Burials, Owing, Trying,
       Working, IsCurrent
  <2>2. QED  BY <1>3, <1>4, <2>1
<1>6. ASSUME NEW c \in Consumers,
             Read(c) \/ ReadLost(c) \/ Claim(c) \/ ClaimFromStalled(c)
      PROVE  CountedOnce(e)'
  <2>1. /\ UNCHANGED <<effects, dlq, lost, processed, pc>> /\ pc[c] = "check"
        /\ \A d \in Consumers \ {c} : queue'[d] = queue[d]
    BY <1>6 DEF Read, ReadLost, Claim, ClaimFromStalled, IdleAtCheck, TypeOK
  <2>2. Owing(e)' = Owing(e) /\ Trying(e)' = Trying(e)
    BY <2>1 DEF Owing, Trying, Working, Before, After, IsCurrent
  <2>3. xP = x /\ lP = l
    BY <2>1 DEF x, xP, l, lP, Outcomes, Times, Burials
  <2>4. QED  BY <1>3, <1>4, <2>1, <2>2, <2>3 DEF o, oP, t, tP
<1>7. ASSUME NEW c \in Consumers, NEW m \in Entries, IsCurrent(c, m),
             \A d \in Consumers \ {c} : pc'[d] = pc[d] /\ queue'[d] = queue[d],
             pc'[c] = "check" \/ queue'[c] = queue[c]
      PROVE  /\ EventOf[m] # e => oP = o /\ tP = t
             /\ EventOf[m] = e =>
                  /\ oP = o + (IF pc'[c] \in After THEN 1 ELSE 0)
                            - (IF pc[c] \in After THEN 1 ELSE 0)
                  /\ tP = t + (IF pc'[c] \in Before THEN 1 ELSE 0)
                            - (IF pc[c] \in Before THEN 1 ELSE 0)
  <2>1. ASSUME NEW S \in SUBSET (Steps \ {"check"}), IsFiniteSet(Working(S, e))
        PROVE  /\ EventOf[m] # e =>
                    Cardinality(Working(S, e)') = Cardinality(Working(S, e))
               /\ EventOf[m] = e =>
                    Cardinality(Working(S, e)')
                      = Cardinality(Working(S, e)) + (IF pc'[c] \in S THEN 1 ELSE 0)
                                                   - (IF pc[c] \in S THEN 1 ELSE 0)
    <3> DEFINE W == Working(S, e)
               V == Working(S, e)'
    <3>1. /\ EventOf[m] # e => V = W
          /\ EventOf[m] = e => /\ c \in W <=> pc[c] \in S
                               /\ V = IF pc'[c] \in S THEN W \cup {c} ELSE W \ {c}
      BY <1>7, <2>1, WorkingMoves
    <3> HIDE DEF V, W
    <3>2. /\ Cardinality(W) \in Nat
          /\ Cardinality(W \cup {c}) = IF c \in W THEN Cardinality(W) ELSE Cardinality(W) + 1
          /\ Cardinality(W \ {c}) = IF c \in W THEN Cardinality(W) - 1 ELSE Cardinality(W)
      BY <2>1, FS_CardinalityType, FS_AddElement, FS_RemoveElement DEF W
    <3>3. EventOf[m] # e => Cardinality(V) = Cardinality(W)
      BY <3>1
    <3>4. EventOf[m] = e =>
            Cardinality(V) = Cardinality(W) + (IF pc'[c] \in S THEN 1 ELSE 0)
                                            - (IF pc[c] \in S THEN 1 ELSE 0)
      <4> SUFFICES ASSUME EventOf[m] = e
                   PROVE  Cardinality(V) = Cardinality(W) + (IF pc'[c] \in S THEN 1 ELSE 0)
                                                          - (IF pc[c] \in S THEN 1 ELSE 0)
        OBVIOUS
      <4>1. CASE pc'[c] \in S
        <5>1. V = W \cup {c} /\ (c \in W <=> pc[c] \in S)
          BY <3>1, <4>1
        <5>2. Cardinality(V) = IF pc[c] \in S THEN Cardinality(W) ELSE Cardinality(W) + 1
          BY <3>2, <5>1
        <5>3. QED  BY <3>2, <4>1, <5>2
      <4>2. CASE pc'[c] \notin S
        <5>1. V = W \ {c} /\ (c \in W <=> pc[c] \in S)
          BY <3>1, <4>2
        <5>2. Cardinality(V) = IF pc[c] \in S THEN Cardinality(W) - 1 ELSE Cardinality(W)
          BY <3>2, <5>1
        <5>3. QED  BY <3>2, <4>2, <5>2
      <4>3. QED  BY <4>1, <4>2
    <3>5. QED  BY <3>3, <3>4 DEF V, W
  <2>2. IsFiniteSet(Working(After, e)) /\ IsFiniteSet(Working(Before, e))
    BY WorkingFinite DEF Owing, Trying
  <2>3. /\ o = Cardinality(Working(After, e)) /\ oP = Cardinality(Working(After, e)')
        /\ t = Cardinality(Working(Before, e)) /\ tP = Cardinality(Working(Before, e)')
    BY <1>2 DEF o, oP, t, tP, Owing, Trying
  <2>4. QED  BY <1>2, <2>1, <2>2, <2>3
<1>8. ASSUME NEW c \in Consumers, Crash(c) PROVE CountedOnce(e)'
  <2>1. PICK m \in queue[c] : IsCurrent(c, m) /\ LoseRecord(c, m)
    BY <1>8 DEF Crash
  <2>2. m \in Entries /\ EventOf[m] \in Events
    BY <2>1, NumEntriesNat, EventOfType DEF TypeOK, Entries
  <2>3. /\ UNCHANGED <<effects, dlq, processed>> /\ pc'[c] = "check"
        /\ \A d \in Consumers \ {c} : pc'[d] = pc[d] /\ queue'[d] = queue[d]
    BY <1>8 DEF Crash, TypeOK
  <2>4. xP = x
    BY <2>3 DEF x, xP, Outcomes, Times, Burials
  <2>5. lP = l + (IF EventOf[m] = e /\ pc[c] \in After THEN 1 ELSE 0)
    <3>1. CASE pc[c] \in After
      <4>1. lost' = [lost EXCEPT ![EventOf[m]] = @ + 1]
        BY <2>1, <3>1 DEF LoseRecord, After
      <4>2. lost \in [Events -> Nat]
        BY DEF TypeOK
      <4>3. lost'[e] = lost[e] + (IF EventOf[m] = e THEN 1 ELSE 0)
        BY <2>2, <4>1, <4>2
      <4>4. QED  BY <3>1, <4>3 DEF l, lP
    <3>2. CASE pc[c] \notin After
      <4>1. lost' = lost
        BY <2>1, <3>2 DEF LoseRecord, After
      <4>2. QED  BY <1>1, <3>2, <4>1 DEF l, lP
    <3>3. QED  BY <3>1, <3>2
  <2>6. pc'[c] \notin Before \cup After
    BY <2>3 DEF Before, After
  <2>7. /\ EventOf[m] # e => oP = o /\ tP = t
        /\ EventOf[m] = e => /\ oP = o - (IF pc[c] \in After THEN 1 ELSE 0)
                             /\ tP = t - (IF pc[c] \in Before THEN 1 ELSE 0)
    BY <1>1, <1>7, <2>1, <2>2, <2>3, <2>6
  <2>8. QED  BY <1>1, <1>3, <1>4, <2>3, <2>4, <2>5, <2>7
<1>9. ASSUME NEW c \in Consumers, NEW m \in Entries, IsCurrent(c, m), Action(c, m)
      PROVE  CountedOnce(e)'
  <2>1. /\ \A d \in Consumers \ {c} : pc'[d] = pc[d] /\ queue'[d] = queue[d]
        /\ pc'[c] = "check" \/ queue'[c] = queue[c]
    BY <1>9 DEF Action, Work, Check, HandleOk, HandleRetryable, HandlePermanent,
       CountRetry, Bury, Clear, Record, Ack, CallFails, ReplyLost, CountRepeated, BuryRepeated, GiveUp, Finish, Goto,
       TypeOK
  <2>2. /\ EventOf[m] # e => oP = o /\ tP = t
        /\ EventOf[m] = e =>
             /\ oP = o + (IF pc'[c] \in After THEN 1 ELSE 0)
                       - (IF pc[c] \in After THEN 1 ELSE 0)
             /\ tP = t + (IF pc'[c] \in Before THEN 1 ELSE 0)
                       - (IF pc[c] \in Before THEN 1 ELSE 0)
    BY <1>7, <1>9, <2>1
  <2> DEFINE d == IF EventOf[m] = e THEN 1 ELSE 0
  <2>3. UNCHANGED <<effects, dlq>> => xP = x
    BY DEF x, xP, Outcomes, Times, Burials
  <2>4. \/ effects' = Append(effects, [entry |-> m, by |-> c]) /\ UNCHANGED dlq
        \/ dlq' = Append(dlq, m) /\ UNCHANGED effects
        => xP = x + d
    <3>1. /\ Times(e) \in Nat /\ Burials(e) \in Nat
          /\ effects' = Append(effects, [entry |-> m, by |-> c]) => Times(e)' = Times(e) + d
          /\ dlq' = Append(dlq, m) => Burials(e)' = Burials(e) + d
      BY OutcomesAppend
    <3>2. /\ UNCHANGED dlq => Burials(e)' = Burials(e)
          /\ UNCHANGED effects => Times(e)' = Times(e)
      BY DEF Times, Burials
    <3>3. /\ d \in Nat
          /\ x = Times(e) + Burials(e) /\ xP = Times(e)' + Burials(e)'
      BY DEF d, x, xP, Outcomes
    <3> HIDE DEF d, x, xP
    <3>4. QED  BY <3>1, <3>2, <3>3
  <2>5. lost' = lost => lP = l
    BY DEF l, lP
  <2>6. lost' = [lost EXCEPT ![EventOf[m]] = @ + 1] => lP = l + d
    <3>1. lost \in [Events -> Nat] /\ EventOf[m] \in Events
      BY EventOfType DEF TypeOK
    <3>2. lost' = [lost EXCEPT ![EventOf[m]] = @ + 1] => lost'[e] = lost[e] + d
      BY <3>1
    <3>3. QED  BY <3>2 DEF l, lP
  <2>7. Before \cap After = {} /\ "check" \notin Before \cup After
    BY DEF Before, After
  <2>8. CASE EventOf[m] # e
    <3>1. /\ UNCHANGED <<effects, dlq>> \/ xP = x + d
          /\ lost' = lost \/ lost' = [lost EXCEPT ![EventOf[m]] = @ + 1]
          /\ processed' = processed \/ processed' = processed \cup {EventOf[m]}
      BY <1>9, <2>4, OutcomeMoves
    <3>2. xP = x /\ lP = l /\ (e \in processed' <=> e \in processed)
      BY <1>1, <2>3, <2>5, <2>6, <2>8, <3>1
    <3>3. QED  BY <1>3, <1>4, <2>2, <2>8, <3>2
  <2>9. CASE EventOf[m] = e
    <3> HIDE DEF d
    <3>1. d = 1
      BY <2>9 DEF d
    <3>2. CASE /\ UNCHANGED <<effects, dlq, lost, processed>>
               /\ pc'[c] \in Before => pc[c] \in Before \/ EventOf[m] \notin processed
               /\ pc'[c] \in After <=> pc[c] \in After
      <4>1. xP = x /\ lP = l /\ oP = o /\ tP \in Int /\ (e \in processed => tP <= t)
        BY <1>1, <2>2, <2>3, <2>5, <2>9, <3>2
      <4>2. QED  BY <1>1, <1>3, <1>4, <3>2, <4>1
    <3>3. CASE /\ pc[c] \in Before /\ pc'[c] \in After /\ UNCHANGED <<lost, processed>>
               /\ \/ effects' = Append(effects, [entry |-> m, by |-> c]) /\ UNCHANGED dlq
                  \/ dlq' = Append(dlq, m) /\ UNCHANGED effects
      <4>1. xP = x + 1 /\ lP = l
        BY <2>4, <2>5, <3>1, <3>3
      <4>2. oP = o + 1 /\ tP = t - 1
        BY <1>1, <2>2, <2>7, <2>9, <3>3
      <4>3. QED  BY <1>1, <1>3, <1>4, <3>3, <4>1, <4>2
    <3>4. CASE /\ pc[c] \in Before /\ pc'[c] = "check" /\ UNCHANGED <<effects, processed>>
               /\ dlq' = Append(dlq, m) /\ lost' = [lost EXCEPT ![EventOf[m]] = @ + 1]
      <4>1. xP = x + 1 /\ lP = l + 1
        BY <2>4, <2>6, <3>1, <3>4
      <4>2. oP = o /\ tP = t - 1
        BY <1>1, <2>2, <2>7, <2>9, <3>4
      <4>3. QED  BY <1>1, <1>3, <1>4, <3>4, <4>1, <4>2
    <3>5. CASE /\ pc[c] \in After /\ pc'[c] \notin Before \cup After
               /\ UNCHANGED <<effects, dlq, lost>>
               /\ processed' = processed \cup {EventOf[m]}
      <4>1. xP = x /\ lP = l
        BY <2>3, <2>5, <3>5
      <4>2. oP = o - 1 /\ tP = t
        BY <1>1, <2>2, <2>7, <2>9, <3>5
      <4>3. QED  BY <1>1, <1>3, <1>4, <2>9, <3>5, <4>1, <4>2
    <3>6. CASE /\ pc[c] \in After /\ pc'[c] = "check"
               /\ UNCHANGED <<effects, dlq, processed>>
               /\ lost' = [lost EXCEPT ![EventOf[m]] = @ + 1]
      <4>1. xP = x /\ lP = l + 1
        BY <2>3, <2>6, <3>1, <3>6
      <4>2. oP = o - 1 /\ tP = t
        BY <1>1, <2>2, <2>7, <2>9, <3>6
      <4>3. QED  BY <1>1, <1>3, <1>4, <3>6, <4>1, <4>2
    <3>7. CASE /\ UNCHANGED <<pc, effects, processed>> /\ dlq' = Append(dlq, m)
               /\ lost' = [lost EXCEPT ![EventOf[m]] = @ + 1]
      <4>1. xP = x + 1 /\ lP = l + 1
        BY <2>4, <2>6, <3>1, <3>7
      <4>2. oP = o /\ tP = t
        BY <1>1, <2>2, <2>9, <3>7
      <4>3. QED  BY <1>1, <1>3, <1>4, <3>7, <4>1, <4>2
    <3>8. QED  BY <1>9, <3>2, <3>3, <3>4, <3>5, <3>6, <3>7, OutcomeMoves
  <2>10. QED  BY <2>8, <2>9
<1>10. QED  BY <1>5, <1>6, <1>8, <1>9, NextCases

(***************************************************************************)
(* The check-then-SET of the idempotency key: an event has at most one     *)
(* outcome per replica, and one more for each outcome that was given up    *)
(* before its key was set, or that the client wrote again.                 *)
(***************************************************************************)
THEOREM OutcomesAreExplained == Spec => []OutcomesExplained
<1>1. Init => OutcomesCounted
  <2> SUFFICES ASSUME Init, NEW e \in Events PROVE CountedOnce(e)
    BY DEF OutcomesCounted
  <2>1. effects = <<>> /\ dlq = <<>> /\ processed = {} /\ lost[e] = 0
    BY DEF Init
  <2>2. Times(e) = 0 /\ Burials(e) = 0
    BY <2>1, FS_EmptySet DEF Times, Burials
  <2>3. QED  BY <2>1, <2>2, WorkingFinite DEF CountedOnce, Outcomes
<1>2. IInv /\ OutcomesCounted /\ [Next]_vars => OutcomesCounted'
  BY CountedOnceStep DEF OutcomesCounted
<1>3. IInv /\ OutcomesCounted => OutcomesExplained
  <2> SUFFICES ASSUME TypeOK, NEW e \in Events, CountedOnce(e)
               PROVE  Outcomes(e) <= Cardinality(Consumers) + lost[e]
    BY DEF IInv, OutcomesCounted, OutcomesExplained, Outcomes
  <2>1. lost[e] \in Nat
    BY DEF TypeOK
  <2>2. Outcomes(e) \in Nat
    BY OutcomesNat DEF Outcomes
  <2>3. QED  BY <2>1, <2>2, WorkingFinite DEF CountedOnce
<1>4. QED  BY <1>1, <1>2, <1>3, Invariance, PTL DEF Spec
=============================================================================
