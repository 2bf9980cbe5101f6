---------------------------- MODULE OutboxProofs ----------------------------
(***************************************************************************)
(* For any number of events, replicas, faults and any batch limit, the     *)
(* outbox loses nothing, lets an event be overtaken only after one of its  *)
(* own publications failed or by a row with no later created_at, appends   *)
(* an event again only for another replica, a lost mark or an overwritten  *)
(* one, and implements the at-least-once channel.                          *)
(***************************************************************************)
EXTENDS Outbox, FiniteSetTheorems, TLAPS

\* The first invariant: every variable keeps its type.
LEMMA TypeInit == Init => TypeOK
BY FaultsBound, TimesNatural DEF Init, TypeOK, RowStates

LEMMA TypeStep == TypeOK /\ [Next]_vars => TypeOK'
<1> SUFFICES ASSUME TypeOK, [Next]_vars PROVE TypeOK'
  OBVIOUS
<1> USE DEF TypeOK, Updates, RowStates, history
<1>1. ASSUME NEW e \in Events, BeginTx(e) PROVE TypeOK'
  <2>1. Committed \subseteq Events
    BY DEF Committed
  <2>2. earlier' \in [Events -> SUBSET Events]
    BY <1>1, <2>1 DEF BeginTx
  <2>3. createdAt' \in [Events -> Nat]
    BY <1>1, TimesNatural DEF BeginTx
  <2>4. QED  BY <1>1, <2>2, <2>3 DEF BeginTx
<1>2. ASSUME NEW e \in Events, CommitTx(e) PROVE TypeOK'
  BY <1>2 DEF CommitTx
<1>3. ASSUME NEW e \in Events, RollbackTx(e) PROVE TypeOK'
  BY <1>3 DEF RollbackTx
<1>4. ASSUME NEW w \in Workers, Fetch(w) PROVE TypeOK'
  <2>1. PICK B \in SUBSET Unpublished : batch' = [batch EXCEPT ![w] = B]
    BY <1>4 DEF Fetch
  <2>2. B \subseteq Events
    BY DEF Unpublished
  <2>3. QED  BY <1>4, <2>1, <2>2 DEF Fetch
<1>5. ASSUME NEW w \in Workers, NEW e \in Events, Publish(w, e) PROVE TypeOK'
  <2>1. [event |-> e, status |-> "PUBLISHED"] \in Updates
    OBVIOUS
  <2>2. QED  BY <1>5, <2>1 DEF Publish, IsNext
<1>6. ASSUME NEW w \in Workers, NEW e \in Events, PublishError(w, e)
      PROVE  TypeOK'
  <2>1. [event |-> e, status |-> "FAILED"] \in Updates
    OBVIOUS
  <2>2. stream' \in Seq(Events) /\ unmarked' \in [Events -> Nat]
    <3>1. CASE UNCHANGED <<stream, unmarked>>
      BY <3>1
    <3>2. CASE /\ stream' = Append(stream, e)
               /\ unmarked' = [unmarked EXCEPT ![e] = @ + 1]
      <4>1. stream' \in Seq(Events)
        BY <3>2
      <4>2. unmarked' \in [Events -> Nat]
        BY <3>2
      <4>3. QED  BY <4>1, <4>2
    <3>3. QED  BY <1>6, <3>1, <3>2 DEF PublishError
  <2>3. faults' \in 0 .. MaxFaults
    BY <1>6, FaultsBound DEF PublishError
  <2>4. QED  BY <1>6, <2>1, <2>2, <2>3 DEF PublishError, IsNext
<1>7. ASSUME NEW w \in Workers, Mark(w) PROVE TypeOK'
  <2>1. update[w] \in Updates
    BY <1>7 DEF Mark
  <2>2. overwritten' \in [Events -> Nat]
    BY <1>7, <2>1 DEF Mark
  <2>3. QED  BY <1>7, <2>1, <2>2 DEF Mark
<1>8. ASSUME NEW w \in Workers, MarkError(w) \/ Crash(w) PROVE TypeOK'
  <2>1. Forget(w)
    BY <1>8 DEF MarkError, Crash
  <2>2. unmarked' \in [Events -> Nat]
    BY <2>1 DEF Forget
  <2>3. faults' \in 0 .. MaxFaults
    BY <1>8, FaultsBound DEF MarkError, Crash
  <2>4. QED  BY <1>8, <2>2, <2>3 DEF MarkError, Crash
<1>9. ASSUME NEW w \in Workers, NEW e \in Events, PublishRepeated(w, e)
      PROVE  TypeOK'
  <2>1. stream' \in Seq(Events)
    BY <1>9 DEF PublishRepeated
  <2>2. unmarked' \in [Events -> Nat]
    BY <1>9 DEF PublishRepeated
  <2>3. faults' \in 0 .. MaxFaults
    BY <1>9, FaultsBound DEF PublishRepeated
  <2>4. QED  BY <1>9, <2>1, <2>2, <2>3 DEF PublishRepeated
<1>10. CASE UNCHANGED vars
  BY <1>10 DEF vars
<1>11. QED
  BY <1>1, <1>2, <1>3, <1>4, <1>5, <1>6, <1>7, <1>8, <1>9, <1>10 DEF Next

(***************************************************************************)
(* Every variable keeps its type: the row statuses stay among those the    *)
(* queries name, whatever the replicas write over each other.              *)
(***************************************************************************)
THEOREM TypeCorrect == Spec => []TypeOK
BY TypeInit, TypeStep, PTL DEF Spec

-----------------------------------------------------------------------------
LEMMA InvInit == Init => IInv
<1> SUFFICES ASSUME Init PROVE IInv
  OBVIOUS
<1>1. TypeOK
  BY TypeInit
<1>2. UpdateEarned /\ NothingLost /\ OnlyCommitted
  BY DEF Init, UpdateEarned, NothingLost, OnlyCommitted
<1>3. EarlierCommitted /\ BatchOrdered /\ InOrder
  BY DEF Init, EarlierCommitted, BatchOrdered, InOrder
<1>4. QED  BY <1>1, <1>2, <1>3 DEF IInv

\* Committed rows stay committed and entries stay in the stream.
LEMMA Monotone ==
  ASSUME TypeOK, UpdateEarned, [Next]_vars
  PROVE  /\ Committed \subseteq Committed'
         /\ \A e \in Events : InStream(e) => InStream(e)'
         /\ refused \subseteq refused'
<1> USE DEF Committed, InStream, history
<1>1. ASSUME NEW e \in Events, BeginTx(e) \/ CommitTx(e) \/ RollbackTx(e)
      PROVE  /\ Committed \subseteq Committed'
             /\ \A d \in Events : InStream(d) => InStream(d)'
             /\ refused \subseteq refused'
  BY <1>1 DEF BeginTx, CommitTx, RollbackTx, TypeOK
<1>2. ASSUME NEW w \in Workers, Fetch(w) \/ MarkError(w) \/ Crash(w)
      PROVE  /\ Committed \subseteq Committed'
             /\ \A d \in Events : InStream(d) => InStream(d)'
             /\ refused \subseteq refused'
  BY <1>2 DEF Fetch, MarkError, Crash
<1>3. ASSUME NEW w \in Workers, NEW e \in Events,
             Publish(w, e) \/ PublishRepeated(w, e) \/ PublishError(w, e)
      PROVE  /\ Committed \subseteq Committed'
             /\ \A d \in Events : InStream(d) => InStream(d)'
             /\ refused \subseteq refused'
  <2>1. row' = row /\ refused \subseteq refused'
    BY <1>3 DEF Publish, PublishRepeated, PublishError
  <2>2. stream' = stream \/ stream' = Append(stream, e)
    BY <1>3 DEF Publish, PublishRepeated, PublishError
  <2>3. stream \in Seq(Events)
    BY DEF TypeOK
  <2>4. \A d \in Events : InStream(d) => InStream(d)'
    BY <2>2, <2>3
  <2>5. QED  BY <2>1, <2>4
<1>4. ASSUME NEW w \in Workers, Mark(w)
      PROVE  /\ Committed \subseteq Committed'
             /\ \A d \in Events : InStream(d) => InStream(d)'
             /\ refused \subseteq refused'
  <2>1. update[w] \in Updates
    BY <1>4 DEF Mark, TypeOK
  <2>2. stream' = stream /\ refused' = refused
    BY <1>4 DEF Mark
  <2>3. Committed \subseteq Committed'
    BY <1>4, <2>1 DEF Mark, TypeOK, Updates
  <2>4. QED  BY <2>2, <2>3
<1>5. CASE UNCHANGED vars
  BY <1>5 DEF vars
<1>6. QED
  BY <1>1, <1>2, <1>3, <1>4, <1>5 DEF Next

\* Appending an event already in the stream, or after all the earlier ones
\* that were not refused, keeps the order.
LEMMA AppendKeepsOrder ==
  ASSUME stream \in Seq(Events), NEW e \in Events, InOrder,
         \A d \in earlier[e] :
           d \in refused \/ createdAt[e] <= createdAt[d] \/ InStream(d),
         stream' = Append(stream, e), earlier' = earlier,
         createdAt' = createdAt, refused \subseteq refused'
  PROVE  InOrder'
<1> SUFFICES ASSUME NEW i \in DOMAIN stream', NEW d \in earlier[stream'[i]]
             PROVE  \/ d \in refused'
                    \/ createdAt[stream'[i]] <= createdAt[d]
                    \/ \E j \in 1 .. i - 1 : stream'[j] = d
  BY DEF InOrder
<1>1. /\ Len(stream') = Len(stream) + 1
      /\ \A j \in 1 .. Len(stream) : stream'[j] = stream[j]
      /\ stream'[Len(stream) + 1] = e
      /\ Len(stream) \in Nat
      /\ DOMAIN stream = 1 .. Len(stream)
      /\ DOMAIN stream' = 1 .. Len(stream) + 1
  OBVIOUS
<1>2. CASE i = Len(stream) + 1
  BY <1>1, <1>2 DEF InStream
<1>3. CASE i \in 1 .. Len(stream)
  <2>1. \/ d \in refused
        \/ createdAt[stream[i]] <= createdAt[d]
        \/ \E j \in 1 .. i - 1 : stream[j] = d
    BY <1>1, <1>3 DEF InOrder
  <2>2. QED  BY <1>1, <1>3, <2>1
<1>4. QED  BY <1>1, <1>2, <1>3

LEMMA InvStep == IInv /\ [Next]_vars => IInv'
<1> SUFFICES ASSUME IInv, [Next]_vars PROVE IInv'
  OBVIOUS
<1> USE DEF IInv
<1>1. TypeOK'
  BY TypeStep
<1>2. /\ Committed \subseteq Committed'
      /\ \A e \in Events : InStream(e) => InStream(e)'
      /\ refused \subseteq refused'
  BY Monotone
<1>3. ASSUME NEW x \in Events, BeginTx(x) PROVE IInv'
  <2>1. /\ x \notin Committed /\ Committed' = Committed
        /\ stream' = stream /\ batch' = batch /\ update' = update
        /\ refused' = refused
        /\ earlier' = [earlier EXCEPT ![x] = Committed]
        /\ \A d \in Committed : createdAt'[d] = createdAt[d]
    BY <1>3 DEF BeginTx, Committed, TypeOK
  <2>2. UpdateEarned' /\ OnlyCommitted'
    BY <1>1, <1>2, <2>1 DEF UpdateEarned, OnlyCommitted, TypeOK, InStream
  <2>3. NothingLost'
    BY <1>3, <2>1 DEF NothingLost, BeginTx, InStream, TypeOK
  <2>4. EarlierCommitted'
    BY <2>1 DEF EarlierCommitted, TypeOK
  <2>5. \A e \in Committed : /\ e \in Events /\ earlier'[e] = earlier[e]
                             /\ createdAt'[e] = createdAt[e]
                             /\ \A d \in earlier[e] : createdAt'[d] = createdAt[d]
    BY <2>1 DEF EarlierCommitted, Committed, TypeOK
  <2>6. BatchOrdered'
    BY <2>1, <2>5 DEF BatchOrdered, OnlyCommitted, InStream
  <2>7. InOrder'
    BY <2>1, <2>5 DEF InOrder, OnlyCommitted
  <2>8. QED  BY <1>1, <2>2, <2>3, <2>4, <2>6, <2>7
<1>4. ASSUME NEW x \in Events, CommitTx(x) \/ RollbackTx(x) PROVE IInv'
  <2>1. /\ stream' = stream /\ batch' = batch /\ update' = update
        /\ refused' = refused
        /\ earlier' = earlier /\ createdAt' = createdAt
    BY <1>4 DEF CommitTx, RollbackTx, history
  <2>2. UpdateEarned' /\ OnlyCommitted' /\ EarlierCommitted'
    BY <1>2, <2>1
       DEF UpdateEarned, OnlyCommitted, EarlierCommitted, TypeOK, InStream
  <2>3. NothingLost'
    BY <1>4, <2>1
       DEF NothingLost, CommitTx, RollbackTx, InStream, TypeOK
  <2>4. BatchOrdered' /\ InOrder'
    BY <2>1 DEF BatchOrdered, InOrder, InStream
  <2>5. QED  BY <1>1, <2>2, <2>3, <2>4
<1>5. ASSUME NEW w \in Workers, Fetch(w) PROVE IInv'
  <2>1. /\ row' = row /\ stream' = stream /\ update' = update
        /\ refused' = refused
        /\ earlier' = earlier /\ createdAt' = createdAt
        /\ Committed' = Committed
    BY <1>5 DEF Fetch, history, Committed
  <2> PICK B \in SUBSET Unpublished :
        Oldest(B) /\ batch' = [batch EXCEPT ![w] = B]
    BY <1>5 DEF Fetch
  <2>2. UpdateEarned' /\ NothingLost' /\ EarlierCommitted' /\ InOrder'
    BY <2>1
       DEF UpdateEarned, NothingLost, EarlierCommitted, InOrder, InStream
  <2>3. OnlyCommitted'
    BY <2>1 DEF OnlyCommitted, Unpublished, Committed, TypeOK
  <2>4. BatchOrdered'
    <3> SUFFICES ASSUME NEW v \in Workers, NEW e \in batch'[v],
                        NEW d \in earlier[e]
                 PROVE  \/ d \in batch'[v] \/ d \in refused \/ InStream(d)
                        \/ createdAt[e] <= createdAt[d]
      BY <2>1 DEF BatchOrdered, InStream
    <3>1. CASE v # w
      BY <2>1, <3>1 DEF BatchOrdered, TypeOK
    <3>2. CASE v = w
      <4>1. batch'[v] = B /\ e \in B /\ e \in Events
        BY <2>1, <3>2 DEF TypeOK, Unpublished
      <4>2. d \in Committed
        BY <4>1 DEF EarlierCommitted
      <4>3. CASE d \in Unpublished
        BY <4>1, <4>3 DEF Oldest
      <4>4. CASE d \notin Unpublished
        BY <4>2, <4>4 DEF NothingLost, Unpublished, Committed
      <4>5. QED  BY <4>3, <4>4
    <3>3. QED  BY <3>1, <3>2
  <2>5. QED  BY <1>1, <2>2, <2>3, <2>4
<1>6. ASSUME NEW w \in Workers, NEW x \in Events,
             Publish(w, x) \/ PublishError(w, x)
      PROVE  IInv'
  <2>1. /\ x \in batch[w] /\ \A d \in batch[w] : createdAt[x] <= createdAt[d]
        /\ row' = row /\ Committed' = Committed
        /\ earlier' = earlier /\ createdAt' = createdAt
        /\ batch' = [batch EXCEPT ![w] = @ \ {x}]
    BY <1>6 DEF Publish, PublishError, IsNext, history, Committed
  <2>2. x \in refused' \/ InStream(x)'
    <3>1. CASE PublishError(w, x)
      BY <3>1 DEF PublishError
    <3>2. CASE Publish(w, x)
      <4>1. /\ stream \in Seq(Events) /\ stream' = Append(stream, x)
        BY <3>2 DEF Publish, TypeOK
      <4>2. /\ Len(stream) + 1 \in DOMAIN stream'
            /\ stream'[Len(stream) + 1] = x
        BY <4>1
      <4>3. QED  BY <4>2 DEF InStream
    <3>3. QED  BY <1>6, <3>1, <3>2
  <2>3. stream' = stream \/ stream' = Append(stream, x)
    BY <1>6 DEF Publish, PublishError
  <2>4. UpdateEarned'
    <3> SUFFICES ASSUME NEW v \in Workers, update'[v] # NoUpdate
                 PROVE  /\ update'[v].event \in Committed
                        /\ update'[v].status = "PUBLISHED"
                             => InStream(update[v].event)'
      BY <2>1 DEF UpdateEarned
    <3>1. CASE v # w
      <4>1. update'[v] = update[v]
        BY <1>6, <3>1 DEF Publish, PublishError, TypeOK
      <4>2. update[v].event \in Events
        BY <3>1, <4>1 DEF TypeOK, Updates
      <4>3. QED  BY <1>2, <4>1, <4>2 DEF UpdateEarned, InStream
    <3>2. CASE v = w /\ Publish(w, x)
      <4>1. update'[v] = [event |-> x, status |-> "PUBLISHED"]
        BY <3>2 DEF Publish, TypeOK
      <4>2. stream' = Append(stream, x) /\ stream \in Seq(Events)
        BY <3>2 DEF Publish, TypeOK
      <4>3. InStream(x)'
        <5>1. /\ Len(stream) + 1 \in DOMAIN stream'
              /\ stream'[Len(stream) + 1] = x
          BY <4>2
        <5>2. QED  BY <5>1 DEF InStream
      <4>4. QED  BY <2>1, <4>1, <4>3 DEF OnlyCommitted, InStream
    <3>3. CASE v = w /\ PublishError(w, x)
      <4>1. update'[v] = [event |-> x, status |-> "FAILED"]
        BY <3>3 DEF PublishError, TypeOK
      <4>2. QED  BY <2>1, <4>1 DEF OnlyCommitted
    <3>4. QED  BY <1>6, <3>1, <3>2, <3>3
  <2>5. NothingLost'
    BY <1>2, <2>1 DEF NothingLost
  <2>6. OnlyCommitted'
    <3>1. \A v \in Workers : batch'[v] \subseteq batch[v]
      BY <2>1 DEF TypeOK
    <3>2. x \in Committed /\ stream \in Seq(Events)
      BY <2>1 DEF OnlyCommitted, TypeOK
    <3>3. \A i \in DOMAIN stream' : stream'[i] \in Committed
      BY <2>3, <3>2 DEF OnlyCommitted
    <3>4. QED  BY <2>1, <3>1, <3>3 DEF OnlyCommitted
  <2>7. EarlierCommitted'
    BY <2>1 DEF EarlierCommitted
  <2>8. \A d \in earlier[x] :
          d \in refused \/ createdAt[x] <= createdAt[d] \/ InStream(d)
    BY <2>1 DEF BatchOrdered
  <2>9. BatchOrdered'
    <3> SUFFICES ASSUME NEW v \in Workers, NEW e \in batch'[v],
                        NEW d \in earlier[e]
                 PROVE  \/ d \in batch'[v] \/ d \in refused' \/ InStream(d)'
                        \/ createdAt[e] <= createdAt[d]
      BY <2>1 DEF BatchOrdered
    <3>1. e \in batch[v] /\ (d \in batch[v] => d \in batch'[v] \/ d = x)
      BY <2>1 DEF TypeOK
    <3>2. \/ d \in batch[v] \/ d \in refused \/ InStream(d)
          \/ createdAt[e] <= createdAt[d]
      BY <3>1 DEF BatchOrdered
    <3>3. d \in Events
      BY <3>1 DEF TypeOK
    <3>4. QED  BY <1>2, <2>2, <3>1, <3>2, <3>3
  <2>10. InOrder'
    <3>1. CASE stream' = stream
      BY <1>2, <2>1, <3>1 DEF InOrder
    <3>2. CASE stream' = Append(stream, x)
      <4>1. stream \in Seq(Events)
        BY DEF TypeOK
      <4>2. QED  BY <1>2, <2>1, <2>8, <3>2, <4>1, AppendKeepsOrder
    <3>3. QED  BY <2>3, <3>1, <3>2
  <2>11. QED
    BY <1>1, <2>4, <2>5, <2>6, <2>7, <2>9, <2>10
<1>7. ASSUME NEW w \in Workers, Mark(w) PROVE IInv'
  <2>1. /\ update[w] # NoUpdate /\ update[w] \in Updates
        /\ row' = [row EXCEPT ![update[w].event] = update[w].status]
        /\ update' = [update EXCEPT ![w] = NoUpdate]
        /\ stream' = stream /\ batch' = batch
        /\ refused' = refused
        /\ earlier' = earlier /\ createdAt' = createdAt
    BY <1>7 DEF Mark, history, TypeOK
  <2>2. \A v \in Workers : update'[v] # NoUpdate => update'[v] = update[v]
    BY <2>1 DEF TypeOK
  <2>3. UpdateEarned'
    <3> SUFFICES ASSUME NEW v \in Workers, update'[v] # NoUpdate
                 PROVE  /\ update'[v].event \in Committed'
                        /\ update'[v].status = "PUBLISHED"
                             => InStream(update[v].event)'
      BY DEF UpdateEarned
    <3>1. update'[v] = update[v] /\ update[v] # NoUpdate
      BY <2>2
    <3>2. update[v].event \in Events
      BY <3>1 DEF TypeOK, Updates
    <3>3. QED  BY <1>2, <3>1, <3>2 DEF UpdateEarned, InStream
  <2>4. NothingLost'
    BY <1>2, <2>1 DEF NothingLost, UpdateEarned, TypeOK, Updates, InStream
  <2>5. OnlyCommitted' /\ EarlierCommitted'
    BY <1>2, <2>1 DEF OnlyCommitted, EarlierCommitted
  <2>6. BatchOrdered' /\ InOrder'
    BY <2>1 DEF BatchOrdered, InOrder, InStream
  <2>7. QED  BY <1>1, <2>3, <2>4, <2>5, <2>6
<1>8. ASSUME NEW w \in Workers, MarkError(w) \/ Crash(w) PROVE IInv'
  <2>1. /\ row' = row /\ stream' = stream /\ refused' = refused
        /\ earlier' = earlier /\ createdAt' = createdAt
        /\ update' = [update EXCEPT ![w] = NoUpdate]
        /\ batch' = batch \/ batch' = [batch EXCEPT ![w] = {}]
        /\ Committed' = Committed
    BY <1>8 DEF MarkError, Crash, Committed
  <2>2. /\ \A v \in Workers : update'[v] # NoUpdate => update'[v] = update[v]
        /\ \A v \in Workers : batch'[v] = batch[v] \/ batch'[v] = {}
    BY <2>1 DEF TypeOK
  <2>3. UpdateEarned'
    BY <2>1, <2>2 DEF UpdateEarned, InStream
  <2>4. NothingLost' /\ EarlierCommitted' /\ InOrder'
    BY <2>1 DEF NothingLost, EarlierCommitted, InOrder, InStream
  <2>5. OnlyCommitted' /\ BatchOrdered'
    BY <2>1, <2>2 DEF OnlyCommitted, BatchOrdered, InStream
  <2>6. QED  BY <1>1, <2>3, <2>4, <2>5
<1>9. ASSUME NEW w \in Workers, NEW x \in Events, PublishRepeated(w, x)
      PROVE  IInv'
  <2>1. /\ x \in batch[w] /\ row' = row /\ Committed' = Committed
        /\ earlier' = earlier /\ createdAt' = createdAt /\ refused' = refused
        /\ batch' = batch /\ update' = update /\ stream' = Append(stream, x)
        /\ stream \in Seq(Events)
    BY <1>9 DEF PublishRepeated, IsNext, Committed, TypeOK
  <2>2. UpdateEarned'
    <3>1. \A v \in Workers : update[v] # NoUpdate => update[v].event \in Events
      BY DEF TypeOK, Updates
    <3>2. QED  BY <1>2, <2>1, <3>1 DEF UpdateEarned, InStream
  <2>3. NothingLost' /\ EarlierCommitted'
    BY <1>2, <2>1 DEF NothingLost, EarlierCommitted
  <2>4. OnlyCommitted'
    <3>1. x \in Committed
      BY <2>1 DEF OnlyCommitted
    <3>2. QED  BY <2>1, <3>1 DEF OnlyCommitted
  <2>5. BatchOrdered'
    <3>1. \A e \in Events : earlier[e] \subseteq Events
      BY DEF TypeOK
    <3>2. \A v \in Workers : batch[v] \subseteq Events
      BY DEF TypeOK
    <3>3. QED  BY <1>2, <2>1, <3>1, <3>2 DEF BatchOrdered
  <2>6. InOrder'
    <3>1. \A d \in earlier[x] :
            d \in refused \/ createdAt[x] <= createdAt[d] \/ InStream(d)
      <4> SUFFICES ASSUME NEW d \in earlier[x]
                   PROVE  d \in refused \/ createdAt[x] <= createdAt[d] \/ InStream(d)
        OBVIOUS
      <4>1. d \in Events /\ (createdAt[d] < createdAt[x] => d \notin batch[w])
        BY <1>9 DEF PublishRepeated, IsNext, TypeOK
      <4>2. QED  BY <2>1, <4>1 DEF BatchOrdered, TypeOK
    <3>2. QED  BY <1>2, <2>1, <3>1, AppendKeepsOrder
  <2>7. QED  BY <1>1, <2>2, <2>3, <2>4, <2>5, <2>6
<1>10. CASE UNCHANGED vars
  BY <1>10, <1>1 DEF vars, UpdateEarned, NothingLost, OnlyCommitted,
     EarlierCommitted, BatchOrdered, InOrder, InStream, Committed
<1>11. QED
  BY <1>3, <1>4, <1>5, <1>6, <1>7, <1>8, <1>9, <1>10 DEF Next

LEMMA Invariance == Spec => []IInv
BY InvInit, InvStep, PTL DEF Spec

(***************************************************************************)
(* No committed event is lost between the table and the stream: a row is   *)
(* only marked PUBLISHED when its entry is in ride_events.                 *)
(***************************************************************************)
THEOREM PublishedIsInStream == Spec => []NothingLost
<1>1. IInv => NothingLost
  BY DEF IInv
<1>2. QED  BY <1>1, Invariance, PTL

(***************************************************************************)
(* Events of transactions that follow each other, a trip's in particular,  *)
(* reach the stream in that order unless an XADD of the earlier one        *)
(* returned an error or the clocks of their replicas disagree or tie.      *)
(***************************************************************************)
THEOREM OvertakingExplained == Spec => []InOrder
<1>1. IInv => InOrder
  BY DEF IInv
<1>2. QED  BY <1>1, Invariance, PTL

-----------------------------------------------------------------------------
LEMMA ChannelInit == Init => Channel!Init
BY DEF Init, Channel!Init, Committed

LEMMA ChannelStep == IInv /\ [Next]_vars => [Channel!Next]_(Channel!vars)
<1> SUFFICES ASSUME IInv, [Next]_vars PROVE [Channel!Next]_(Channel!vars)
  OBVIOUS
<1> USE DEF Channel!Next, Channel!vars, Channel!Commit, Channel!Deliver
<1>1. ASSUME NEW e \in Events, BeginTx(e) \/ RollbackTx(e)
      PROVE  UNCHANGED <<Committed, stream>>
  BY <1>1 DEF BeginTx, RollbackTx, Committed, IInv, TypeOK
<1>2. ASSUME NEW e \in Events, CommitTx(e) PROVE Channel!Commit(e)
  <2>1. e \notin Committed /\ Committed' = Committed \cup {e}
    BY <1>2 DEF CommitTx, Committed, IInv, TypeOK
  <2>2. QED  BY <1>2, <2>1 DEF CommitTx
<1>3. ASSUME NEW w \in Workers, Fetch(w) \/ MarkError(w) \/ Crash(w)
      PROVE  UNCHANGED <<Committed, stream>>
  BY <1>3 DEF Fetch, MarkError, Crash, Committed
<1>4. ASSUME NEW w \in Workers, Mark(w)
      PROVE  UNCHANGED <<Committed, stream>>
  <2>1. update[w] \in Updates /\ update[w].event \in Committed
    BY <1>4 DEF Mark, IInv, TypeOK, UpdateEarned
  <2>2. Committed' = Committed
    BY <1>4, <2>1 DEF Mark, Committed, Updates, IInv, TypeOK
  <2>3. QED  BY <1>4, <2>2 DEF Mark
<1>5. ASSUME NEW w \in Workers, NEW e \in Events,
             Publish(w, e) \/ PublishRepeated(w, e) \/ PublishError(w, e)
      PROVE  Channel!Deliver(e) \/ UNCHANGED <<Committed, stream>>
  <2>1. e \in Committed
    BY <1>5 DEF Publish, PublishRepeated, PublishError, IsNext, IInv, OnlyCommitted
  <2>2. Committed' = Committed
    BY <1>5 DEF Publish, PublishRepeated, PublishError, Committed
  <2>3. stream' = stream \/ stream' = Append(stream, e)
    BY <1>5 DEF Publish, PublishRepeated, PublishError
  <2>4. QED  BY <2>1, <2>2, <2>3
<1>6. CASE UNCHANGED vars
  BY <1>6 DEF vars, Committed
<1>7. QED
  BY <1>1, <1>2, <1>3, <1>4, <1>5, <1>6 DEF Next

(***************************************************************************)
(* The outbox implements the channel: an entry enters the stream only      *)
(* after its transaction committed, and none is changed or removed.        *)
(***************************************************************************)
THEOREM OutboxImplementsChannel == Spec => ImplementsChannel
BY ChannelInit, ChannelStep, Invariance, PTL
   DEF Spec, ImplementsChannel, Channel!Spec

-----------------------------------------------------------------------------
(***************************************************************************)
(* The duplicates.  While the row of an event waits, every copy of it in   *)
(* the stream has a replica that is about to mark it, no mark followed it, *)
(* or it is one of those a FAILED mark overwrote; once the row is          *)
(* PUBLISHED only the replicas whose batch still holds the event can add   *)
(* copies, and nobody fetches it any more.                                 *)
(***************************************************************************)
Copies(e) == {i \in DOMAIN stream : stream[i] = e}

\* The replicas about to mark e PUBLISHED, and those about to append it.
Marking(e) == {w \in Workers : update[w] = [event |-> e, status |-> "PUBLISHED"]}
Fetched(e) == {w \in Workers : e \in batch[w]}

\* A replica marks what it took out of its batch.
UpdateTaken ==
  \A w \in Workers : update[w] # NoUpdate => update[w].event \notin batch[w]

\* What each overwritten mark, and each one to come, allows: one per replica.
Rounds(n) == Cardinality(Workers) * n

Counted(e) ==
  /\ row[e] # "PUBLISHED" =>
       Cardinality(Copies(e))
         <= Cardinality(Marking(e)) + unmarked[e] + Rounds(overwritten[e])
  /\ row[e] = "PUBLISHED" =>
       Cardinality(Copies(e)) + Cardinality(Fetched(e))
         <= unmarked[e] + Rounds(1 + overwritten[e])

CopiesCounted == UpdateTaken /\ \A e \in Events : Counted(e)

LEMMA RoundsAdd ==
  ASSUME NEW n \in Nat
  PROVE  /\ Rounds(n) \in Nat
         /\ Rounds(1 + n) = Rounds(n) + Cardinality(Workers)
<1>1. Cardinality(Workers) \in Nat
  BY WorkersFinite, FS_CardinalityType
<1>2. \A a, b \in Nat : a * b \in Nat /\ a * (1 + b) = a * b + a
  OBVIOUS
<1>3. QED  BY <1>1, <1>2 DEF Rounds

LEMMA UpdateTakenStep ==
  ASSUME TypeOK, UpdateTaken, [Next]_vars
  PROVE  UpdateTaken'
<1> USE DEF UpdateTaken, history
<1>1. ASSUME NEW e \in Events, BeginTx(e) \/ CommitTx(e) \/ RollbackTx(e)
      PROVE  UpdateTaken'
  BY <1>1 DEF BeginTx, CommitTx, RollbackTx
<1>2. ASSUME NEW w \in Workers, Fetch(w) PROVE UpdateTaken'
  BY <1>2 DEF Fetch, Idle, TypeOK
<1>3. ASSUME NEW w \in Workers, NEW e \in Events, Publish(w, e) \/ PublishError(w, e)
      PROVE  UpdateTaken'
  <2>1. \A v \in Workers : v # w => update'[v] = update[v] /\ batch'[v] = batch[v]
    BY <1>3 DEF Publish, PublishError, TypeOK
  <2>2. batch'[w] = batch[w] \ {e} /\ update'[w].event = e
    BY <1>3 DEF Publish, PublishError, TypeOK
  <2>3. QED  BY <2>1, <2>2
<1>4. ASSUME NEW w \in Workers, Mark(w) \/ MarkError(w) \/ Crash(w)
      PROVE  UpdateTaken'
  BY <1>4 DEF Mark, MarkError, Crash, TypeOK
<1>5. ASSUME NEW w \in Workers, NEW e \in Events, PublishRepeated(w, e)
      PROVE  UpdateTaken'
  BY <1>5 DEF PublishRepeated
<1>6. CASE UNCHANGED vars
  BY <1>6 DEF vars
<1>7. QED  BY <1>1, <1>2, <1>3, <1>4, <1>5, <1>6 DEF Next

LEMMA CountsFinite ==
  ASSUME TypeOK, UpdateTaken, NEW e \in Events
  PROVE  /\ IsFiniteSet(Copies(e)) /\ Cardinality(Copies(e)) \in Nat
         /\ IsFiniteSet(Marking(e)) /\ Cardinality(Marking(e)) \in Nat
         /\ IsFiniteSet(Fetched(e)) /\ Cardinality(Fetched(e)) \in Nat
         /\ Cardinality(Workers) \in Nat /\ unmarked[e] \in Nat
         /\ overwritten[e] \in Nat
         /\ Cardinality(Marking(e)) + Cardinality(Fetched(e)) <= Cardinality(Workers)
<1>1. IsFiniteSet(Copies(e))
  <2>1. Len(stream) \in Nat /\ Copies(e) \subseteq 1 .. Len(stream)
    BY DEF TypeOK, Copies
  <2>2. IsFiniteSet(1 .. Len(stream))
    BY <2>1, FS_Interval
  <2>3. QED  BY <2>1, <2>2, FS_Subset
<1>2. Marking(e) \subseteq Workers /\ Fetched(e) \subseteq Workers
  BY DEF Marking, Fetched
<1>3. /\ IsFiniteSet(Marking(e)) /\ Cardinality(Marking(e)) \in Nat
      /\ IsFiniteSet(Fetched(e)) /\ Cardinality(Fetched(e)) \in Nat
      /\ Cardinality(Workers) \in Nat
  BY <1>2, WorkersFinite, FS_Subset, FS_CardinalityType
<1>4. Marking(e) \cap Fetched(e) = {}
  <2>1. [event |-> e, status |-> "PUBLISHED"] \in Updates
    BY DEF Updates
  <2>2. QED  BY <2>1, NoUpdateFresh DEF Marking, Fetched, UpdateTaken
<1>5. Cardinality(Marking(e) \cup Fetched(e)) <= Cardinality(Workers)
  BY <1>2, WorkersFinite, FS_Subset
<1>6. Cardinality(Marking(e) \cup Fetched(e))
        = Cardinality(Marking(e)) + Cardinality(Fetched(e))
  <2>1. Cardinality(Marking(e) \cup Fetched(e))
          = Cardinality(Marking(e)) + Cardinality(Fetched(e))
            - Cardinality(Marking(e) \cap Fetched(e))
    BY <1>3, FS_Union
  <2>2. Cardinality(Marking(e) \cap Fetched(e)) = 0
    BY <1>4, FS_EmptySet
  <2>3. QED  BY <1>3, <2>1, <2>2
<1>7. QED  BY <1>1, <1>3, <1>5, <1>6, FS_CardinalityType DEF TypeOK

LEMMA CopiesAppend ==
  ASSUME stream \in Seq(Events), NEW x \in Events, stream' = Append(stream, x),
         NEW e \in Events
  PROVE  /\ x # e => Copies(e)' = Copies(e)
         /\ x = e => /\ Copies(e)' = Copies(e) \cup {Len(stream) + 1}
                     /\ Len(stream) + 1 \notin Copies(e)
<1>1. /\ DOMAIN stream' = DOMAIN stream \cup {Len(stream) + 1}
      /\ Len(stream) + 1 \notin DOMAIN stream
      /\ stream'[Len(stream) + 1] = x
      /\ \A i \in DOMAIN stream : stream'[i] = stream[i]
  OBVIOUS
<1>2. QED  BY <1>1 DEF Copies

LEMMA CountedStep ==
  ASSUME TypeOK, CopiesCounted, [Next]_vars, NEW e \in Events
  PROVE  Counted(e)'
<1>1. /\ TypeOK' /\ UpdateTaken /\ UpdateTaken' /\ Counted(e)
      /\ row[e] \in RowStates /\ row'[e] \in RowStates
  BY TypeStep, UpdateTakenStep DEF TypeOK, CopiesCounted
<1> DEFINE s == Cardinality(Copies(e))     sP == Cardinality(Copies(e)')
           m == Cardinality(Marking(e))    mP == Cardinality(Marking(e)')
           f == Cardinality(Fetched(e))    fP == Cardinality(Fetched(e)')
           n == Cardinality(Workers)
           o == Rounds(overwritten[e])     oP == Rounds(overwritten'[e])
<1>2. /\ s \in Nat /\ m \in Nat /\ f \in Nat /\ n \in Nat /\ unmarked[e] \in Nat
      /\ m + f <= n /\ o \in Nat
      /\ IsFiniteSet(Copies(e)) /\ IsFiniteSet(Marking(e)) /\ IsFiniteSet(Fetched(e))
  BY CountsFinite, RoundsAdd, <1>1 DEF CopiesCounted
<1>3. /\ IsFiniteSet(Copies(e)') /\ IsFiniteSet(Marking(e)') /\ IsFiniteSet(Fetched(e)')
      /\ sP \in Nat /\ mP \in Nat /\ fP \in Nat /\ unmarked'[e] \in Nat
      /\ overwritten'[e] \in Nat
  <2>1. /\ stream' \in Seq(Events) /\ unmarked' \in [Events -> Nat]
        /\ overwritten' \in [Events -> Nat]
    BY <1>1 DEF TypeOK
  <2>2. Len(stream') \in Nat /\ DOMAIN stream' = 1 .. Len(stream')
    BY <2>1
  <2>3. Copies(e)' \subseteq 1 .. Len(stream')
    BY <2>2 DEF Copies
  <2>4. IsFiniteSet(1 .. Len(stream'))
    BY <2>2, FS_Interval
  <2>5. IsFiniteSet(Copies(e)')
    BY <2>3, <2>4, FS_Subset
  <2>6. Marking(e)' \subseteq Workers /\ Fetched(e)' \subseteq Workers
    BY DEF Marking, Fetched
  <2>7. IsFiniteSet(Marking(e)') /\ IsFiniteSet(Fetched(e)')
    BY <2>6, WorkersFinite, FS_Subset
  <2>8. QED  BY <2>1, <2>5, <2>7, FS_CardinalityType
<1>4. /\ oP \in Nat
      /\ Counted(e)' = (/\ row'[e] # "PUBLISHED" => sP <= mP + unmarked'[e] + oP
                        /\ row'[e] = "PUBLISHED" => sP + fP <= unmarked'[e] + (oP + n))
  <2>1. oP \in Nat /\ Rounds(1 + overwritten'[e]) = oP + n
    BY <1>3, RoundsAdd
  <2>2. QED  BY <2>1 DEF Counted, Rounds
<1>5. /\ row[e] # "PUBLISHED" => s <= m + unmarked[e] + o
      /\ row[e] = "PUBLISHED" => s + f <= unmarked[e] + (o + n)
  <2>1. overwritten[e] \in Nat
    BY DEF TypeOK
  <2>2. QED  BY <1>1, <2>1, RoundsAdd DEF Counted
<1>6. ASSUME UNCHANGED <<stream, batch, update, unmarked, overwritten>>,
             row'[e] = "PUBLISHED" <=> row[e] = "PUBLISHED"
      PROVE  Counted(e)'
  <2>1. Copies(e)' = Copies(e) /\ Marking(e)' = Marking(e) /\ Fetched(e)' = Fetched(e)
    BY <1>6 DEF Copies, Marking, Fetched
  <2>2. QED  BY <1>4, <1>5, <1>6, <2>1
<1>7. ASSUME NEW x \in Events, BeginTx(x) \/ CommitTx(x) \/ RollbackTx(x)
      PROVE  Counted(e)'
  BY <1>6, <1>7 DEF BeginTx, CommitTx, RollbackTx, history, TypeOK
<1>8. ASSUME NEW w \in Workers, Fetch(w) PROVE Counted(e)'
  <2>1. /\ UNCHANGED <<row, stream, update, unmarked, overwritten>> /\ batch[w] = {}
        /\ \E B \in SUBSET Unpublished : batch' = [batch EXCEPT ![w] = B]
    BY <1>8 DEF Fetch, Idle, history
  <2>2. Copies(e)' = Copies(e) /\ Marking(e)' = Marking(e)
    BY <2>1 DEF Copies, Marking
  <2>3. row[e] = "PUBLISHED" => Fetched(e)' = Fetched(e)
    BY <2>1 DEF Fetched, Unpublished, TypeOK
  <2>4. QED  BY <1>4, <1>5, <2>1, <2>2, <2>3
<1>9. ASSUME NEW w \in Workers, NEW x \in Events, Publish(w, x) PROVE Counted(e)'
  <2>1. /\ UNCHANGED <<row, unmarked, overwritten>> /\ stream' = Append(stream, x)
        /\ x \in batch[w] /\ update[w] = NoUpdate
        /\ batch' = [batch EXCEPT ![w] = @ \ {x}]
        /\ update' = [update EXCEPT ![w] = [event |-> x, status |-> "PUBLISHED"]]
    BY <1>9 DEF Publish, IsNext, history
  <2>2. NoUpdate # [event |-> e, status |-> "PUBLISHED"]
    BY NoUpdateFresh DEF Updates
  <2>3. stream \in Seq(Events)
    BY DEF TypeOK
  <2>4. CASE x # e
    <3>1. Copies(e)' = Copies(e)
      BY <2>1, <2>3, <2>4, CopiesAppend
    <3>2. Marking(e)' = Marking(e) /\ Fetched(e)' = Fetched(e)
      BY <2>1, <2>2, <2>4 DEF Marking, Fetched, TypeOK
    <3>3. QED  BY <1>4, <1>5, <2>1, <3>1, <3>2
  <2>5. CASE x = e
    <3>1. sP = s + 1
      BY <1>2, <2>1, <2>3, <2>5, CopiesAppend, FS_AddElement
    <3>2. mP = m + 1
      <4>1. Marking(e)' = Marking(e) \cup {w} /\ w \notin Marking(e)
        BY <2>1, <2>2, <2>5 DEF Marking, TypeOK
      <4>2. QED  BY <1>2, <4>1, FS_AddElement
    <3>3. fP = f - 1
      <4>1. Fetched(e)' = Fetched(e) \ {w} /\ w \in Fetched(e)
        BY <2>1, <2>5 DEF Fetched, TypeOK
      <4>2. QED  BY <1>2, <4>1, FS_RemoveElement
    <3>4. oP = o /\ row'[e] = row[e] /\ unmarked'[e] = unmarked[e]
      BY <2>1
    <3>5. QED  BY <1>2, <1>4, <1>5, <3>1, <3>2, <3>3, <3>4
  <2>6. QED  BY <2>4, <2>5
<1>10. ASSUME NEW w \in Workers, NEW x \in Events,
              PublishError(w, x) \/ PublishRepeated(w, x)
       PROVE  Counted(e)'
  <2>1. /\ UNCHANGED <<row, overwritten>> /\ update[w] = NoUpdate
        /\ \/ stream' = stream /\ unmarked' = unmarked
           \/ /\ stream' = Append(stream, x)
              /\ unmarked' = [unmarked EXCEPT ![x] = @ + 1]
        /\ batch' = batch \/ batch' = [batch EXCEPT ![w] = @ \ {x}]
        /\ \/ update' = update
           \/ update' = [update EXCEPT ![w] = [event |-> x, status |-> "FAILED"]]
    BY <1>10 DEF PublishError, PublishRepeated, IsNext
  <2>2. NoUpdate # [event |-> e, status |-> "PUBLISHED"]
    BY NoUpdateFresh DEF Updates
  <2>3. sP - unmarked'[e] = s - unmarked[e]
    <3>1. CASE stream' = stream /\ unmarked' = unmarked
      BY <3>1 DEF Copies
    <3>2. CASE /\ stream' = Append(stream, x) /\ x # e
               /\ unmarked' = [unmarked EXCEPT ![x] = @ + 1]
      BY <3>2, CopiesAppend DEF TypeOK
    <3>3. CASE /\ stream' = Append(stream, x) /\ x = e
               /\ unmarked' = [unmarked EXCEPT ![x] = @ + 1]
      <4>1. sP = s + 1
        BY <1>2, <3>3, CopiesAppend, FS_AddElement DEF TypeOK
      <4>2. unmarked'[e] = unmarked[e] + 1
        BY <3>3 DEF TypeOK
      <4>3. QED  BY <1>2, <4>1, <4>2
    <3>4. QED  BY <2>1, <3>1, <3>2, <3>3
  <2>4. Marking(e)' = Marking(e)
    BY <2>1, <2>2 DEF Marking, TypeOK
  <2>5. fP <= f
    <3>1. \A v \in Workers : batch'[v] \subseteq batch[v]
      <4>1. batch \in [Workers -> SUBSET Events]
        BY DEF TypeOK
      <4>2. CASE batch' = batch
        BY <4>2
      <4>3. CASE batch' = [batch EXCEPT ![w] = @ \ {x}]
        BY <4>1, <4>3
      <4>4. QED  BY <2>1, <4>2, <4>3
    <3>2. Fetched(e)' \subseteq Fetched(e)
      BY <3>1 DEF Fetched
    <3>3. QED  BY <1>2, <3>2, FS_Subset
  <2>6. oP = o /\ row'[e] = row[e] /\ mP = m
    BY <2>1, <2>4
  <2>7. QED  BY <1>2, <1>3, <1>4, <1>5, <2>3, <2>5, <2>6
<1>11. ASSUME NEW w \in Workers, Mark(w) PROVE Counted(e)'
  <2>1. /\ update[w] # NoUpdate /\ update[w] \in Updates
        /\ UNCHANGED <<stream, batch, unmarked>>
        /\ row' = [row EXCEPT ![update[w].event] = update[w].status]
        /\ update' = [update EXCEPT ![w] = NoUpdate]
    BY <1>11 DEF Mark, TypeOK
  <2>2. Copies(e)' = Copies(e) /\ Fetched(e)' = Fetched(e)
    BY <2>1 DEF Copies, Fetched
  <2>3. NoUpdate # [event |-> e, status |-> "PUBLISHED"]
    BY NoUpdateFresh DEF Updates
  <2>4. CASE update[w].event # e
    <3>1. row'[e] = row[e] /\ overwritten'[e] = overwritten[e]
      BY <1>11, <2>1, <2>4 DEF Mark, TypeOK, Updates
    <3>2. update[w] # [event |-> e, status |-> "PUBLISHED"]
      BY <2>4
    <3>3. Marking(e)' = Marking(e)
      BY <2>1, <2>3, <3>2 DEF Marking, TypeOK
    <3>4. QED  BY <1>4, <1>5, <2>1, <2>2, <3>1, <3>3
  <2>5. CASE update[w].event = e /\ update[w].status = "PUBLISHED"
    <3>1. row'[e] = "PUBLISHED" /\ overwritten'[e] = overwritten[e]
      BY <1>11, <2>1, <2>5 DEF Mark, TypeOK
    <3>2. QED  BY <1>2, <1>4, <1>5, <2>1, <2>2, <3>1
  <2>6. CASE update[w].event = e /\ update[w].status = "FAILED"
    <3>1. row'[e] = "FAILED"
      BY <2>1, <2>6 DEF TypeOK
    <3>2. update[w] # [event |-> e, status |-> "PUBLISHED"]
      BY <2>6
    <3>3. Marking(e)' = Marking(e)
      BY <2>1, <2>3, <3>2 DEF Marking, TypeOK
    <3>4. CASE row[e] # "PUBLISHED"
      <4>1. overwritten'[e] = overwritten[e]
        BY <1>11, <2>6, <3>4 DEF Mark
      <4>2. QED  BY <1>2, <1>4, <1>5, <2>1, <2>2, <3>1, <3>3, <3>4, <4>1
    <3>5. CASE row[e] = "PUBLISHED"
      <4>1. overwritten'[e] = 1 + overwritten[e] /\ overwritten[e] \in Nat
        BY <1>11, <2>6, <3>5 DEF Mark, TypeOK
      <4>2. oP = o + n
        BY <4>1, RoundsAdd
      <4>3. QED  BY <1>2, <1>4, <1>5, <2>1, <2>2, <3>1, <3>3, <3>5, <4>2
    <3>6. QED  BY <3>4, <3>5
  <2>7. QED  BY <2>1, <2>4, <2>5, <2>6 DEF Updates
<1>12. ASSUME NEW w \in Workers, MarkError(w) \/ Crash(w) PROVE Counted(e)'
  <2>1. /\ UNCHANGED <<row, stream, overwritten>> /\ Forget(w)
        /\ batch' = batch \/ batch' = [batch EXCEPT ![w] = {}]
        /\ update' = [update EXCEPT ![w] = NoUpdate]
    BY <1>12 DEF MarkError, Crash
  <2>2. Copies(e)' = Copies(e) /\ Fetched(e)' \subseteq Fetched(e)
    BY <2>1 DEF Copies, Fetched, TypeOK
  <2>3. sP = s /\ fP <= f
    BY <1>2, <2>2, FS_Subset
  <2>4. NoUpdate # [event |-> e, status |-> "PUBLISHED"]
    BY NoUpdateFresh DEF Updates
  <2>5. CASE update[w] = [event |-> e, status |-> "PUBLISHED"]
    <3>1. unmarked'[e] = unmarked[e] + 1
      BY <2>1, <2>4, <2>5 DEF Forget, TypeOK
    <3>2. mP = m - 1
      <4>1. Marking(e)' = Marking(e) \ {w} /\ w \in Marking(e)
        BY <2>1, <2>4, <2>5 DEF Marking, TypeOK
      <4>2. QED  BY <1>2, <4>1, FS_RemoveElement
    <3>3. QED  BY <1>2, <1>3, <1>4, <1>5, <2>1, <2>3, <3>1, <3>2
  <2>6. CASE update[w] # [event |-> e, status |-> "PUBLISHED"]
    <3>1. unmarked'[e] = unmarked[e]
      <4>1. update[w] # NoUpdate /\ update[w].status = "PUBLISHED" => update[w].event # e
        BY <2>6 DEF TypeOK, Updates
      <4>2. update[w] # NoUpdate => update[w].event \in Events
        BY DEF TypeOK, Updates
      <4>3. QED  BY <2>1, <4>1, <4>2 DEF Forget, TypeOK
    <3>2. Marking(e)' = Marking(e)
      BY <2>1, <2>4, <2>6 DEF Marking, TypeOK
    <3>3. QED  BY <1>2, <1>3, <1>4, <1>5, <2>1, <2>3, <3>1, <3>2
  <2>7. QED  BY <2>5, <2>6
<1>13. CASE UNCHANGED vars
  BY <1>6, <1>13 DEF vars
<1>14. QED
  BY <1>7, <1>8, <1>9, <1>10, <1>11, <1>12, <1>13 DEF Next

LEMMA CopiesStep == TypeOK /\ CopiesCounted /\ [Next]_vars => CopiesCounted'
<1> SUFFICES ASSUME TypeOK, CopiesCounted, [Next]_vars PROVE CopiesCounted'
  OBVIOUS
<1>1. UpdateTaken'
  BY UpdateTakenStep DEF CopiesCounted
<1>2. ASSUME NEW e \in Events PROVE Counted(e)'
  BY <1>2, CountedStep
<1>3. QED  BY <1>1, <1>2 DEF CopiesCounted

(***************************************************************************)
(* Without a row lock in GetUnpublishedEvents, an event is appended at     *)
(* most once per replica, again so for each FAILED that overwrote its      *)
(* PUBLISHED, and once more for each entry that no PUBLISHED followed.     *)
(***************************************************************************)
THEOREM DuplicatesAreExplained == Spec => []DuplicatesExplained
<1>1. Init => CopiesCounted
  <2> SUFFICES ASSUME Init PROVE CopiesCounted
    OBVIOUS
  <2>1. \A e \in Events : /\ Copies(e) = {} /\ unmarked[e] = 0
                           /\ overwritten[e] = 0 /\ row[e] = "none"
    BY DEF Init, Copies
  <2>2. \A e \in Events : Marking(e) \subseteq Workers
    BY DEF Marking
  <2>3. \A e \in Events : Cardinality(Copies(e)) = 0 /\ Cardinality(Marking(e)) \in Nat
    BY <2>1, <2>2, WorkersFinite, FS_EmptySet, FS_Subset, FS_CardinalityType
  <2>4. Rounds(0) \in Nat
    BY RoundsAdd
  <2>5. QED  BY <2>1, <2>3, <2>4 DEF CopiesCounted, Counted, UpdateTaken, Init
<1>2. TypeOK /\ CopiesCounted => DuplicatesExplained
  <2> SUFFICES ASSUME TypeOK, CopiesCounted, NEW e \in Events
               PROVE  Cardinality(Copies(e)) <= Rounds(1 + overwritten[e]) + unmarked[e]
    BY DEF DuplicatesExplained, Copies, Rounds
  <2>1. overwritten[e] \in Nat
    BY DEF TypeOK
  <2>2. Rounds(overwritten[e]) \in Nat /\ Rounds(1 + overwritten[e])
          = Rounds(overwritten[e]) + Cardinality(Workers)
    BY <2>1, RoundsAdd
  <2>3. QED  BY <2>2, CountsFinite DEF CopiesCounted, Counted
<1>3. QED  BY <1>1, <1>2, CopiesStep, TypeCorrect, PTL DEF Spec
=============================================================================
