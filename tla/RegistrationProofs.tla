-------------------------- MODULE RegistrationProofs --------------------------
(***************************************************************************)
(* Registration for any number of requests, addresses and faults: one      *)
(* account and one event per address, a 409 that means what it says, and a *)
(* 201 that can log in.  The invariant behind them ranges over the open    *)
(* transactions too: an account that nobody can see yet keeps its address  *)
(* from the others, which is what the wait of an INSERT is for.            *)
(***************************************************************************)
EXTENDS Registration, TLAPS

\* No two accounts, committed or not, have one address.
Distinct ==
  \A u, v \in inserted \cup users : AddressOf[u] = AddressOf[v] => u = v

\* A transaction between its INSERT and its end has inserted its account.
HoldsRow == \A r \in Requests : pc[r] \in InTx => r \in inserted

\* Who is or will be answered 201 has an account.
Stored ==
  \A r \in Requests : pc[r] = "answer" \/ reply[r] = "created" => r \in users

\* The inductive invariant.
Inv == TypeOK /\ Distinct /\ HoldsRow /\ Stored /\ events = users /\ ConflictMeansTaken

-----------------------------------------------------------------------------
\* The initial state: no request has begun.
LEMMA InitInv == Init => Inv
BY FaultsBound DEF Init, Inv, TypeOK, Distinct, HoldsRow, Stored, ConflictMeansTaken,
                   Replies, InTx, InFlight

\* The disjuncts of Next.
LEMMA NextCases ==
  ASSUME NEW r \in Requests,
         \/ Begin(r) \/ RefuseFormat(r) \/ Step(r)
         \/ CallFails(r) \/ CommitReplyLost(r) \/ Abandon(r)
  PROVE  \/ Begin(r) \/ LookupFree(r) \/ LookupTaken(r) \/ CreateUser(r)
         \/ RefuseFormat(r) \/ RefuseHash(r) \/ RefuseColumn(r) \/ ViolatesUnique(r) \/ CreateEvent(r) \/ Commit(r) \/ Answer(r)
         \/ CallFails(r) \/ CommitReplyLost(r) \/ Abandon(r)
BY DEF Step

\* A step that moves one request and neither inserts nor answers.
LEMMA MoveInv ==
  ASSUME Inv, NEW r \in Requests,
         NEW step \in {"idle", "done"} \cup InFlight, Goto(r, step),
         step \in InTx => r \in inserted, step # "answer",
         UNCHANGED <<inserted, users, events, reply, failed, faults>>
  PROVE  Inv'
<1>1. TypeOK'
  BY DEF Inv, TypeOK, Goto
<1>2. HoldsRow'
  BY DEF Inv, TypeOK, HoldsRow, Goto
<1>3. Stored'
  BY DEF Inv, TypeOK, Stored, Goto
<1>4. Distinct' /\ ConflictMeansTaken'
  BY DEF Inv, Distinct, ConflictMeansTaken, Taken, Found
<1>5. QED  BY <1>1, <1>2, <1>3, <1>4 DEF Inv

\* A refusal: nothing is left of an open transaction.
LEMMA RefuseInv ==
  ASSUME Inv, NEW r \in Requests, Refuse(r),
         failed' \subseteq Requests, failed \subseteq failed',
         faults' \in 0 .. MaxFaults,
         Taken(AddressOf[r]) \/ r \in failed' \/ RefusedBy[r] # "nothing"
  PROVE  Inv'
<1>1. TypeOK'
  BY DEF Inv, TypeOK, Refuse, Goto, Replies
<1>2. HoldsRow'
  BY DEF Inv, TypeOK, HoldsRow, Refuse, Goto, InTx
<1>3. Stored'
  BY DEF Inv, TypeOK, Stored, Refuse, Goto
<1>4. Distinct'
  BY DEF Inv, Distinct, Refuse
<1>5. ConflictMeansTaken'
  BY DEF Inv, TypeOK, ConflictMeansTaken, Refuse, Taken, Found
<1>6. QED  BY <1>1, <1>2, <1>3, <1>4, <1>5 DEF Inv, Refuse

\* A COMMIT that takes effect, answered or not: the account was inserted
\* before, and its address is that of no other.
LEMMA StoreInv ==
  ASSUME Inv, NEW r \in Requests, pc[r] = "commit", Store(r),
         NEW step \in {"answer", "done"}, Goto(r, step),
         reply' = reply \/ reply' = [reply EXCEPT ![r] = "conflict"],
         failed' \subseteq Requests, failed \subseteq failed',
         faults' \in 0 .. MaxFaults
  PROVE  Inv'
<1>1. r \in inserted
  BY DEF Inv, HoldsRow, InTx
<1>2. TypeOK'
  BY DEF Inv, TypeOK, Store, Goto, Replies, InFlight
<1>3. HoldsRow'
  BY DEF Inv, TypeOK, HoldsRow, Store, Goto, InTx
<1>4. Stored'
  BY DEF Inv, TypeOK, Stored, Store, Goto
<1>5. Distinct'
  BY <1>1 DEF Inv, Distinct, Store
<1>6. ConflictMeansTaken'
  <2>1. Taken(AddressOf[r])'
    BY DEF Store, Taken, Found
  <2>2. \A a : Taken(a) => Taken(a)'
    BY DEF Store, Taken, Found
  <2>3. QED  BY <2>1, <2>2 DEF Inv, TypeOK, ConflictMeansTaken
<1>7. QED  BY <1>2, <1>3, <1>4, <1>5, <1>6 DEF Inv, Store

\* An INSERT finds no row of its address, committed or not.
LEMMA InsertInv ==
  ASSUME Inv, NEW r \in Requests, CreateUser(r)
  PROVE  Inv'
<1>1. TypeOK'
  BY DEF Inv, TypeOK, CreateUser, Goto, InFlight, InTx
<1>2. HoldsRow'
  BY DEF Inv, TypeOK, HoldsRow, CreateUser, Goto
<1>3. Stored'
  BY DEF Inv, TypeOK, Stored, CreateUser, Goto
<1>4. Distinct'
  <2>1. \A u \in inserted \cup users : AddressOf[u] = AddressOf[r] => u = r
    BY DEF CreateUser, Waits, Taken, Found
  <2>2. QED  BY <2>1 DEF Inv, Distinct, CreateUser
<1>5. ConflictMeansTaken'
  BY DEF Inv, ConflictMeansTaken, CreateUser, Taken, Found
<1>6. QED  BY <1>1, <1>2, <1>3, <1>4, <1>5 DEF Inv, CreateUser

\* The answer of a stored account, and a request that nobody waits for.
LEMMA EndInv ==
  ASSUME Inv, NEW r \in Requests, Answer(r) \/ Abandon(r)
  PROVE  Inv'
<1>1. TypeOK'
  BY FaultsBound DEF Inv, TypeOK, Answer, Abandon, Fault, Goto, Replies
<1>2. HoldsRow'
  BY DEF Inv, TypeOK, HoldsRow, Answer, Abandon, Goto, InTx
<1>3. Stored'
  BY DEF Inv, TypeOK, Stored, Answer, Abandon, Goto
<1>4. Distinct'
  BY DEF Inv, Distinct, Answer, Abandon
<1>5. ConflictMeansTaken'
  BY DEF Inv, TypeOK, ConflictMeansTaken, Answer, Abandon, Taken, Found
<1>6. QED  BY <1>1, <1>2, <1>3, <1>4, <1>5 DEF Inv, Answer, Abandon

-----------------------------------------------------------------------------
\* Every step keeps the invariant.
LEMMA StepInv == Inv /\ [Next]_vars => Inv'
<1> SUFFICES ASSUME Inv, [Next]_vars PROVE Inv'
  OBVIOUS
<1>1. CASE UNCHANGED vars
  BY <1>1 DEF vars, Inv, TypeOK, Distinct, HoldsRow, Stored, ConflictMeansTaken, Taken, Found
<1>2. CASE Next
  <2>1. PICK r \in Requests : \/ Begin(r) \/ RefuseFormat(r) \/ Step(r)
                              \/ CallFails(r) \/ CommitReplyLost(r) \/ Abandon(r)
    BY <1>2 DEF Next
  <2>2. faults < MaxFaults /\ faults' = faults + 1 => faults' \in 0 .. MaxFaults
    BY FaultsBound DEF Inv, TypeOK
  <2>3. CASE Begin(r) \/ LookupFree(r)
    BY <2>3, MoveInv DEF Begin, LookupFree, InFlight, InTx
  <2>4. CASE CreateEvent(r)
    BY <2>4, MoveInv DEF CreateEvent, InFlight, InTx, Inv, HoldsRow
  <2>5. CASE \/ LookupTaken(r) \/ ViolatesUnique(r)
             \/ RefuseFormat(r) \/ RefuseHash(r) \/ RefuseColumn(r)
    BY <2>5, RefuseInv DEF LookupTaken, ViolatesUnique, RefuseFormat, RefuseHash,
                           RefuseColumn, Inv, TypeOK
  <2>6. CASE CallFails(r)
    BY <2>2, <2>6, RefuseInv DEF CallFails, Fault, InTx, Inv, TypeOK
  <2>7. CASE CreateUser(r)
    BY <2>7, InsertInv
  <2>8. CASE Commit(r)
    BY <2>8, StoreInv DEF Commit, Inv, TypeOK
  <2>9. CASE CommitReplyLost(r)
    BY <2>2, <2>9, StoreInv DEF CommitReplyLost, Fault, Inv, TypeOK
  <2>10. CASE Answer(r) \/ Abandon(r)
    BY <2>10, EndInv
  <2>11. QED  BY <2>1, <2>3, <2>4, <2>5, <2>6, <2>7, <2>8, <2>9, <2>10, NextCases
<1>3. QED  BY <1>1, <1>2

\* The inductive invariant is one of the specification.
LEMMA Invariant == Spec => []Inv
BY InitInv, StepInv, PTL DEF Spec

\* Every variable keeps its type.
THEOREM TypeCorrect == Spec => []TypeOK
<1>1. Inv => TypeOK
  BY DEF Inv
<1>2. QED  BY <1>1, Invariant, PTL

\* However many registrations race for an address, on any number of replicas,
\* one of them creates an account, with its User.Created (CreateWithOutbox).
THEOREM OneRegistrationWins == Spec => []OneAccountOneEvent
<1>1. Inv => OneAccountOneEvent
  BY DEF Inv, Distinct, OneAccountOneEvent
<1>2. QED  BY <1>1, Invariant, PTL

\* Who is told 409 with data that nothing refuses, and without a failed call
\* of his own, is told so because the address is taken (AuthHandler.Register).
THEOREM ConflictIsReal == Spec => []ConflictMeansTaken
<1>1. Inv => ConflictMeansTaken
  BY DEF Inv
<1>2. QED  BY <1>1, Invariant, PTL

\* Who is told 201 logs in with the password he gave (AuthService.Login).
THEOREM RegisteredLogsIn == Spec => []CreatedCanLogIn
<1>1. Inv => CreatedCanLogIn
  BY DEF Inv, Distinct, Stored, CreatedCanLogIn, LogsIn, Taken, Found
<1>2. QED  BY <1>1, Invariant, PTL
=============================================================================
