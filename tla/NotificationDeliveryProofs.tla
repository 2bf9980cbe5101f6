---------------------- MODULE NotificationDeliveryProofs ----------------------
(***************************************************************************)
(* For any number of entries, connections, users and faults, and any       *)
(* capacity of the channels: a client in the hub misses no broadcast, an   *)
(* event for everybody is passed over only after a fault, a malformed      *)
(* entry is quarantined only after faults, only a targeted message         *)
(* overtakes, and a second push needs an insert that failed.               *)
(***************************************************************************)
EXTENDS NotificationWorkerProofs, FiniteSetTheorems

-----------------------------------------------------------------------------
(* The inductive invariants. *)

\* The entry in process, if e is it.
Current(e) == task # NoTask /\ task.entry = e

\* An entry read by the group is in the batch, in process, acknowledged, or
\* pending because of a fault, and the entry in process is the oldest.
Batch ==
  /\ acked \subseteq 1 .. lastRead /\ queue \subseteq 1 .. lastRead
  /\ queue \cap acked = {}
  /\ task # NoTask =>
       /\ task.entry \in 1 .. lastRead
       /\ task.entry \notin queue \cup acked
       /\ \A e \in queue : task.entry <= e
  /\ \A e \in 1 .. lastRead : e \in acked \cup queue \cup deferred \/ Current(e)

\* The step fits the entry in process.
Pushing ==
  /\ At("save") => task.entry \notin Malformed /\ task.left = Targets[task.entry]
  /\ At("users") => task.entry \notin Malformed /\ Targets[task.entry] # <<>>
  /\ At("broadcast") => Announced(task.entry)
  /\ At("inspect") => task.entry \in Malformed

\* Hub.Run has taken the event, or a fault explains why it has not.
Reached(e) ==
  \/ \E i \in DOMAIN broadcasts : broadcasts[i].entry = e
  \/ InHub(e) \/ e \in deferred

\* An entry in the history was pushed, is being pushed, or was left pending.
Handed ==
  /\ \A e \in Entries : Known(e) =>
       e \in acked \cup deferred \/ (Current(e) /\ task.step \in {"users", "broadcast", "ack"})
  /\ \A e \in acked : Announced(e) => Reached(e)
  /\ At("ack") /\ Announced(task.entry) => Reached(task.entry)

\* Each count of an entry but the last goes with a fault.
Counted ==
  /\ \A e \in Entries :
       /\ retry[e] <= faults + 1
       /\ e \in acked \/ Current(e) \/ retry[e] <= faults
  /\ At("inspect") => task.retries <= retry[task.entry]

Holds(s, m) == \E k \in DOMAIN s : s[k] = m

\* A broadcast since the client was enrolled is in its browser or its channel.
Gapless ==
  \A c \in clients : link[c] = "up" =>
    \A i \in since[c] + 1 .. Len(broadcasts) :
      Holds(received[c], broadcasts[i]) \/ Holds(buffer[c], broadcasts[i])

\* m may follow a in a channel, when a fault left the entries D pending.
MayFollow(D, a, m) ==
  \/ a.entry <= m.entry
  \/ m.entry \in D
  \/ a.to = "user" /\ m.to = "all"

Ordered(D, s) == \A i, k \in DOMAIN s : i < k => MayFollow(D, s[i], s[k])

\* Of a browser and its channel.
InOrder(D, r, b) ==
  /\ Ordered(D, r) /\ Ordered(D, b)
  /\ \A i \in DOMAIN r, k \in DOMAIN b : MayFollow(D, r[i], b[k])

SentTo(c, a) == Holds(received[c], a) \/ Holds(buffer[c], a)

Waiting(e) == (e \in queue \/ Current(e)) /\ e \notin deferred

\* What was sent is not younger than what is still to be sent.
UpTo ==
  /\ \A c \in Conns, a \in Message : SentTo(c, a) =>
       /\ a.entry <= lastRead
       /\ \A e \in Entries : Waiting(e) => a.entry <= e
       /\ Has("broadcast") /\ a.to = "all" /\ job.message.entry \notin deferred =>
            a.entry <= job.message.entry
  /\ Has("broadcast") =>
       /\ job.message.to = "all" /\ job.message.entry <= lastRead
       /\ \A e \in Entries : Waiting(e) => job.message.entry <= e

OrderInv == UpTo /\ \A c \in Conns : InOrder(deferred, received[c], buffer[c])

\* How often m is in s.
Occ(s, m) == Cardinality({k \in DOMAIN s : s[k] = m})

\* How often a browser and its channel have m.
Held(c, m) == Occ(received[c], m) + Occ(buffer[c], m)

\* The inserts of e that reported no duplicate.
Inserts(e) == (IF e \in saved THEN 1 ELSE 0) + unsaved[e]

ToAll(e) == [entry |-> e, to |-> "all"]
ToUser(e) == [entry |-> e, to |-> "user"]

\* The worker is about to push e, or does.
Pushes(e) == Current(e) /\ task.step \in {"users", "broadcast"}

\* The pushes of e to everybody that are under way.
Underway(e) == (IF Pushes(e) THEN 1 ELSE 0) + (IF InHub(e) THEN 1 ELSE 0)

\* The messages for the user of c that the worker has still to send.
StillNamed(c, e) ==
  IF Current(e) /\ task.step = "users" THEN Occ(task.left, UserOf[c]) ELSE 0

Budget ==
  \A c \in Conns, e \in Entries :
    /\ Held(c, ToAll(e)) + Underway(e) <= Inserts(e)
    /\ Held(c, ToUser(e)) + StillNamed(c, e) <= Occ(Targets[e], UserOf[c]) * Inserts(e)

-----------------------------------------------------------------------------
(* The steps of the worker. *)

\* A call for the entry in process.
Push ==
  Save \/ SaveFails \/ SendToTarget \/ Broadcast \/ Overlook \/ Bury \/ BuryFails

\* The entry stays in process.
Advances ==
  /\ task \in Task /\ task # NoTask /\ task' \in Task /\ task' # NoTask
  /\ task'.entry = task.entry /\ task'.retries = task.retries
  /\ UNCHANGED <<lastRead, acked, queue, deferred>>

AfterSaved == IF task.left = <<>> THEN "broadcast" ELSE "users"

LEMMA GotoTask ==
  ASSUME TypeOK, task # NoTask, NEW s \in {"save", "users", "broadcast", "inspect", "ack"},
         Goto(s)
  PROVE  /\ task \in Task /\ task' \in Task /\ task' # NoTask
         /\ task'.entry = task.entry /\ task'.retries = task.retries
         /\ task'.left = task.left /\ task'.step = s
BY WorkerIdle DEF TypeOK, Goto, Task

LEMMA PushAdvances ==
  ASSUME IInv, Push
  PROVE  /\ Advances
         /\ Save => /\ task.step = "save" /\ task'.left = task.left
                    /\ task'.step = IF task.entry \in saved THEN "ack" ELSE AfterSaved
         /\ SaveFails => /\ task.step = "save" /\ task'.left = task.left
                         /\ task'.step = AfterSaved
         /\ SendToTarget =>
              /\ task.step = "users" /\ task'.left = Tail(task.left)
              /\ task'.step = IF Tail(task.left) # <<>> THEN "users"
                              ELSE IF task.entry \in Core THEN "broadcast" ELSE "ack"
         /\ Broadcast => task.step = "broadcast" /\ task'.step = "ack"
         /\ Overlook \/ Bury \/ BuryFails => task.step = "inspect" /\ task'.step = "ack"
<1> TypeOK
  BY DEF IInv
<1>1. task # NoTask
  BY DEF Push, Save, SaveFails, SendToTarget, Broadcast, Overlook, Bury, BuryFails, At
<1>2. UNCHANGED <<lastRead, acked, queue, deferred>>
  BY DEF Push, Save, SaveFails, SendToTarget, Broadcast, Overlook, Bury, BuryFails
<1>3. CASE Save \/ SaveFails
  <2>1. task.step = "save"
    BY <1>3 DEF Save, SaveFails, At
  <2>2. ASSUME NEW s \in {"ack", "users", "broadcast"}, Goto(s)
        PROVE  Advances /\ task'.left = task.left /\ task'.step = s
    BY <1>1, <1>2, <2>2, GotoTask DEF Advances
  <2>3. AfterSave => Goto(AfterSaved)
    BY DEF AfterSave, AfterSaved
  <2>4. AfterSaved \in {"ack", "users", "broadcast"}
    BY DEF AfterSaved
  <2>5. Save => Goto(IF task.entry \in saved THEN "ack" ELSE AfterSaved)
    BY <2>3 DEF Save
  <2>6. SaveFails => Goto(AfterSaved)
    BY <2>3 DEF SaveFails
  <2>7. ~SendToTarget /\ ~Broadcast /\ ~Overlook /\ ~Bury /\ ~BuryFails
    BY <2>1 DEF SendToTarget, Broadcast, Overlook, Bury, BuryFails, At
  <2> HIDE DEF AfterSaved
  <2>8. Save => Advances /\ task'.left = task.left
                /\ task'.step = IF task.entry \in saved THEN "ack" ELSE AfterSaved
    BY <2>2, <2>4, <2>5
  <2>9. SaveFails => Advances /\ task'.left = task.left /\ task'.step = AfterSaved
    BY <2>2, <2>4, <2>6
  <2>10. QED  BY <1>3, <2>1, <2>7, <2>8, <2>9
<1>4. CASE SendToTarget
  <2>1. task.step = "users" /\ task \in Task /\ Tail(task.left) \in Seq(Users)
    BY <1>1, <1>4 DEF SendToTarget, At, TypeOK, IInv, Task
  <2> DEFINE s == CASE Tail(task.left) # <<>> -> "users"
                    [] Tail(task.left) = <<>> /\ task.entry \in Core -> "broadcast"
                    [] OTHER -> "ack"
  <2>2. task' = [task EXCEPT !.left = Tail(@), !.step = s]
    BY <1>4 DEF SendToTarget
  <2>3. s = IF Tail(task.left) # <<>> THEN "users"
            ELSE IF task.entry \in Core THEN "broadcast" ELSE "ack"
    <3>1. CASE Tail(task.left) # <<>>
      BY <3>1
    <3>2. CASE Tail(task.left) = <<>> /\ task.entry \in Core
      BY <3>2
    <3>3. CASE Tail(task.left) = <<>> /\ task.entry \notin Core
      BY <3>3
    <3>4. QED  BY <3>1, <3>2, <3>3
  <2> HIDE DEF s
  <2>4. /\ task'.step = s /\ task'.left = Tail(task.left) /\ task'.entry = task.entry
        /\ task'.retries = task.retries /\ task' \in Task /\ task' # NoTask
    <3>1. task' = [entry |-> task.entry, step |-> s, left |-> Tail(task.left),
                   retries |-> task.retries]
      BY <2>1, <2>2 DEF Task
    <3>2. task' \in Task
      BY <2>1, <2>3, <3>1 DEF Task
    <3>3. QED  BY <3>1, <3>2, WorkerIdle
  <2>5. QED  BY <1>1, <1>2, <1>4, <2>1, <2>3, <2>4
             DEF Advances, Save, SaveFails, Broadcast, Overlook, Bury, BuryFails, At
<1>5. CASE Broadcast \/ Overlook \/ Bury \/ BuryFails
  <2>1. Goto("ack") /\ (Broadcast => task.step = "broadcast")
        /\ (Overlook \/ Bury \/ BuryFails => task.step = "inspect")
    BY <1>5 DEF Broadcast, Overlook, Bury, BuryFails, At
  <2>2. QED  BY <1>1, <1>2, <1>5, <2>1, GotoTask
             DEF Advances, Save, SaveFails, SendToTarget, At
<1>6. QED  BY <1>3, <1>4, <1>5 DEF Push

\* An entry of the batch is taken up.
LEMMA StartTask ==
  ASSUME TypeOK, NEW e \in Entries, NEW n \in Nat, Start(e, n)
  PROVE  /\ task = NoTask /\ e \in queue /\ queue' = queue \ {e}
         /\ \A f \in queue : e <= f
         /\ task' \in Task /\ task' # NoTask /\ task'.entry = e
         /\ task'.step = IF e \in Malformed THEN "inspect" ELSE "save"
         /\ task'.left = Targets[e] /\ task'.retries = n
<1>1. [entry |-> e, step |-> IF e \in Malformed THEN "inspect" ELSE "save",
       left |-> Targets[e], retries |-> n] \in Task
  BY TargetsType DEF Task
<1>2. QED  BY <1>1, WorkerIdle DEF Start, IsNext

Starts(e) == \E n \in Nat : Start(e, n)

LEMMA StepCases ==
  ASSUME IInv, [Next]_vars
  PROVE  \/ UNCHANGED workerVars
         \/ Claim \/ Read \/ ReadLost
         \/ \E e \in Entries : Count(e) \/ CountFails(e) \/ CountRepeated(e)
         \/ Push
         \/ Ack \/ AckFails \/ Crash
BY NextCases DEF Quiet, Push, vars

\* What becomes of the batch and of what is acknowledged or left pending.
LEMMA WorkerCases ==
  ASSUME IInv, [Next]_vars
  PROVE  \/ UNCHANGED <<lastRead, acked, queue, task, deferred>>
         \/ Claim \/ Read \/ ReadLost
         \/ /\ \E e \in Entries : Starts(e)
            /\ UNCHANGED <<lastRead, acked, deferred>>
         \/ Advances
         \/ Ack \/ AckFails \/ Crash
<1>1. ASSUME NEW e \in Entries, Count(e) \/ CountFails(e)
      PROVE  Starts(e) /\ UNCHANGED <<lastRead, acked, deferred>>
  <2>1. retry[e] + 1 \in Nat /\ 0 \in Nat
    BY DEF IInv, TypeOK
  <2>2. QED  BY <1>1, <2>1 DEF Count, CountFails, Starts
<1>2. QED  BY <1>1, StepCases, PushAdvances DEF workerVars, CountRepeated

LEMMA TaskTyped == TypeOK /\ task # NoTask => task \in Task /\ task.entry \in Entries
BY DEF TypeOK, Task

LEMMA BatchStep ==
  ASSUME IInv, Batch, [Next]_vars
  PROVE  Batch'
<1> TypeOK /\ lastRead \in Nat /\ lastRead <= NumEntries /\ queue \subseteq Entries
  BY HubEntries DEF IInv, TypeOK
<1> HubTypeOK
  BY DEF TypeOK
<1>1. CASE UNCHANGED <<lastRead, acked, queue, task, deferred>>
  BY <1>1 DEF Batch, Current
<1>2. CASE Claim
  BY <1>2 DEF Claim, Batch, Current
<1>3. CASE Read
  <2>1. PICK n \in lastRead + 1 .. NumEntries :
               /\ queue' = lastRead + 1 .. n /\ lastRead' = n
               /\ UNCHANGED <<acked, task, deferred>> /\ task = NoTask /\ queue = {}
    BY <1>3 DEF Read
  <2>2. n \in Nat /\ lastRead < n
    BY <2>1, HubEntries
  <2>3. 1 .. lastRead \subseteq 1 .. n /\ queue' \subseteq 1 .. n
    BY <2>1, <2>2
  <2>4. queue' \cap 1 .. lastRead = {} /\ 1 .. n \subseteq 1 .. lastRead \cup queue'
    BY <2>1, <2>2
  <2>5. QED  BY <2>1, <2>3, <2>4 DEF Batch, Current
<1>4. ASSUME NEW e \in Entries, Starts(e), UNCHANGED <<lastRead, acked, deferred>>
      PROVE  Batch'
  <2>1. /\ task = NoTask /\ e \in queue /\ queue' = queue \ {e}
        /\ \A f \in queue : e <= f
        /\ task' # NoTask /\ task'.entry = e
    BY <1>4, StartTask DEF Starts
  <2>2. QED  BY <1>4, <2>1 DEF Batch, Current
<1>5. CASE Advances
  BY <1>5 DEF Advances, Batch, Current
<1>6. CASE Ack
  BY <1>6 DEF Ack, At, Batch, Current
<1>7. CASE AckFails
  BY <1>7 DEF AckFails, At, Batch, Current
<1>8. CASE Crash
  BY <1>8 DEF Crash, Batch, Current
<1>9. CASE ReadLost
  <2>1. PICK n \in lastRead + 1 .. NumEntries :
               /\ deferred' = deferred \cup (lastRead + 1 .. n) /\ lastRead' = n
               /\ UNCHANGED <<acked, queue, task>>
    BY <1>9 DEF ReadLost
  <2>2. n \in Nat /\ lastRead < n
    BY <2>1, HubEntries
  <2>3. 1 .. lastRead \subseteq 1 .. n /\ 1 .. n \subseteq 1 .. lastRead \cup (lastRead + 1 .. n)
    BY <2>2
  <2>4. QED  BY <2>1, <2>3 DEF Batch, Current
<1>10. QED  BY <1>1, <1>2, <1>3, <1>4, <1>5, <1>6, <1>7, <1>8, <1>9, WorkerCases

LEMMA PushingStep ==
  ASSUME IInv, Pushing, [Next]_vars
  PROVE  Pushing'
<1> TypeOK /\ (At("users") => task.left # <<>>)
  BY DEF IInv
<1>1. CASE UNCHANGED task
  BY <1>1 DEF Pushing, At, Announced
<1>2. CASE Push
  <2> USE PushAdvances
  <2>1. Advances /\ task # NoTask
    BY <1>2 DEF Advances
  <2>2. CASE Save \/ SaveFails
    <3>1. task.entry \notin Malformed /\ task.left = Targets[task.entry]
      BY <1>2, <2>1, <2>2 DEF Pushing, At
    <3>2. QED  BY <1>2, <2>1, <2>2, <3>1 DEF Pushing, At, Announced, Advances, AfterSaved
  <2>3. CASE SendToTarget
    <3>1. task.entry \notin Malformed /\ Targets[task.entry] # <<>>
      BY <1>2, <2>1, <2>3 DEF Pushing, At
    <3>2. QED  BY <1>2, <2>1, <2>3, <3>1 DEF Pushing, At, Announced, Advances
  <2>4. CASE Broadcast \/ Overlook \/ Bury \/ BuryFails
    BY <1>2, <2>1, <2>4 DEF Pushing, At, Announced, Advances
  <2>5. QED  BY <1>2, <2>2, <2>3, <2>4 DEF Push
<1>3. ASSUME NEW e \in Entries, Starts(e) PROVE Pushing'
  BY <1>3, StartTask DEF Starts, Pushing, At, Announced
<1>4. CASE task' = NoTask
  BY <1>4 DEF Pushing, At
<1>5. QED
  <2>1. ASSUME NEW e \in Entries, Count(e) \/ CountFails(e) PROVE Starts(e)
    <3>1. retry[e] + 1 \in Nat /\ 0 \in Nat
      BY DEF TypeOK
    <3>2. QED  BY <2>1, <3>1 DEF Count, CountFails, Starts
  <2>2. QED  BY <1>1, <1>2, <1>3, <1>4, <2>1, StepCases
             DEF workerVars, Claim, Read, ReadLost, CountRepeated, Ack, AckFails, Crash

-----------------------------------------------------------------------------
(* What Hub.Run has taken. *)

\* The job of Hub.Run in a step.
LEMMA JobCases ==
  ASSUME IInv, [Next]_vars
  PROVE  \/ UNCHANGED <<job, broadcasts>>
         \/ /\ job' = NoJob
            /\ \/ Fanout /\ UNCHANGED workerVars
                  /\ broadcasts' = Append(broadcasts, job.message)
               \/ ~Has("broadcast") /\ UNCHANGED broadcasts
               \/ Crash /\ UNCHANGED broadcasts
         \/ /\ job = NoJob /\ UNCHANGED broadcasts
            /\ \/ Broadcast
               \/ (\E c \in Conns : TakeRegister(c) \/ TakeUnregister(c))
                  /\ UNCHANGED workerVars
<1>1. Enrol \/ Expel => ~Has("broadcast")
  BY DEF Enrol, Expel, Has
<1>2. QED
  BY <1>1, NextCases DEF vars, hubVars, SendToTarget, SendToUser, Broadcast, TakeBroadcast,
     Take, Crash, HubLost, Enrol, Expel, Fanout, Link, Disconnect, TakeRegister,
     TakeUnregister, ReadFails, Write, WriteFails, WriteEnds

\* BroadcastEvent returns when Hub.Run has the message.
LEMMA BroadcastTaken ==
  ASSUME IInv, Broadcast
  PROVE  /\ task # NoTask /\ task.entry \in Entries /\ task.step = "broadcast"
         /\ job = NoJob /\ Has("broadcast")' /\ job'.message = ToAll(task.entry)
         /\ InHub(task.entry)'
<1>1. task # NoTask /\ task.entry \in Entries /\ task.step = "broadcast"
  BY TaskTyped DEF IInv, Broadcast, At
<1> DEFINE j == [kind |-> "broadcast", message |-> ToAll(task.entry)]
<1>2. job = NoJob /\ job' = j
  BY DEF Broadcast, TakeBroadcast, Take, ToAll
<1>3. j \in Job
  BY <1>1 DEF Job, Message, ToAll
<1>4. j # NoJob
  BY <1>3, HubIdle
<1>5. task'.entry = task.entry
  BY PushAdvances DEF Push, Advances
<1>6. QED  BY <1>1, <1>2, <1>4, <1>5 DEF Has, InHub, ToAll

LEMMA ReachedStays ==
  ASSUME IInv, [Next]_vars, NEW e \in Entries, Reached(e)
  PROVE  Reached(e)'
<1>1. deferred \subseteq deferred'
  BY WorkerCases DEF Claim, Read, ReadLost, Advances, Ack, AckFails, Crash
<1>2. CASE UNCHANGED <<job, broadcasts>>
  BY <1>1, <1>2 DEF Reached, InHub, Has
<1>3. CASE Fanout /\ broadcasts' = Append(broadcasts, job.message)
  <2>1. broadcasts \in Seq(Message) /\ job.message \in Message
    BY <1>3 DEF IInv, TypeOK, HubTypeOK, Fanout, Has, Job
  <2>2. /\ \A i \in DOMAIN broadcasts :
             i \in DOMAIN broadcasts' /\ broadcasts'[i] = broadcasts[i]
        /\ Len(broadcasts) + 1 \in DOMAIN broadcasts'
        /\ broadcasts'[Len(broadcasts) + 1] = job.message
    BY <1>3, <2>1
  <2>3. QED  BY <1>1, <2>2 DEF Reached, InHub
<1>4. CASE ~Has("broadcast") /\ UNCHANGED broadcasts
  BY <1>1, <1>4 DEF Reached, InHub
<1>5. CASE Crash /\ UNCHANGED broadcasts
  BY <1>1, <1>5 DEF Reached, Crash
<1>6. CASE job = NoJob /\ UNCHANGED broadcasts
  BY <1>1, <1>6 DEF Reached, InHub, Has
<1>7. QED  BY <1>2, <1>3, <1>4, <1>5, <1>6, JobCases

\* What an action of the worker adds to the history.
LEMMA KnownOnlyBySave ==
  ASSUME IInv, [Next]_vars, NEW e \in Entries, Known(e)'
  PROVE  Known(e) \/ ((Save \/ SaveFails) /\ Current(e))
<1>1. CASE Save \/ SaveFails
  <2>1. task # NoTask /\ task.entry \in Entries
    BY <1>1, TaskTyped DEF IInv, Save, SaveFails, At
  <2>2. e # task.entry => (e \in saved' <=> e \in saved) /\ unsaved'[e] = unsaved[e]
    BY <1>1, <2>1 DEF Save, SaveFails, IInv, TypeOK
  <2>3. QED  BY <1>1, <2>1, <2>2 DEF Known, Current
<1>2. CASE ~(Save \/ SaveFails)
  <2>1. UNCHANGED <<saved, unsaved>>
    BY <1>2, StepCases DEF workerVars, Claim, Read, ReadLost, Count, CountFails, CountRepeated, Push, SendToTarget,
       Broadcast, Overlook, Bury, BuryFails, Ack, AckFails, Crash
  <2>2. QED  BY <2>1 DEF Known
<1>3. QED  BY <1>1, <1>2

LEMMA HandedStep ==
  ASSUME IInv, Batch, Pushing, Handed, [Next]_vars
  PROVE  Handed'
<1> TypeOK /\ (At("users") => task.left # <<>>) /\ acked \subseteq Entries
  BY DEF IInv, TypeOK
<1>1. ASSUME NEW e \in Entries, Known(e)'
      PROVE  (e \in acked \cup deferred
              \/ (Current(e) /\ task.step \in {"users", "broadcast", "ack"}))'
  <2>1. CASE Save \/ SaveFails
    <3>1. Push
      BY <2>1 DEF Push
    <3>2. Advances /\ task'.step \in {"users", "broadcast", "ack"}
      BY <2>1, <3>1, PushAdvances DEF AfterSaved
    <3>3. Known(e) => e \in acked \cup deferred \/ Current(e)
      BY DEF Handed
    <3>4. QED  BY <1>1, <2>1, <3>2, <3>3, KnownOnlyBySave DEF Advances, Current
  <2>2. CASE ~(Save \/ SaveFails)
    <3>1. e \in acked \cup deferred
          \/ (Current(e) /\ task.step \in {"users", "broadcast", "ack"})
      BY <1>1, <2>2, KnownOnlyBySave DEF Handed
    <3>2. CASE UNCHANGED workerVars
      BY <3>1, <3>2 DEF workerVars, Current
    <3>3. CASE Claim \/ Read \/ ReadLost \/ \E f \in Entries : CountRepeated(f)
      BY <3>1, <3>3 DEF Claim, Read, ReadLost, CountRepeated, Current
    <3>4. ASSUME NEW f \in Entries, Count(f) \/ CountFails(f)
          PROVE  (e \in acked \cup deferred)'
      BY <3>1, <3>4 DEF Count, CountFails, Start, IsNext, Current
    <3>5. CASE Push
      <4>1. Advances /\ (Current(e) => task'.step \in {"users", "broadcast", "ack"}
                                       \/ task.step \in {"save", "inspect"})
        BY <2>2, <3>5, PushAdvances DEF Push
      <4>2. QED  BY <3>1, <4>1 DEF Advances, Current
    <3>6. CASE Ack \/ AckFails
      BY <3>1, <3>6 DEF Ack, AckFails, Current
    <3>7. CASE Crash
      <4>1. Current(e) => e \in 1 .. lastRead /\ e \notin acked
        BY DEF Batch, Current
      <4>2. QED  BY <3>1, <3>7, <4>1 DEF Crash
    <3>8. QED  BY <3>2, <3>3, <3>4, <3>5, <3>6, <3>7, StepCases
  <2>3. QED  BY <2>1, <2>2
<1>2. ASSUME NEW e \in acked', Announced(e) PROVE Reached(e)'
  <2>1. e \in Entries /\ (e \in acked \/ (At("ack") /\ e = task.entry))
    <3>1. At("ack") => task.entry \in Entries
      BY TaskTyped DEF At
    <3>2. QED  BY <3>1, WorkerCases DEF Claim, Read, ReadLost, Advances, Ack, AckFails, Crash
  <2>2. Reached(e)
    BY <1>2, <2>1 DEF Handed
  <2>3. QED  BY <2>1, <2>2, ReachedStays
<1>3. ASSUME At("ack")', Announced(task'.entry) PROVE Reached(task.entry)'
  <2>1. CASE UNCHANGED task
    <3>1. At("ack") /\ Announced(task.entry)
      BY <1>3, <2>1 DEF At
    <3>2. Reached(task.entry) /\ task.entry \in Entries
      BY <3>1, TaskTyped DEF Handed, At
    <3>3. ASSUME NEW e, e = task.entry PROVE Reached(e)' => Reached(task.entry)'
      BY <2>1, <3>3 DEF Reached, InHub
    <3>4. QED  BY <3>2, <3>3, ReachedStays
  <2>2. CASE Push
    <3>1. /\ Advances /\ task # NoTask /\ task.entry \in Entries
          /\ task'.entry = task.entry /\ task'.step = "ack"
      BY <1>3, <2>2, PushAdvances, TaskTyped DEF Advances, At
    <3>2. ASSUME NEW e, e = task.entry, Reached(e)' PROVE Reached(task.entry)'
      BY <3>1, <3>2 DEF Reached, InHub
    <3>3. CASE Save
      <4>1. task.entry \in saved
        BY <2>2, <3>1, <3>3, PushAdvances DEF AfterSaved
      <4>2. task.entry \in deferred
        BY <2>2, <3>1, <3>3, <4>1, PushAdvances DEF Handed, Known, Batch, Current
      <4>3. QED  BY <3>1, <4>2 DEF Reached, Advances
    <3>4. CASE SaveFails
      BY <2>2, <3>1, <3>4, PushAdvances DEF AfterSaved
    <3>5. CASE SendToTarget
      <4>1. task.step = "users" /\ Tail(task.left) = <<>> /\ task.entry \notin Core
        BY <2>2, <3>1, <3>5, PushAdvances
      <4>2. ~Announced(task.entry)
        BY <3>1, <4>1 DEF Pushing, At, Announced
      <4>3. QED  BY <1>3, <3>1, <4>2
    <3>6. CASE Broadcast
      <4>1. InHub(task.entry)'
        BY <3>6, BroadcastTaken
      <4>2. QED  BY <4>1 DEF Reached
    <3>7. CASE Overlook \/ Bury \/ BuryFails
      <4>1. task.entry \in Malformed
        BY <2>2, <3>1, <3>7, PushAdvances DEF Pushing, At
      <4>2. QED  BY <1>3, <3>1, <4>1 DEF Announced
    <3>8. QED  BY <2>2, <3>3, <3>4, <3>5, <3>6, <3>7 DEF Push
  <2>3. ASSUME NEW e \in Entries, Count(e) \/ CountFails(e) PROVE FALSE
    <3>1. retry[e] + 1 \in Nat /\ 0 \in Nat
      BY DEF TypeOK
    <3>2. task'.step # "ack"
      BY <2>3, <3>1, StartTask DEF Count, CountFails
    <3>3. QED  BY <1>3, <3>2 DEF At
  <2>4. QED  BY <1>3, <2>1, <2>2, <2>3, StepCases
             DEF workerVars, Claim, Read, ReadLost, CountRepeated, Ack, AckFails, Crash, At
<1>4. Handed' =
        (/\ \A e \in Entries : Known(e)' =>
              (e \in acked \cup deferred
               \/ (Current(e) /\ task.step \in {"users", "broadcast", "ack"}))'
         /\ \A e \in acked' : Announced(e) => Reached(e)'
         /\ At("ack")' /\ Announced(task'.entry) => Reached(task.entry)')
  BY DEF Handed, Announced
<1>5. QED  BY <1>1, <1>2, <1>3, <1>4

-----------------------------------------------------------------------------
(* The retry counters. *)

LEMMA CountedStep ==
  ASSUME IInv, Batch, Pushing, Counted, [Next]_vars
  PROVE  Counted'
<1> /\ TypeOK /\ faults \in Nat /\ retry \in [Entries -> Nat]
    /\ \A e \in Entries : retry[e] \in Nat
  BY LimitsNat DEF IInv, TypeOK
<1>1. CASE UNCHANGED workerVars
  BY <1>1 DEF workerVars, Counted, Current, At
<1>2. CASE Claim \/ Read \/ ReadLost
  BY <1>2 DEF Claim, Read, ReadLost, Fault, Counted, Current, At
<1>3. ASSUME NEW e \in Entries, Count(e) PROVE Counted'
  <2>1. retry[e] + 1 \in Nat
    OBVIOUS
  <2>2. /\ task = NoTask /\ e \in queue /\ task' # NoTask /\ task'.entry = e
        /\ task'.retries = retry[e] + 1
    BY <1>3, <2>1, StartTask DEF Count
  <2>3. UNCHANGED <<acked, deferred, faults>> /\ retry' = [retry EXCEPT ![e] = @ + 1]
    BY <1>3 DEF Count
  <2>4. e \notin acked
    BY <2>2 DEF Batch
  <2>5. retry'[e] = retry[e] + 1 /\ \A f \in Entries : f # e => retry'[f] = retry[f]
    BY <2>3
  <2>6. retry[e] <= faults
    BY <2>2, <2>4 DEF Counted, Current
  <2>7. retry'[e] <= faults + 1
    BY <2>5, <2>6
  <2>8. QED  BY <2>2, <2>3, <2>5, <2>7 DEF Counted, Current, At
<1>4. ASSUME NEW e \in Entries, CountFails(e) PROVE Counted'
  <2>1. /\ task = NoTask /\ task' # NoTask /\ task'.entry = e /\ task'.retries = 0
    BY <1>4, StartTask DEF CountFails
  <2>2. UNCHANGED <<acked, deferred>> /\ faults' = faults + 1
    BY <1>4 DEF CountFails, Fault
  <2>3. \A f \in Entries : retry'[f] <= retry[f] + 1 /\ (f # e => retry'[f] = retry[f])
    BY <1>4 DEF CountFails
  <2>4. retry' \in [Entries -> Nat]
    BY <1>4 DEF CountFails
  <2>5. e \notin acked /\ ~Current(e)
    BY <1>4, <2>1 DEF CountFails, Start, IsNext, Batch, Current
  <2>6. retry[e] <= faults /\ retry'[e] \in Nat
    BY <2>4, <2>5 DEF Counted
  <2>7. retry'[e] <= faults'
    BY <2>2, <2>3, <2>6
  <2>8. QED  BY <2>1, <2>2, <2>3, <2>4, <2>7 DEF Counted, Current, At
<1>5. CASE Push
  <2>1. Advances
    BY <1>5, PushAdvances
  <2>2. task'.step # "inspect"
    BY <1>5, PushAdvances DEF Push, AfterSaved
  <2>3. faults' \in Nat /\ faults <= faults'
    BY <1>5 DEF Push, Save, SaveFails, SendToTarget, Broadcast, Overlook, Bury, BuryFails,
       Fault
  <2>4. \A e \in Entries : retry'[e] = retry[e] \/ retry'[e] = 0
    BY <1>5 DEF Push, Save, SaveFails, SendToTarget, Broadcast, Overlook, Bury, BuryFails
  <2>5. QED  BY <2>1, <2>2, <2>3, <2>4 DEF Counted, Advances, Current, At
<1>6. CASE Ack
  BY <1>6 DEF Ack, Counted, Current, At
<1>7. CASE AckFails
  BY <1>7 DEF AckFails, Fault, Counted, Current, At
<1>8. CASE Crash
  <2>1. /\ UNCHANGED <<acked, retry>> /\ faults' = faults + 1 /\ task' = NoTask
        /\ deferred \cup ((1 .. lastRead) \ acked) \subseteq deferred'
    BY <1>8 DEF Crash, Fault
  <2>2. \A e \in Entries : Current(e) => e \in deferred'
    BY <2>1 DEF Batch, Current
  <2>3. QED  BY <2>1, <2>2 DEF Counted, Current, At
<1>9. ASSUME NEW e \in Entries, CountRepeated(e) PROVE Counted'
  <2>1. /\ task = NoTask /\ e \in queue /\ faults' = faults + 1
        /\ UNCHANGED <<task, acked>> /\ retry' = [retry EXCEPT ![e] = @ + 1]
    BY <1>9 DEF CountRepeated, IsNext, Fault
  <2>2. retry'[e] = retry[e] + 1 /\ \A f \in Entries : f # e => retry'[f] = retry[f]
    BY <2>1
  <2>3. retry[e] <= faults
    BY <2>1 DEF Batch, Counted, Current
  <2>4. QED  BY <2>1, <2>2, <2>3 DEF Counted, Current, At
<1>10. QED  BY <1>1, <1>2, <1>3, <1>4, <1>5, <1>6, <1>7, <1>8, <1>9, StepCases

LEMMA QuarantineStep ==
  ASSUME IInv, Pushing, Counted, QuarantineNeedsFaults, [Next]_vars
  PROVE  QuarantineNeedsFaults'
<1> TypeOK /\ faults \in Nat /\ MaxRetries \in Nat
  BY LimitsNat DEF IInv, TypeOK
<1>1. faults' \in Nat /\ faults <= faults'
  BY StepCases DEF workerVars, Claim, Read, ReadLost, Count, CountFails, CountRepeated, Push,
     Save, SaveFails, SendToTarget, Broadcast, Overlook, Bury, BuryFails, Ack, AckFails,
     Crash, Fault
<1>2. CASE Bury \/ BuryFails
  <2>1. /\ task # NoTask /\ task.step = "inspect" /\ task.retries >= MaxRetries
        /\ dlq' = dlq \/ dlq' = dlq \cup {task.entry}
    BY <1>2 DEF Bury, BuryFails, At
  <2>2. task.entry \in Malformed /\ task.entry \in Entries
        /\ task.retries <= retry[task.entry]
    BY <2>1, TaskTyped DEF Pushing, Counted, At
  <2>3. task.retries \in Nat /\ retry[task.entry] \in Nat
    BY <2>1, <2>2 DEF TypeOK, Task
  <2>4. faults >= MaxRetries - 1
    BY <2>1, <2>2, <2>3 DEF Counted
  <2>5. QED  BY <1>1, <2>1, <2>2, <2>4 DEF QuarantineNeedsFaults
<1>3. CASE ~Bury /\ ~BuryFails
  <2>1. UNCHANGED dlq
    BY <1>3, StepCases DEF workerVars, Claim, Read, ReadLost, Count, CountFails,
       CountRepeated, Push, Save, SaveFails, SendToTarget, Broadcast, Overlook, Ack,
       AckFails, Crash
  <2>2. QED  BY <1>1, <2>1 DEF QuarantineNeedsFaults
<1>4. QED  BY <1>2, <1>3

-----------------------------------------------------------------------------
(* Messages in channels and browsers. *)

LEMMA AppendMessage ==
  ASSUME NEW s \in Seq(Message), NEW m \in Message
  PROVE  /\ Append(s, m) \in Seq(Message)
         /\ DOMAIN Append(s, m) = DOMAIN s \cup {Len(s) + 1} /\ Len(s) + 1 \notin DOMAIN s
         /\ Append(s, m)[Len(s) + 1] = m /\ Len(s) \in Nat
         /\ \A i \in DOMAIN s : Append(s, m)[i] = s[i] /\ i < Len(s) + 1 /\ i \in Nat
OBVIOUS

LEMMA TailMessage ==
  ASSUME NEW s \in Seq(Message), s # <<>>
  PROVE  /\ Tail(s) \in Seq(Message) /\ Head(s) \in Message
         /\ Head(s) = s[1] /\ 1 \in DOMAIN s
         /\ \A i \in DOMAIN Tail(s) :
              i \in Nat /\ i + 1 \in DOMAIN s /\ 1 < i + 1 /\ Tail(s)[i] = s[i + 1]
         /\ \A i \in DOMAIN s : i # 1 => i - 1 \in DOMAIN Tail(s) /\ i \in Nat /\ 1 < i
OBVIOUS

LEMMA HoldsAppend ==
  ASSUME NEW s \in Seq(Message), NEW m \in Message, NEW x
  PROVE  Holds(Append(s, m), x) <=> Holds(s, x) \/ x = m
BY AppendMessage DEF Holds

LEMMA HoldsTail ==
  ASSUME NEW s \in Seq(Message), s # <<>>, NEW x
  PROVE  Holds(s, x) <=> Holds(Tail(s), x) \/ x = Head(s)
<1>1. Holds(s, x) => Holds(Tail(s), x) \/ x = Head(s)
  <2> SUFFICES ASSUME NEW i \in DOMAIN s, s[i] = x, x # Head(s) PROVE Holds(Tail(s), x)
    BY DEF Holds
  <2>1. i # 1 /\ i - 1 \in DOMAIN Tail(s) /\ i \in Nat
    BY TailMessage
  <2>2. Tail(s)[i - 1] = s[(i - 1) + 1] /\ (i - 1) + 1 = i
    BY <2>1, TailMessage
  <2>3. QED  BY <2>1, <2>2 DEF Holds
<1>2. QED  BY <1>1, TailMessage DEF Holds

\* What a step does to the messages of a connection: one is sent, one is
\* written to the browser, one is lost with the connection, or all are lost
\* with the process.
Sends(c, m) ==
  /\ m \in Message /\ c \in clients
  /\ buffer'[c] = Append(buffer[c], m) /\ received'[c] = received[c]

LEMMA Transfers ==
  ASSUME IInv, [Next]_vars, NEW c \in Conns
  PROVE  \/ buffer'[c] = buffer[c] /\ received'[c] = received[c]
         \/ /\ SendToTarget /\ UserOf[c] = Head(task.left)
            /\ Sends(c, ToUser(task.entry))
         \/ Fanout /\ Sends(c, job.message)
         \/ /\ buffer[c] # <<>> /\ UNCHANGED workerVars
            /\ buffer'[c] = Tail(buffer[c])
            /\ \/ received'[c] = Append(received[c], Head(buffer[c]))
               \/ received'[c] = received[c] /\ link'[c] # "up"
         \/ Crash /\ buffer'[c] = <<>> /\ received'[c] = received[c]
<1> HubTypeOK /\ RegistriesAgree
  BY DEF IInv, TypeOK, Registered
<1>1. ASSUME NEW S \in SUBSET clients, NEW m \in Message, Deliver(S, m),
             received' = received
      PROVE  \/ buffer'[c] = buffer[c] /\ received'[c] = received[c]
             \/ Sends(c, m) /\ c \in S
  BY <1>1 DEF Deliver, Sends
<1>2. CASE SendToTarget
  <2>1. task \in Task /\ task # NoTask /\ task.left # <<>>
    BY <1>2 DEF SendToTarget, At, IInv, TypeOK
  <2>2. Head(task.left) \in Users /\ ToUser(task.entry) \in Message
    BY <2>1 DEF Task, Message, ToUser
  <2> DEFINE S == userClients[Head(task.left)]
  <2>3. Deliver(S, ToUser(task.entry)) /\ received' = received
    BY <1>2 DEF SendToTarget, SendToUser, ToUser
  <2>4. S = {d \in clients : UserOf[d] = Head(task.left)}
    BY <2>2 DEF RegistriesAgree
  <2>5. S \in SUBSET clients
    BY <2>4
  <2> HIDE DEF S
  <2>6. QED  BY <1>1, <1>2, <2>2, <2>3, <2>4, <2>5
<1>3. CASE Fanout
  <2>1. job.message \in Message
    BY <1>3 DEF Fanout, Has, HubTypeOK, Job
  <2>2. QED  BY <1>1, <1>3, <2>1 DEF Fanout
<1>4. CASE UNCHANGED <<buffer, received>>
  BY <1>4
<1>5. ASSUME NEW d \in Conns, Link(d), UNCHANGED workerVars
      PROVE  \/ buffer'[c] = buffer[c] /\ received'[c] = received[c]
             \/ /\ buffer[c] # <<>> /\ UNCHANGED workerVars
                /\ buffer'[c] = Tail(buffer[c])
                /\ \/ received'[c] = Append(received[c], Head(buffer[c]))
                   \/ received'[c] = received[c] /\ link'[c] # "up"
  BY <1>5 DEF Link, Disconnect, TakeRegister, TakeUnregister, ReadFails, Write, WriteFails,
     WriteEnds, HubTypeOK
<1>6. CASE Crash
  BY <1>6 DEF Crash, HubLost
<1>7. QED  BY <1>2, <1>3, <1>4, <1>5, <1>6, NextCases
           DEF vars, hubVars, Broadcast, TakeBroadcast, Enrol, Expel

LEMMA GaplessStep ==
  ASSUME IInv, Gapless, [Next]_vars
  PROVE  Gapless'
<1> /\ HubTypeOK /\ clients \subseteq Conns /\ broadcasts \in Seq(Message)
    /\ \A c \in Conns : buffer[c] \in Seq(Message) /\ received[c] \in Seq(Message)
                        /\ since[c] \in Nat
  BY DEF IInv, TypeOK, HubTypeOK
<1> SUFFICES ASSUME NEW c \in clients', link'[c] = "up",
                    NEW i \in since'[c] + 1 .. Len(broadcasts')
             PROVE  Holds(received'[c], broadcasts'[i]) \/ Holds(buffer'[c], broadcasts'[i])
  BY DEF Gapless
<1>1. c \in Conns
  BY NextInv DEF IInv, TypeOK, HubTypeOK
<1>2. CASE Enrol /\ job.client = c
  <2>1. since'[c] = Len(broadcasts) /\ broadcasts' = broadcasts /\ Len(broadcasts) \in Nat
    BY <1>1, <1>2 DEF Enrol, HubTypeOK
  <2>2. QED  BY <2>1
<1>3. CASE ~(Enrol /\ job.client = c)
  <2>1. c \in clients /\ since'[c] = since[c] /\ ~Crash
    <3>1. job.client \in Conns \/ ~Enrol
      BY DEF Enrol, Has, HubTypeOK, Job
    <3>2. QED
      BY <1>1, <1>3, <3>1, NextCases DEF vars, hubVars, SendToTarget, SendToUser, Deliver,
         Drop, Broadcast, TakeBroadcast, Crash, HubLost, Enrol, Expel, Fanout, HubTypeOK,
         Link, Disconnect, TakeRegister, TakeUnregister, ReadFails, Write, WriteFails,
         WriteEnds
  <2>2. link[c] = "up"
    <3>1. link[c] # "new"
      BY <1>1, <2>1 DEF IInv, Registered
    <3>2. link[c] # "down"
      BY <1>1, <2>1, <3>1, NextCases DEF vars, hubVars, SendToTarget, SendToUser,
         Broadcast, TakeBroadcast, Enrol, Expel, Fanout, HubTypeOK, Link, Disconnect,
         TakeRegister, TakeUnregister, ReadFails, Write, WriteFails, WriteEnds
    <3>3. QED  BY <1>1, <3>1, <3>2 DEF HubTypeOK
  <2> DEFINE InHand(m) == Holds(received[c], m) \/ Holds(buffer[c], m)
  <2>3. \A m : InHand(m) => Holds(received'[c], m) \/ Holds(buffer'[c], m)
    <3>1. CASE buffer'[c] = buffer[c] /\ received'[c] = received[c]
      BY <3>1
    <3>2. ASSUME NEW m \in Message, Sends(c, m)
          PROVE  \A x : InHand(x) => Holds(received'[c], x) \/ Holds(buffer'[c], x)
      BY <1>1, <3>2, HoldsAppend DEF Sends
    <3>3. CASE /\ buffer[c] # <<>> /\ buffer'[c] = Tail(buffer[c])
               /\ received'[c] = Append(received[c], Head(buffer[c]))
      BY <1>1, <3>3, HoldsAppend, HoldsTail, TailMessage
    <3>4. QED  BY <1>1, <2>1, <3>1, <3>2, <3>3, Transfers DEF Sends
  <2>4. CASE i \in since[c] + 1 .. Len(broadcasts) /\ broadcasts'[i] = broadcasts[i]
    BY <2>1, <2>2, <2>3, <2>4 DEF Gapless
  <2>5. CASE ~(i \in since[c] + 1 .. Len(broadcasts) /\ broadcasts'[i] = broadcasts[i])
    <3>1. Fanout /\ broadcasts' = Append(broadcasts, job.message)
      BY <2>1, <2>5, JobCases
    <3>2. job.message \in Message
      BY <3>1 DEF Fanout, Has, HubTypeOK, Job
    <3>3. broadcasts'[i] = job.message
      BY <1>1, <2>1, <2>5, <3>1, <3>2
    <3>4. Len(buffer[c]) < Capacity
      BY <2>1, <1>1, <3>1, CapacityNat DEF Fanout, Deliver, Drop
    <3>5. buffer'[c] = Append(buffer[c], job.message)
      BY <1>1, <2>1, <3>1, <3>4, CapacityNat DEF Fanout, Deliver
    <3>6. QED  BY <1>1, <3>2, <3>3, <3>5, HoldsAppend
  <2>6. QED  BY <2>4, <2>5
<1>4. QED  BY <1>2, <1>3

-----------------------------------------------------------------------------
(* The order of the messages. *)

LEMMA OrderGrows ==
  ASSUME NEW D, NEW E, D \subseteq E, NEW r, NEW b, InOrder(D, r, b)
  PROVE  InOrder(E, r, b)
BY DEF InOrder, Ordered, MayFollow

LEMMA OrderSend ==
  ASSUME NEW D, NEW r \in Seq(Message), NEW b \in Seq(Message), InOrder(D, r, b),
         NEW m \in Message,
         \A a : Holds(r, a) \/ Holds(b, a) => MayFollow(D, a, m)
  PROVE  InOrder(D, r, Append(b, m))
<1>1. /\ DOMAIN Append(b, m) = DOMAIN b \cup {Len(b) + 1}
      /\ Append(b, m)[Len(b) + 1] = m /\ Len(b) \in Nat
      /\ \A i \in DOMAIN b : Append(b, m)[i] = b[i] /\ i < Len(b) + 1 /\ i \in Nat
  BY AppendMessage
<1>2. \A i \in DOMAIN r : MayFollow(D, r[i], m)
  BY DEF Holds
<1>3. \A i \in DOMAIN b : MayFollow(D, b[i], m)
  BY DEF Holds
<1>4. Ordered(D, Append(b, m))
  <2> SUFFICES ASSUME NEW i \in DOMAIN Append(b, m), NEW k \in DOMAIN Append(b, m), i < k
               PROVE  MayFollow(D, Append(b, m)[i], Append(b, m)[k])
    BY DEF Ordered
  <2>1. i \in DOMAIN b
    BY <1>1
  <2>2. CASE k \in DOMAIN b
    BY <1>1, <2>1, <2>2 DEF InOrder, Ordered
  <2>3. CASE k = Len(b) + 1
    BY <1>1, <1>3, <2>1, <2>3
  <2>4. QED  BY <1>1, <2>2, <2>3
<1>5. QED  BY <1>1, <1>2, <1>4 DEF InOrder

LEMMA OrderTail ==
  ASSUME NEW D, NEW r \in Seq(Message), NEW b \in Seq(Message), InOrder(D, r, b), b # <<>>
  PROVE  InOrder(D, r, Tail(b)) /\ InOrder(D, Append(r, Head(b)), Tail(b))
<1>1. /\ Head(b) = b[1] /\ 1 \in DOMAIN b /\ Head(b) \in Message
      /\ \A i \in DOMAIN Tail(b) :
           i \in Nat /\ i + 1 \in DOMAIN b /\ 1 < i + 1 /\ Tail(b)[i] = b[i + 1]
  BY TailMessage
<1>2. /\ DOMAIN Append(r, Head(b)) = DOMAIN r \cup {Len(r) + 1}
      /\ Append(r, Head(b))[Len(r) + 1] = Head(b) /\ Len(r) \in Nat
      /\ \A i \in DOMAIN r : Append(r, Head(b))[i] = r[i] /\ i < Len(r) + 1 /\ i \in Nat
  BY <1>1, AppendMessage
<1>3. Ordered(D, Tail(b))
  <2> SUFFICES ASSUME NEW i \in DOMAIN Tail(b), NEW k \in DOMAIN Tail(b), i < k
               PROVE  MayFollow(D, Tail(b)[i], Tail(b)[k])
    BY DEF Ordered
  <2>1. i + 1 < k + 1
    BY <1>1
  <2>2. QED  BY <1>1, <2>1 DEF InOrder, Ordered
<1>4. \A i \in DOMAIN r, k \in DOMAIN Tail(b) : MayFollow(D, r[i], Tail(b)[k])
  BY <1>1 DEF InOrder
<1>5. \A k \in DOMAIN Tail(b) : MayFollow(D, Head(b), Tail(b)[k])
  BY <1>1 DEF InOrder, Ordered
<1>6. Ordered(D, Append(r, Head(b)))
  <2> DEFINE q == Append(r, Head(b))
  <2> SUFFICES ASSUME NEW i \in DOMAIN q, NEW k \in DOMAIN q, i < k
               PROVE  MayFollow(D, q[i], q[k])
    BY DEF Ordered
  <2> HIDE DEF q
  <2>1. i \in DOMAIN r /\ q[i] = r[i]
    BY <1>2 DEF q
  <2>2. CASE k \in DOMAIN r
    BY <1>2, <2>1, <2>2 DEF q, InOrder, Ordered
  <2>3. CASE k = Len(r) + 1
    BY <1>1, <1>2, <2>1, <2>3 DEF q, InOrder
  <2>4. QED  BY <1>2, <2>2, <2>3 DEF q
<1>7. \A i \in DOMAIN Append(r, Head(b)), k \in DOMAIN Tail(b) :
        MayFollow(D, Append(r, Head(b))[i], Tail(b)[k])
  BY <1>2, <1>4, <1>5
<1>8. QED  BY <1>3, <1>4, <1>6, <1>7 DEF InOrder

\* A message of a browser and its channel is in one or the other.
LEMMA SentSplits ==
  ASSUME NEW S, NEW r \in Seq(S), NEW b \in Seq(S)
  PROVE  /\ Len(r) \in Nat /\ Len(b) \in Nat
         /\ DOMAIN (r \o b) = 1 .. Len(r) + Len(b)
         /\ DOMAIN r = 1 .. Len(r) /\ DOMAIN b = 1 .. Len(b)
         /\ \A k \in 1 .. Len(r) + Len(b) :
              \/ k \in DOMAIN r /\ (r \o b)[k] = r[k]
              \/ k > Len(r) /\ k - Len(r) \in DOMAIN b /\ (r \o b)[k] = b[k - Len(r)]
<1>1. Len(r) \in Nat /\ DOMAIN r = 1 .. Len(r) /\ Len(b) \in Nat /\ DOMAIN b = 1 .. Len(b)
  OBVIOUS
<1>2. r \o b \in Seq(S) /\ Len(r \o b) = Len(r) + Len(b)
  BY ConcatProperties
<1>3. \A i \in 1 .. Len(r) + Len(b) :
        (r \o b)[i] = IF i <= Len(r) THEN r[i] ELSE b[i - Len(r)]
  BY ConcatProperties
<1>4. DOMAIN (r \o b) = 1 .. Len(r) + Len(b)
  BY <1>2
<1>5. ASSUME NEW k \in 1 .. Len(r) + Len(b)
      PROVE  \/ k \in DOMAIN r /\ (r \o b)[k] = r[k]
             \/ k > Len(r) /\ k - Len(r) \in DOMAIN b /\ (r \o b)[k] = b[k - Len(r)]
  <2>1. CASE k <= Len(r)
    BY <1>1, <1>3, <2>1
  <2>2. CASE k > Len(r)
    BY <1>1, <1>3, <2>2
  <2>3. QED  BY <1>1, <2>1, <2>2
<1>6. QED  BY <1>1, <1>4, <1>5

LEMMA OrderWhole ==
  ASSUME NEW D, NEW r \in Seq(Message), NEW b \in Seq(Message), InOrder(D, r, b),
         NEW i \in DOMAIN (r \o b), NEW k \in DOMAIN (r \o b), i < k
  PROVE  MayFollow(D, (r \o b)[i], (r \o b)[k])
<1>1. /\ Len(r) \in Nat /\ i \in Nat /\ k \in Nat /\ DOMAIN r = 1 .. Len(r)
      /\ \/ i \in DOMAIN r /\ (r \o b)[i] = r[i]
         \/ i > Len(r) /\ i - Len(r) \in DOMAIN b /\ (r \o b)[i] = b[i - Len(r)]
      /\ \/ k \in DOMAIN r /\ (r \o b)[k] = r[k]
         \/ k > Len(r) /\ k - Len(r) \in DOMAIN b /\ (r \o b)[k] = b[k - Len(r)]
  BY SentSplits
<1>2. i > Len(r) => k > Len(r) /\ i - Len(r) < k - Len(r)
  BY <1>1
<1>3. i > Len(r) => i \notin DOMAIN r /\ k \notin DOMAIN r
  BY <1>1, <1>2
<1>4. QED  BY <1>1, <1>2, <1>3 DEF InOrder, Ordered

\* A message that is new to a connection.
LEMMA SentToStep ==
  ASSUME IInv, [Next]_vars, NEW c \in Conns, NEW a, SentTo(c, a)'
  PROVE  \/ SentTo(c, a)
         \/ SendToTarget /\ a = ToUser(task.entry)
         \/ Fanout /\ a = job.message
<1>1. buffer[c] \in Seq(Message) /\ received[c] \in Seq(Message)
  BY DEF IInv, TypeOK, HubTypeOK
<1>2. Holds(received'[c], a) \/ Holds(buffer'[c], a)
  BY DEF SentTo, Holds
<1>3. ASSUME NEW m, Sends(c, m) PROVE SentTo(c, a) \/ a = m
  BY <1>1, <1>2, <1>3, HoldsAppend DEF Sends, SentTo
<1>4. CASE /\ buffer[c] # <<>> /\ buffer'[c] = Tail(buffer[c])
           /\ \/ received'[c] = Append(received[c], Head(buffer[c]))
              \/ received'[c] = received[c]
  <2>1. Head(buffer[c]) \in Message
    BY <1>1, <1>4, TailMessage
  <2>2. Holds(buffer[c], a) <=> Holds(buffer'[c], a) \/ a = Head(buffer[c])
    BY <1>1, <1>4, HoldsTail
  <2>3. CASE received'[c] = received[c]
    BY <1>2, <2>2, <2>3 DEF SentTo
  <2>4. CASE received'[c] = Append(received[c], Head(buffer[c]))
    <3>1. Holds(received'[c], a) <=> Holds(received[c], a) \/ a = Head(buffer[c])
      BY <1>1, <2>1, <2>4, HoldsAppend
    <3>2. QED  BY <1>2, <2>2, <3>1 DEF SentTo
  <2>5. QED  BY <1>4, <2>3, <2>4
<1>5. CASE buffer'[c] = <<>> /\ received'[c] = received[c]
  BY <1>2, <1>5 DEF SentTo, Holds
<1>6. QED  BY <1>2, <1>3, <1>4, <1>5, Transfers DEF SentTo

\* An entry that waits without a fault has waited before, or is new.
LEMMA WaitingStep ==
  ASSUME IInv, Batch, [Next]_vars, NEW e \in Entries, Waiting(e)'
  PROVE  Waiting(e) \/ (Read /\ e > lastRead)
<1> lastRead \in Nat
  BY DEF IInv, TypeOK
<1>1. CASE UNCHANGED <<lastRead, acked, queue, task, deferred>>
  BY <1>1 DEF Waiting, Current
<1>2. CASE Claim
  <2>1. /\ queue = {} /\ task = NoTask /\ queue' \subseteq (1 .. lastRead) \ acked
        /\ UNCHANGED <<task, deferred>>
    BY <1>2 DEF Claim
  <2>2. QED  BY <2>1 DEF Waiting, Current, Batch
<1>3. CASE Read
  BY <1>3, HubEntries DEF Read, Waiting, Current
<1>4. ASSUME NEW f \in Entries, Starts(f), UNCHANGED deferred PROVE Waiting(e)
  BY <1>4, StartTask DEF IInv, Starts, Waiting, Current
<1>5. CASE Advances
  BY <1>5 DEF Advances, Waiting, Current
<1>6. CASE ReadLost \/ Ack \/ AckFails \/ Crash
  BY <1>6 DEF ReadLost, Ack, AckFails, Crash, Waiting, Current
<1>7. QED  BY <1>1, <1>2, <1>3, <1>4, <1>5, <1>6, WorkerCases

\* The messages sent since the step before, and the broadcast in Hub.Run.
LEMMA UpToStep ==
  ASSUME IInv, Batch, UpTo, [Next]_vars
  PROVE  UpTo'
<1> /\ lastRead \in Nat /\ lastRead' \in Nat /\ lastRead <= lastRead'
    /\ deferred \subseteq deferred'
    /\ \A e \in Entries : e \in Nat
  <2>1. lastRead \in Nat /\ \A e \in Entries : e \in Nat
    BY HubEntries DEF IInv, TypeOK, Entries
  <2>2. QED  BY <2>1, HubEntries, WorkerCases DEF Claim, Read, ReadLost, Advances, Ack, AckFails, Crash
<1> HubTypeOK /\ (Has("broadcast") => job.message \in Message)
  BY DEF IInv, TypeOK, HubTypeOK, Has, Job
<1>1. ASSUME task # NoTask
      PROVE  /\ task.entry \in Entries /\ task.entry <= lastRead
             /\ \A e \in Entries : Waiting(e) => task.entry <= e
             /\ task.entry \notin deferred => Waiting(task.entry)
  BY <1>1, TaskTyped DEF IInv, Batch, Waiting, Current
<1>2. ASSUME Broadcast
      PROVE  /\ task # NoTask /\ job'.message.to = "all" /\ job'.message.entry = task.entry
             /\ UNCHANGED deferred
  <2>1. task # NoTask /\ job'.message = ToAll(task.entry) /\ UNCHANGED deferred
    BY <1>2, BroadcastTaken DEF Broadcast
  <2>2. QED  BY <2>1 DEF ToAll
<1>3. Has("broadcast")' => \/ Has("broadcast") /\ job' = job
                           \/ Broadcast
  BY JobCases DEF Has, TakeRegister, TakeUnregister, Take
<1>4. ASSUME NEW e \in Entries, Waiting(e)', NEW x \in Nat, x <= lastRead,
             \A f \in Entries : Waiting(f) => x <= f
      PROVE  x <= e
  BY <1>4, WaitingStep
<1>5. ASSUME NEW c \in Conns, NEW a \in Message, SentTo(c, a)'
      PROVE  /\ a.entry <= lastRead'
             /\ \A e \in Entries : Waiting(e)' => a.entry <= e
             /\ Has("broadcast")' /\ a.to = "all" /\ job'.message.entry \notin deferred' =>
                  a.entry <= job'.message.entry
  <2>1. a.entry \in Entries /\ a.entry \in Nat
    BY DEF Message
  <2>2. CASE SentTo(c, a)
    <3>1. /\ a.entry <= lastRead
          /\ \A e \in Entries : Waiting(e) => a.entry <= e
          /\ Has("broadcast") /\ a.to = "all" /\ job.message.entry \notin deferred =>
                a.entry <= job.message.entry
      BY <2>2 DEF UpTo
    <3>2. \A e \in Entries : Waiting(e)' => a.entry <= e
      BY <1>4, <2>1, <3>1
    <3>3. ASSUME Broadcast, job'.message.entry \notin deferred'
          PROVE  a.entry <= job'.message.entry
      BY <1>1, <1>2, <3>1, <3>3
    <3>4. QED  BY <1>3, <2>1, <3>1, <3>2, <3>3
  <2>3. CASE SendToTarget /\ a = ToUser(task.entry)
    <3>1. task # NoTask /\ a.entry = task.entry /\ a.to = "user"
      BY <2>3 DEF SendToTarget, At, ToUser
    <3>2. \A e \in Entries : Waiting(e)' => a.entry <= e
      BY <1>1, <1>4, <2>1, <3>1
    <3>3. QED  BY <1>1, <2>1, <3>1, <3>2
  <2>4. CASE Fanout /\ a = job.message
    <3>1. Has("broadcast") /\ ~Has("broadcast")'
      BY <2>4 DEF Fanout, Has
    <3>2. /\ a.entry <= lastRead
          /\ \A e \in Entries : Waiting(e) => a.entry <= e
      BY <2>4, <3>1 DEF UpTo
    <3>3. \A e \in Entries : Waiting(e)' => a.entry <= e
      BY <1>4, <2>1, <3>2
    <3>4. QED  BY <2>1, <3>1, <3>2, <3>3
  <2>5. QED  BY <1>5, <2>2, <2>3, <2>4, SentToStep
<1>6. ASSUME Has("broadcast")'
      PROVE  /\ job'.message.to = "all" /\ job'.message.entry <= lastRead'
             /\ \A e \in Entries : Waiting(e)' => job'.message.entry <= e
  <2>1. CASE Has("broadcast") /\ job' = job
    <3>1. /\ job.message.to = "all" /\ job.message.entry <= lastRead
          /\ \A e \in Entries : Waiting(e) => job.message.entry <= e
          /\ job.message.entry \in Nat
      BY <2>1 DEF UpTo, Message
    <3>2. QED  BY <1>4, <2>1, <3>1
  <2>2. CASE Broadcast
    <3>1. \A e \in Entries : Waiting(e)' => task.entry <= e
      BY <1>1, <1>2, <1>4, <2>2
    <3>2. QED  BY <1>1, <1>2, <2>2, <3>1
  <2>3. QED  BY <1>3, <1>6, <2>1, <2>2
<1>7. QED  BY <1>5, <1>6 DEF UpTo

LEMMA OrderStep ==
  ASSUME IInv, Batch, OrderInv, [Next]_vars
  PROVE  OrderInv'
<1>1. UpTo'
  BY UpToStep DEF OrderInv
<1>2. ASSUME NEW c \in Conns PROVE InOrder(deferred', received'[c], buffer'[c])
  <2>1. /\ buffer[c] \in Seq(Message) /\ received[c] \in Seq(Message)
        /\ InOrder(deferred, received[c], buffer[c])
    BY DEF IInv, TypeOK, HubTypeOK, OrderInv
  <2>2. deferred \subseteq deferred'
    BY WorkerCases DEF Claim, Read, ReadLost, Advances, Ack, AckFails, Crash
  <2>3. ASSUME NEW m, Sends(c, m), \A a : SentTo(c, a) => MayFollow(deferred, a, m)
        PROVE  InOrder(deferred, received'[c], buffer'[c])
    BY <2>1, <2>3, OrderSend DEF Sends, SentTo
  <2>4. \A a : SentTo(c, a) => a \in Message
    BY <2>1 DEF SentTo, Holds
  <2>5. CASE SendToTarget /\ Sends(c, ToUser(task.entry))
    <3>1. task # NoTask /\ task.entry \in Entries
      BY <2>5, TaskTyped DEF IInv, SendToTarget, At
    <3>2. task.entry \notin deferred => Waiting(task.entry)
      BY <3>1 DEF Waiting, Current
    <3>3. \A a : SentTo(c, a) => MayFollow(deferred, a, ToUser(task.entry))
      BY <2>4, <3>1, <3>2 DEF OrderInv, UpTo, MayFollow, ToUser
    <3>4. QED  BY <2>1, <2>2, <2>3, <2>5, <3>3, OrderGrows
  <2>6. CASE Fanout /\ Sends(c, job.message)
    <3>1. Has("broadcast") /\ job.message \in Message /\ job.message.to = "all"
      BY <2>6 DEF Fanout, Sends, OrderInv, UpTo
    <3>2. ASSUME NEW a, SentTo(c, a) PROVE MayFollow(deferred, a, job.message)
      <4>1. a.to = "user" \/ a.to = "all"
        BY <2>4, <3>2 DEF Message
      <4>2. QED  BY <2>4, <3>1, <3>2, <4>1 DEF OrderInv, UpTo, MayFollow
    <3>3. QED  BY <2>1, <2>2, <2>3, <2>6, <3>2, OrderGrows
  <2>7. CASE /\ buffer[c] # <<>> /\ buffer'[c] = Tail(buffer[c])
             /\ \/ received'[c] = Append(received[c], Head(buffer[c]))
                \/ received'[c] = received[c]
    <3>1. InOrder(deferred, received'[c], buffer'[c])
      BY <2>1, <2>7, OrderTail
    <3>2. QED  BY <2>2, <3>1, OrderGrows
  <2>8. CASE buffer'[c] = <<>> /\ received'[c] = received[c]
    <3>1. InOrder(deferred, received'[c], buffer'[c])
      BY <2>1, <2>8 DEF InOrder, Ordered
    <3>2. QED  BY <2>2, <3>1, OrderGrows
  <2>9. CASE buffer'[c] = buffer[c] /\ received'[c] = received[c]
    BY <2>1, <2>2, <2>9, OrderGrows
  <2>10. QED  BY <2>5, <2>6, <2>7, <2>8, <2>9, Transfers
<1>3. QED  BY <1>1, <1>2 DEF OrderInv

-----------------------------------------------------------------------------
(* How often something is in a sequence. *)

LEMMA OccType ==
  ASSUME NEW S, NEW s \in Seq(S), NEW x
  PROVE  Occ(s, x) \in Nat /\ IsFiniteSet({k \in DOMAIN s : s[k] = x})
<1>1. DOMAIN s = 1 .. Len(s) /\ Len(s) \in Nat
  OBVIOUS
<1>2. IsFiniteSet(1 .. Len(s))
  BY <1>1, FS_Interval
<1>3. {k \in DOMAIN s : s[k] = x} \in SUBSET (1 .. Len(s))
  BY <1>1
<1>4. IsFiniteSet({k \in DOMAIN s : s[k] = x})
  BY <1>2, <1>3, FS_Subset
<1>5. QED  BY <1>4, FS_CardinalityType DEF Occ

LEMMA OccEmpty == \A x : Occ(<<>>, x) = 0
<1>1. \A x : {k \in DOMAIN <<>> : <<>>[k] = x} = {}
  OBVIOUS
<1>2. QED  BY <1>1, FS_EmptySet DEF Occ

LEMMA OccSingle ==
  ASSUME NEW y, NEW x
  PROVE  Occ(<<y>>, x) = IF x = y THEN 1 ELSE 0
<1>1. DOMAIN <<y>> = {1} /\ <<y>>[1] = y
  OBVIOUS
<1>2. {k \in DOMAIN <<y>> : <<y>>[k] = x} = IF x = y THEN {1} ELSE {}
  BY <1>1
<1>3. QED  BY <1>2, FS_EmptySet, FS_Singleton DEF Occ

LEMMA OccConcat ==
  ASSUME NEW S, NEW r \in Seq(S), NEW b \in Seq(S), NEW x
  PROVE  Occ(r \o b, x) = Occ(r, x) + Occ(b, x)
<1> DEFINE R == {k \in DOMAIN r : r[k] = x}
           B == {k \in DOMAIN b : b[k] = x}
           M == {k \in DOMAIN (r \o b) : k > Len(r) /\ (r \o b)[k] = x}
<1>1. /\ Len(r) \in Nat /\ Len(b) \in Nat
      /\ DOMAIN (r \o b) = 1 .. Len(r) + Len(b)
      /\ DOMAIN r = 1 .. Len(r) /\ DOMAIN b = 1 .. Len(b)
  BY SentSplits
<1>2. \A k \in 1 .. Len(r) : k \in DOMAIN (r \o b) /\ (r \o b)[k] = r[k]
  BY <1>1, SentSplits
<1>3. \A k \in 1 .. Len(b) :
        k + Len(r) \in DOMAIN (r \o b) /\ k + Len(r) > Len(r) /\ (r \o b)[k + Len(r)] = b[k]
  <2> SUFFICES ASSUME NEW k \in 1 .. Len(b)
               PROVE  /\ k + Len(r) \in DOMAIN (r \o b) /\ k + Len(r) > Len(r)
                      /\ (r \o b)[k + Len(r)] = b[k]
    OBVIOUS
  <2>1. k + Len(r) \in 1 .. Len(r) + Len(b) /\ k + Len(r) > Len(r)
        /\ (k + Len(r)) - Len(r) = k /\ k + Len(r) \notin DOMAIN r
    BY <1>1
  <2>2. (r \o b)[k + Len(r)] = b[(k + Len(r)) - Len(r)]
    BY <2>1, SentSplits
  <2>3. QED  BY <1>1, <2>1, <2>2
<1>4. {k \in DOMAIN (r \o b) : (r \o b)[k] = x} = R \cup M
  BY <1>1, <1>2
<1>5. R \cap M = {}
  BY <1>1
<1>6. IsFiniteSet(R) /\ IsFiniteSet(B)
  BY OccType
<1> DEFINE f == [k \in B |-> k + Len(r)]
<1>7. f \in Bijection(B, M)
  <2>1. f \in [B -> M]
    BY <1>1, <1>3
  <2>2. \A i, k \in B : f[i] = f[k] => i = k
    BY <1>1
  <2>3. ASSUME NEW m \in M PROVE \E k \in B : f[k] = m
    <3>1. m - Len(r) \in DOMAIN b /\ (r \o b)[m] = b[m - Len(r)]
      BY <1>1, SentSplits
    <3>2. m - Len(r) \in B /\ (m - Len(r)) + Len(r) = m
      BY <1>1, <3>1
    <3>3. QED  BY <3>2
  <2> HIDE DEF f, B, M
  <2>4. f \in Injection(B, M)
    BY <2>1, <2>2 DEF Injection, IsInjective
  <2>5. f \in Surjection(B, M)
    BY <2>1, <2>3 DEF Surjection
  <2>6. QED  BY <2>4, <2>5 DEF Bijection
<1> HIDE DEF f, R, B, M
<1>8. IsFiniteSet(M) /\ Cardinality(M) = Cardinality(B)
  BY <1>6, <1>7, FS_Bijection DEF ExistsBijection
<1>9. Cardinality(R \cup M) = Cardinality(R) + Cardinality(B)
  <2>1. Cardinality(R \cup M) = Cardinality(R) + Cardinality(M) - Cardinality(R \cap M)
    BY <1>6, <1>8, FS_Union
  <2>2. Cardinality(R) \in Nat /\ Cardinality(M) \in Nat /\ Cardinality(R \cap M) = 0
    BY <1>5, <1>6, <1>8, FS_CardinalityType, FS_EmptySet
  <2>3. QED  BY <1>8, <2>1, <2>2
<1>10. QED  BY <1>4, <1>9 DEF Occ, R, B

LEMMA OccAppend ==
  ASSUME NEW S, NEW s \in Seq(S), NEW y \in S, NEW x
  PROVE  Occ(Append(s, y), x) = Occ(s, x) + (IF x = y THEN 1 ELSE 0)
<1>1. Append(s, y) = s \o <<y>> /\ <<y>> \in Seq(S)
  BY AppendIsConcat
<1>2. Occ(s \o <<y>>, x) = Occ(s, x) + Occ(<<y>>, x)
  BY <1>1, OccConcat
<1>3. QED  BY <1>1, <1>2, OccSingle

LEMMA OccTail ==
  ASSUME NEW S, NEW s \in Seq(S), s # <<>>, NEW x
  PROVE  Occ(s, x) = Occ(Tail(s), x) + (IF x = Head(s) THEN 1 ELSE 0)
<1> DEFINE h == <<Head(s)>>
           l == Tail(s)
<1>1. /\ l \in Seq(S) /\ h \in Seq(S)
      /\ s = h \o l
  OBVIOUS
<1>2. Occ(h, x) = IF x = Head(s) THEN 1 ELSE 0
  BY OccSingle
<1> HIDE DEF h, l
<1>3. Occ(h \o l, x) = Occ(h, x) + Occ(l, x)
  BY <1>1, OccConcat
<1>4. Occ(s, x) = Occ(h \o l, x)
  BY <1>1
<1>5. Occ(l, x) \in Nat
  BY <1>1, OccType
<1>6. QED  BY <1>2, <1>3, <1>4, <1>5 DEF l

-----------------------------------------------------------------------------
(* The pushes of an entry. *)

LEMMA HeldStep ==
  ASSUME IInv, [Next]_vars, NEW c \in Conns, NEW m \in Message
  PROVE  /\ Held(c, m) \in Nat /\ Held(c, m)' \in Nat
         /\ \/ Held(c, m)' <= Held(c, m)
            \/ /\ Held(c, m)' = Held(c, m) + 1
               /\ \/ /\ SendToTarget /\ UserOf[c] = Head(task.left)
                     /\ m = ToUser(task.entry)
                  \/ Fanout /\ m = job.message
<1>1. /\ received[c] \in Seq(Message) /\ buffer[c] \in Seq(Message)
      /\ received'[c] \in Seq(Message) /\ buffer'[c] \in Seq(Message)
  BY NextInv DEF IInv, TypeOK, HubTypeOK
<1>2. /\ Occ(received[c], m) \in Nat /\ Occ(buffer[c], m) \in Nat
      /\ Occ(received'[c], m) \in Nat /\ Occ(buffer'[c], m) \in Nat
  BY <1>1, OccType
<1>3. Held(c, m)' = Occ(received'[c], m) + Occ(buffer'[c], m)
  BY DEF Held, Occ
<1>4. ASSUME NEW a, Sends(c, a) PROVE Held(c, m)' = Held(c, m) + (IF m = a THEN 1 ELSE 0)
  <2>1. Occ(buffer'[c], m) = Occ(buffer[c], m) + (IF m = a THEN 1 ELSE 0)
    BY <1>1, <1>4, OccAppend DEF Sends
  <2>2. QED  BY <1>2, <1>3, <1>4, <2>1 DEF Held, Sends
<1>5. CASE /\ buffer[c] # <<>> /\ buffer'[c] = Tail(buffer[c])
           /\ \/ received'[c] = Append(received[c], Head(buffer[c]))
              \/ received'[c] = received[c]
  <2>1. Occ(buffer[c], m) = Occ(buffer'[c], m) + (IF m = Head(buffer[c]) THEN 1 ELSE 0)
    BY <1>1, <1>5, OccTail
  <2>2. CASE received'[c] = received[c]
    BY <1>2, <1>3, <2>1, <2>2 DEF Held
  <2>3. CASE received'[c] = Append(received[c], Head(buffer[c]))
    <3>1. Head(buffer[c]) \in Message
      BY <1>1, <1>5, TailMessage
    <3>2. Occ(received'[c], m) = Occ(received[c], m) + (IF m = Head(buffer[c]) THEN 1 ELSE 0)
      BY <1>1, <2>3, <3>1, OccAppend
    <3>3. QED  BY <1>2, <1>3, <2>1, <3>2 DEF Held
  <2>4. QED  BY <1>5, <2>2, <2>3
<1>6. CASE buffer'[c] = <<>> /\ received'[c] = received[c]
  BY <1>2, <1>3, <1>6, OccEmpty DEF Held
<1>7. CASE buffer'[c] = buffer[c] /\ received'[c] = received[c]
  BY <1>2, <1>3, <1>7 DEF Held
<1>8. Held(c, m) \in Nat /\ Held(c, m)' \in Nat
  BY <1>2, <1>3 DEF Held
<1>9. QED  BY <1>4, <1>5, <1>6, <1>7, <1>8, Transfers

\* An insert that does not report a duplicate.
Inserted(e) == Current(e) /\ ((Save /\ e \notin saved) \/ SaveFails)

LEMMA InsertsStep ==
  ASSUME IInv, [Next]_vars, NEW e \in Entries
  PROVE  /\ Inserts(e) \in Nat /\ Inserts(e)' \in Nat /\ Inserts(e) <= Inserts(e)'
         /\ Inserted(e) => Inserts(e) + 1 <= Inserts(e)'
<1>1. unsaved[e] \in Nat /\ unsaved \in [Entries -> Nat]
  BY DEF IInv, TypeOK
<1>2. /\ Inserts(e) = (IF e \in saved THEN 1 ELSE 0) + unsaved[e]
      /\ Inserts(e)' = (IF e \in saved' THEN 1 ELSE 0) + unsaved'[e]
  BY DEF Inserts
<1>3. CASE Save
  BY <1>1, <1>2, <1>3 DEF Save, Inserted, SaveFails, Current
<1>4. CASE SaveFails
  <2>1. task.entry \in Entries
    BY <1>4, TaskTyped DEF IInv, SaveFails, At
  <2>2. saved \subseteq saved' /\ unsaved' = [unsaved EXCEPT ![task.entry] = @ + 1]
    BY <1>4 DEF SaveFails
  <2>3. unsaved'[e] = IF e = task.entry THEN unsaved[e] + 1 ELSE unsaved[e]
    BY <1>1, <2>1, <2>2
  <2>4. Inserted(e) => e = task.entry
    BY DEF Inserted, Current
  <2>5. CASE e = task.entry
    BY <1>1, <1>2, <2>2, <2>3, <2>5
  <2>6. CASE e # task.entry
    BY <1>1, <1>2, <2>2, <2>3, <2>4, <2>6
  <2>7. QED  BY <2>5, <2>6
<1>5. CASE ~Save /\ ~SaveFails
  <2>1. UNCHANGED <<saved, unsaved>>
    BY <1>5, StepCases DEF workerVars, Claim, Read, ReadLost, Count, CountFails, CountRepeated, Push, SendToTarget,
       Broadcast, Overlook, Bury, BuryFails, Ack, AckFails, Crash
  <2>2. QED  BY <1>1, <1>2, <1>5, <2>1 DEF Inserted
<1>6. QED  BY <1>3, <1>4, <1>5

\* The worker pushes only what it has inserted.
LEMMA PushesStep ==
  ASSUME IInv, [Next]_vars, NEW e \in Entries, Pushes(e)'
  PROVE  (Pushes(e) /\ ~Broadcast) \/ Inserted(e)
<1>1. CASE UNCHANGED workerVars
  <2>1. Broadcast => task'.step = "ack"
    BY PushAdvances DEF Push
  <2>2. QED  BY <1>1, <2>1 DEF workerVars, Pushes, Current
<1>2. CASE Push
  <2>1. Advances /\ Current(e)
    BY <1>2, PushAdvances DEF Advances, Pushes, Current
  <2>2. task'.step \in {"users", "broadcast"}
    BY DEF Pushes
  <2>3. Save => Inserted(e)
    BY <1>2, <2>1, <2>2, PushAdvances DEF Inserted, Current
  <2>4. SaveFails => Inserted(e)
    BY <2>1 DEF Inserted
  <2>5. SendToTarget => Pushes(e) /\ ~Broadcast
    BY <1>2, <2>1, <2>2, PushAdvances DEF Pushes
  <2>6. QED  BY <1>2, <2>2, <2>3, <2>4, <2>5, PushAdvances DEF Push
<1>3. CASE Claim \/ Read \/ ReadLost \/ Ack \/ AckFails \/ Crash
  BY <1>3 DEF Claim, Read, ReadLost, Ack, AckFails, Crash, Pushes, Current
<1>4. ASSUME NEW f \in Entries, Count(f) \/ CountFails(f) PROVE FALSE
  <2>1. retry[f] + 1 \in Nat /\ 0 \in Nat
    BY DEF IInv, TypeOK
  <2>2. task'.step = IF f \in Malformed THEN "inspect" ELSE "save"
    BY <1>4, <2>1, StartTask DEF Count, CountFails, IInv
  <2>3. QED  BY <2>2 DEF Pushes
<1>5. CASE \E f \in Entries : CountRepeated(f)
  BY <1>5 DEF CountRepeated, IsNext, Pushes, Current
<1>6. QED  BY <1>1, <1>2, <1>3, <1>4, <1>5, StepCases

\* The first half of the budget: the broadcasts.
LEMMA BroadcastBudget ==
  ASSUME IInv, UpTo, [Next]_vars, NEW c \in Conns, NEW e \in Entries,
         Held(c, ToAll(e)) + Underway(e) <= Inserts(e)
  PROVE  (Held(c, ToAll(e)) + Underway(e) <= Inserts(e))'
<1> DEFINE held  == Held(c, ToAll(e))
           heldP == Held(c, ToAll(e))'
           ins   == Inserts(e)
           insP  == Inserts(e)'
<1>1. ToAll(e) \in Message /\ ToAll(e).entry = e /\ ToAll(e).to = "all"
  BY DEF Message, ToAll
<1>2. /\ held \in Nat /\ heldP \in Nat
      /\ heldP <= held \/ (heldP = held + 1 /\ Fanout /\ ToAll(e) = job.message)
  BY <1>1, HeldStep DEF ToUser
<1>3. ins \in Nat /\ insP \in Nat /\ ins <= insP /\ (Inserted(e) => ins + 1 <= insP)
  BY InsertsStep
<1>4. Pushes(e)' => (Pushes(e) /\ ~Broadcast) \/ Inserted(e)
  BY PushesStep
<1> HIDE DEF held, heldP, ins, insP
<1>5. CASE Fanout
  <2>1. InHub(e)' = FALSE /\ (heldP # held => heldP <= held \/ InHub(e))
    BY <1>1, <1>2, <1>5 DEF Fanout, InHub, Has
  <2>2. UNCHANGED workerVars
    <3>1. ~Broadcast /\ ~SendToTarget /\ ~Crash /\ ~(Quiet /\ UNCHANGED hubVars)
      <4>1. job # NoJob /\ job' = NoJob
        BY <1>5 DEF Fanout, Has
      <4>2. Len(broadcasts') # Len(broadcasts)
        BY <1>5 DEF Fanout, IInv, TypeOK, HubTypeOK, Has, Job
      <4>3. QED  BY <4>1, <4>2 DEF Broadcast, TakeBroadcast, Take, SendToTarget, SendToUser,
                 Crash, HubLost, hubVars
    <3>2. QED  BY <3>1, NextCases DEF vars
  <2>3. Pushes(e)' = Pushes(e)
    BY <2>2 DEF workerVars, Pushes, Current
  <2>4. Underway(e) = (IF Pushes(e) THEN 1 ELSE 0) + (IF InHub(e) THEN 1 ELSE 0)
        /\ Underway(e)' = (IF Pushes(e) THEN 1 ELSE 0)
    BY <2>1, <2>3 DEF Underway
  <2>5. heldP + Underway(e)' <= insP
    BY <1>2, <1>3, <2>1, <2>4 DEF held, ins
  <2>6. QED  BY <2>5 DEF heldP, insP
<1>6. CASE ~Fanout
  <2>1. heldP <= held
    BY <1>2, <1>6
  <2>2. Underway(e)' <= Underway(e) \/ (Underway(e)' <= Underway(e) + 1 /\ Inserted(e))
    <3>1. CASE Broadcast
      <4>1. /\ job = NoJob /\ task # NoTask /\ task.step = "broadcast"
            /\ job'.message = ToAll(task.entry)
        BY <3>1, BroadcastTaken
      <4>2. ~Inserted(e)
        BY <4>1 DEF Inserted, Save, SaveFails, At
      <4>3. ~InHub(e) /\ ~Pushes(e)' /\ (InHub(e)' => Pushes(e))
        BY <1>4, <3>1, <4>1, <4>2 DEF InHub, Has, ToAll, Pushes, Current
      <4>4. QED  BY <4>3 DEF Underway
    <3>2. CASE ~Broadcast
      <4>1. InHub(e)' => InHub(e)
        BY <1>6, <3>2, JobCases DEF InHub, Has, TakeRegister, TakeUnregister, Take
      <4>2. QED  BY <1>4, <4>1 DEF Underway
    <3>3. QED  BY <3>1, <3>2
  <2>3. Underway(e) \in Nat /\ Underway(e)' \in Nat
    BY DEF Underway
  <2>4. heldP + Underway(e)' <= insP
    BY <1>2, <1>3, <2>1, <2>2, <2>3 DEF held, ins
  <2>5. QED  BY <2>4 DEF heldP, insP
<1>7. QED  BY <1>5, <1>6

LEMMA Product ==
  ASSUME NEW n \in Nat, NEW i \in Nat, NEW k \in Nat
  PROVE  /\ n * i \in Nat /\ n * (i + 1) = n * i + n
         /\ i <= k => n * i <= n * k
<1>1. n * i \in Nat /\ n * (i + 1) = n * i + n
  OBVIOUS
<1>2. ASSUME i <= k PROVE n * i <= n * k
  <2>1. k - i \in Nat /\ k = i + (k - i)
    BY <1>2
  <2>2. n * k = n * i + n * (k - i) /\ n * (k - i) \in Nat
    BY <2>1
  <2>3. QED  BY <1>1, <2>2
<1>3. QED  BY <1>1, <1>2

\* What the worker has still to send to the user of a connection.
LEMMA StillNamedStep ==
  ASSUME IInv, Pushing, [Next]_vars, NEW c \in Conns, NEW e \in Entries
  PROVE  /\ StillNamed(c, e) \in Nat /\ StillNamed(c, e)' \in Nat
         /\ Occ(Targets[e], UserOf[c]) \in Nat
         /\ \/ StillNamed(c, e)' <= StillNamed(c, e)
            \/ Inserted(e) /\ StillNamed(c, e)' = Occ(Targets[e], UserOf[c])
         /\ SendToTarget /\ Current(e) /\ UserOf[c] = Head(task.left) =>
              StillNamed(c, e)' + 1 <= StillNamed(c, e)
<1> TypeOK /\ TypeOK' /\ (At("users") => task.left # <<>>)
  BY NextInv DEF IInv
<1>1. ASSUME NEW l \in Seq(Users) PROVE Occ(l, UserOf[c]) \in Nat
  BY OccType
<1>2. StillNamed(c, e) \in Nat
  BY <1>1 DEF StillNamed, Current, TypeOK, Task
<1>3. StillNamed(c, e)' = IF Current(e)' /\ task'.step = "users" THEN Occ(task'.left, UserOf[c])
                          ELSE 0
  BY DEF StillNamed, Occ
<1>4. StillNamed(c, e)' \in Nat
  BY <1>1, <1>3 DEF Current, TypeOK, Task
<1>5. Occ(Targets[e], UserOf[c]) \in Nat
  BY <1>1, TargetsType
<1>6. CASE SendToTarget
  <2>1. /\ Advances /\ task.step = "users" /\ task'.left = Tail(task.left)
        /\ task.left \in Seq(Users) /\ task.left # <<>>
    BY <1>6, PushAdvances DEF Push, Advances, SendToTarget, At, Task
  <2>2. Current(e)' <=> Current(e)
    BY <2>1 DEF Advances, Current
  <2>3. CASE Current(e)
    <3>1. Occ(task.left, UserOf[c])
            = Occ(task'.left, UserOf[c]) + (IF UserOf[c] = Head(task.left) THEN 1 ELSE 0)
      BY <2>1, OccTail
    <3>2. Occ(task'.left, UserOf[c]) \in Nat
      <4>1. Tail(task.left) \in Seq(Users)
        BY <2>1
      <4>2. QED  BY <1>1, <2>1, <4>1
    <3>3. StillNamed(c, e) = Occ(task.left, UserOf[c])
      BY <2>1, <2>3 DEF StillNamed
    <3>4. StillNamed(c, e)' <= Occ(task'.left, UserOf[c])
      BY <1>3, <3>2
    <3>5. QED  BY <1>2, <1>4, <1>5, <3>1, <3>2, <3>3, <3>4
  <2>4. CASE ~Current(e)
    BY <1>2, <1>3, <1>4, <1>5, <2>2, <2>4 DEF StillNamed
  <2>5. QED  BY <2>3, <2>4
<1>7. CASE ~SendToTarget /\ Current(e)' /\ task'.step = "users"
  <2>1. Pushes(e)'
    BY <1>7 DEF Pushes
  <2>2. CASE Inserted(e)
    <3>1. At("save") /\ Push /\ e = task.entry
      BY <2>2 DEF Inserted, Push, Save, SaveFails, Current
    <3>2. task'.left = Targets[e]
      BY <2>2, <3>1, PushAdvances DEF Pushing, Inserted
    <3>3. QED  BY <1>2, <1>3, <1>4, <1>5, <1>7, <2>2, <3>2
  <2>3. CASE ~Inserted(e)
    <3>1. Pushes(e) /\ ~Broadcast
      BY <2>1, <2>3, PushesStep
    <3>2. UNCHANGED task
      <4>1. task # NoTask /\ task.step \in {"users", "broadcast"} /\ task' # NoTask
        BY <1>7, <3>1 DEF Pushes, Current
      <4>2. ~Push
        BY <1>7, <3>1, <4>1 DEF Push, Save, SaveFails, Overlook, Bury, BuryFails, At
      <4>3. ~Claim /\ ~Read /\ ~ReadLost /\ ~Ack /\ ~AckFails /\ ~Crash
            /\ \A f \in Entries : ~Count(f) /\ ~CountFails(f) /\ ~CountRepeated(f)
        BY <4>1 DEF Claim, Read, ReadLost, Ack, AckFails, Crash, Count, CountFails,
           CountRepeated, Start, IsNext, At
      <4>4. QED  BY <4>2, <4>3, StepCases DEF workerVars
    <3>3. StillNamed(c, e)' = StillNamed(c, e)
      BY <3>2 DEF StillNamed, Current
    <3>4. QED  BY <1>2, <1>4, <1>5, <1>7, <3>3
  <2>4. QED  BY <2>2, <2>3
<1>8. CASE ~SendToTarget /\ ~(Current(e)' /\ task'.step = "users")
  BY <1>2, <1>3, <1>4, <1>5, <1>8
<1>9. QED  BY <1>6, <1>7, <1>8

\* The second half of the budget: the targeted messages.
LEMMA TargetedBudget ==
  ASSUME IInv, Pushing, UpTo, [Next]_vars, NEW c \in Conns, NEW e \in Entries,
         Held(c, ToUser(e)) + StillNamed(c, e) <= Occ(Targets[e], UserOf[c]) * Inserts(e)
  PROVE  (Held(c, ToUser(e)) + StillNamed(c, e) <= Occ(Targets[e], UserOf[c]) * Inserts(e))'
<1> DEFINE held  == Held(c, ToUser(e))
           heldP == Held(c, ToUser(e))'
           still  == StillNamed(c, e)
           stillP == StillNamed(c, e)'
           ins   == Inserts(e)
           insP  == Inserts(e)'
           named == Occ(Targets[e], UserOf[c])
<1>1. ToUser(e) \in Message /\ ToUser(e).to = "user" /\ ToUser(e).entry = e
  BY DEF Message, ToUser
<1>2. Fanout => job.message # ToUser(e)
  BY <1>1 DEF Fanout, UpTo
<1>3. SendToTarget /\ ToUser(e) = ToUser(task.entry) => Current(e)
  BY <1>1 DEF SendToTarget, At, Current, ToUser
<1>4. /\ held \in Nat /\ heldP \in Nat
      /\ \/ heldP <= held
         \/ heldP = held + 1 /\ SendToTarget /\ Current(e) /\ UserOf[c] = Head(task.left)
  BY <1>1, <1>2, <1>3, HeldStep
<1>5. /\ still \in Nat /\ stillP \in Nat /\ named \in Nat
      /\ stillP <= still \/ (Inserted(e) /\ stillP = named)
      /\ SendToTarget /\ Current(e) /\ UserOf[c] = Head(task.left) => stillP + 1 <= still
  BY StillNamedStep
<1>6. ins \in Nat /\ insP \in Nat /\ ins <= insP /\ (Inserted(e) => ins + 1 <= insP)
  BY InsertsStep
<1>7. Inserted(e) => ~SendToTarget
  BY DEF Inserted, Save, SaveFails, SendToTarget, At
<1>8. held + still <= named * ins
  OBVIOUS
<1> HIDE DEF held, heldP, still, stillP, ins, insP, named
<1>9. /\ named * ins \in Nat /\ named * insP \in Nat
      /\ named * (ins + 1) = named * ins + named
      /\ named * ins <= named * insP
      /\ Inserted(e) => named * (ins + 1) <= named * insP
  <2>1. ins + 1 \in Nat
    BY <1>6
  <2>2. QED  BY <1>5, <1>6, <2>1, Product
<1>10. heldP + stillP <= named * insP
  <2> DEFINE a == named * ins
             b == named * insP
  <2>1. a \in Nat /\ b \in Nat /\ a <= b /\ (Inserted(e) => a + named <= b)
    BY <1>9
  <2>2. held + still <= a
    BY <1>8
  <2> HIDE DEF a, b
  <2>3. heldP + stillP <= b
    BY <1>4, <1>5, <1>7, <2>1, <2>2
  <2>4. QED  BY <2>3 DEF b
<1>11. QED  BY <1>10 DEF heldP, stillP, insP, named, Occ

LEMMA BudgetStep ==
  ASSUME IInv, Pushing, UpTo, Budget, [Next]_vars
  PROVE  Budget'
<1>1. ASSUME NEW c \in Conns, NEW e \in Entries
      PROVE  /\ (Held(c, ToAll(e)) + Underway(e) <= Inserts(e))'
             /\ (Held(c, ToUser(e)) + StillNamed(c, e)
                   <= Occ(Targets[e], UserOf[c]) * Inserts(e))'
  <2>1. /\ Held(c, ToAll(e)) + Underway(e) <= Inserts(e)
        /\ Held(c, ToUser(e)) + StillNamed(c, e) <= Occ(Targets[e], UserOf[c]) * Inserts(e)
    BY DEF Budget
  <2>2. QED  BY <2>1, BroadcastBudget, TargetedBudget
<1>2. QED  BY <1>1 DEF Budget

-----------------------------------------------------------------------------
(* The theorems. *)

Delivery ==
  /\ IInv /\ Batch /\ Pushing /\ Handed /\ Counted /\ Gapless /\ OrderInv /\ Budget

LEMMA DeliveryInit == Init => Delivery
<1> SUFFICES ASSUME Init PROVE Delivery
  OBVIOUS
<1>1. IInv
  BY InitInv
<1>2. /\ lastRead = 0 /\ acked = {} /\ queue = {} /\ task = NoTask /\ job = NoJob
      /\ retry = [e \in Entries |-> 0] /\ saved = {} /\ faults = 0 /\ clients = {}
      /\ unsaved = [e \in Entries |-> 0] /\ deferred = {}
      /\ buffer = [c \in Conns |-> <<>>] /\ received = [c \in Conns |-> <<>>]
  BY DEF Init, HubInit
<1>3. Batch /\ Pushing /\ Handed /\ Counted /\ Gapless
  BY <1>2 DEF Batch, Pushing, Handed, Counted, Gapless, Known, At, Current
<1>4. OrderInv
  BY <1>2 DEF OrderInv, UpTo, InOrder, Ordered, SentTo, Holds, Has
<1>5. ASSUME NEW c \in Conns, NEW e \in Entries
      PROVE  /\ Held(c, ToAll(e)) + Underway(e) <= Inserts(e)
             /\ Held(c, ToUser(e)) + StillNamed(c, e)
                  <= Occ(Targets[e], UserOf[c]) * Inserts(e)
  <2>1. Held(c, ToAll(e)) = 0 /\ Held(c, ToUser(e)) = 0
    BY <1>2, OccEmpty DEF Held
  <2>2. Underway(e) = 0 /\ StillNamed(c, e) = 0 /\ Inserts(e) = 0
    BY <1>2 DEF Underway, Pushes, InHub, Has, StillNamed, Current, Inserts
  <2>3. Occ(Targets[e], UserOf[c]) \in Nat
    BY TargetsType, OccType
  <2>4. Occ(Targets[e], UserOf[c]) * 0 = 0
    BY <2>3
  <2>5. QED  BY <2>1, <2>2, <2>4
<1>6. Budget
  BY <1>5 DEF Budget
<1>7. QED  BY <1>1, <1>3, <1>4, <1>6 DEF Delivery

LEMMA DeliveryStep == Delivery /\ [Next]_vars => Delivery'
BY NextInv, BatchStep, PushingStep, HandedStep, CountedStep, GaplessStep, OrderStep,
   BudgetStep DEF Delivery, OrderInv

LEMMA DeliveryInvariance == Spec => []Delivery
BY DeliveryInit, DeliveryStep, PTL DEF Spec

\* What is in a browser or in its channel was sent to it.
LEMMA SentWhole ==
  ASSUME NEW r \in Seq(Message), NEW b \in Seq(Message), NEW m, Holds(r, m) \/ Holds(b, m)
  PROVE  Holds(r \o b, m)
<1>1. /\ DOMAIN (r \o b) = 1 .. Len(r) + Len(b) /\ Len(r) \in Nat /\ Len(b) \in Nat
      /\ DOMAIN r = 1 .. Len(r) /\ DOMAIN b = 1 .. Len(b)
  BY SentSplits
<1>2. CASE Holds(r, m)
  <2>1. PICK k \in DOMAIN r : r[k] = m
    BY <1>2 DEF Holds
  <2>2. k \in DOMAIN (r \o b) /\ (r \o b)[k] = r[k]
    BY <1>1, <2>1, SentSplits
  <2>3. QED  BY <2>1, <2>2 DEF Holds
<1>3. CASE Holds(b, m)
  <2>1. PICK k \in DOMAIN b : b[k] = m
    BY <1>3 DEF Holds
  <2>2. k + Len(r) \in DOMAIN (r \o b) /\ k + Len(r) \notin DOMAIN r
        /\ (k + Len(r)) - Len(r) = k
    BY <1>1, <2>1
  <2>3. (r \o b)[k + Len(r)] = b[(k + Len(r)) - Len(r)]
    BY <1>1, <2>2, SentSplits
  <2>4. QED  BY <2>1, <2>2, <2>3 DEF Holds
<1>4. QED  BY <1>2, <1>3

\* A slow client is dropped from the hub rather than served with gaps: a
\* client of the hub has, in its browser or in its channel, every broadcast
\* since Hub.Run enrolled it.
THEOREM NoBroadcastMissed == Spec => []NoGaps
<1>1. Delivery => NoGaps
  <2> SUFFICES ASSUME Delivery, NEW c \in clients, link[c] = "up",
                      NEW i \in since[c] + 1 .. Len(broadcasts)
               PROVE  \E k \in DOMAIN (received[c] \o buffer[c]) :
                        (received[c] \o buffer[c])[k] = broadcasts[i]
    BY DEF NoGaps
  <2>1. received[c] \in Seq(Message) /\ buffer[c] \in Seq(Message)
    BY DEF Delivery, IInv, TypeOK, HubTypeOK
  <2>2. Holds(received[c], broadcasts[i]) \/ Holds(buffer[c], broadcasts[i])
    BY DEF Delivery, Gapless
  <2>3. Holds(received[c] \o buffer[c], broadcasts[i])
    BY <2>1, <2>2, SentWhole
  <2>4. QED  BY <2>3 DEF Holds
<1>2. QED  BY <1>1, DeliveryInvariance, PTL

\* An event for everybody that is acknowledged has been taken by Hub.Run,
\* unless a fault left it pending: the early return for a duplicate key loses
\* no broadcast by itself.
THEOREM PassedOverExplained == Spec => []PassedOverOnlyAfterFault
<1>1. Delivery => PassedOverOnlyAfterFault
  BY DEF Delivery, Handed, Reached, PassedOverOnlyAfterFault
<1>2. QED  BY <1>1, DeliveryInvariance, PTL

\* processWithDLQ quarantines only malformed entries, and each only after
\* MaxRetries - 1 faults: an attempt that fails in handleMessage is
\* acknowledged like any other, so a count beyond the first takes a lost
\* acknowledgement, a crash or an INCR that the client sent again.
THEOREM QuarantineExplained == Spec => []QuarantineNeedsFaults
<1>1. Init => QuarantineNeedsFaults
  BY DEF Init, QuarantineNeedsFaults
<1>2. Delivery /\ QuarantineNeedsFaults /\ [Next]_vars => QuarantineNeedsFaults'
  BY QuarantineStep DEF Delivery
<1>3. QED  BY <1>1, <1>2, DeliveryInvariance, PTL DEF Spec

\* A client sees the events in the order of the stream, but for an entry that
\* a fault left pending and for a targeted message, which SendToUser puts into
\* the channel past the broadcast that Hub.Run holds.
THEOREM OrderKept == Spec => []OnlyTargetedOvertakes
<1>1. Delivery => OnlyTargetedOvertakes
  <2> SUFFICES ASSUME Delivery, NEW c \in Conns,
                      NEW i \in DOMAIN Sent(c), NEW k \in DOMAIN Sent(c), i < k,
                      Sent(c)[i].entry > Sent(c)[k].entry
               PROVE  \/ Sent(c)[k].entry \in deferred
                      \/ Sent(c)[i].to = "user" /\ Sent(c)[k].to = "all"
    BY DEF OnlyTargetedOvertakes
  <2>1. /\ received[c] \in Seq(Message) /\ buffer[c] \in Seq(Message)
        /\ InOrder(deferred, received[c], buffer[c])
    BY DEF Delivery, IInv, TypeOK, HubTypeOK, OrderInv
  <2>2. MayFollow(deferred, Sent(c)[i], Sent(c)[k])
    BY <2>1, OrderWhole DEF Sent
  <2>3. Sent(c)[i].entry \in Nat /\ Sent(c)[k].entry \in Nat
    <3>1. Sent(c) \in Seq(Message)
      BY <2>1, ConcatProperties DEF Sent
    <3>2. Sent(c)[i] \in Message /\ Sent(c)[k] \in Message
      BY <3>1
    <3>3. QED  BY <3>2, HubEntries DEF Message, Entries
  <2>4. QED  BY <2>2, <2>3 DEF MayFollow
<1>2. QED  BY <1>1, DeliveryInvariance, PTL

\* The unique key of notification_history bounds the pushes: an entry that is
\* claimed again is pushed again only for an insert that reported an error,
\* and then once for each key of its payload that names the user.
THEOREM PushesExplained == Spec => []PushedOnce
<1>1. Delivery => PushedOnce
  <2> SUFFICES ASSUME Delivery, NEW c \in Conns, NEW e \in Entries
               PROVE  /\ Times(c, ToAll(e)) <= 1 + unsaved[e]
                      /\ Times(c, ToUser(e)) <= Occ(Targets[e], UserOf[c]) * (1 + unsaved[e])
    BY DEF PushedOnce, ToAll, ToUser, Occ
  <2>1. received[c] \in Seq(Message) /\ buffer[c] \in Seq(Message) /\ unsaved[e] \in Nat
    BY DEF Delivery, IInv, TypeOK, HubTypeOK
  <2>2. \A m : Times(c, m) = Held(c, m) /\ Held(c, m) \in Nat
    <3>1. \A m : Occ(received[c] \o buffer[c], m) = Held(c, m)
      BY <2>1, OccConcat DEF Held
    <3>2. \A m : Occ(received[c], m) \in Nat /\ Occ(buffer[c], m) \in Nat
      BY <2>1, OccType
    <3>3. \A m : Times(c, m) = Occ(received[c] \o buffer[c], m)
      BY DEF Times, Sent, Occ
    <3>4. \A m : Held(c, m) \in Nat
      BY <3>2 DEF Held
    <3>5. QED  BY <3>1, <3>3, <3>4
  <2>3. Inserts(e) \in Nat /\ 1 + unsaved[e] \in Nat /\ Inserts(e) <= 1 + unsaved[e]
    BY <2>1 DEF Inserts
  <2>4. /\ Held(c, ToAll(e)) + Underway(e) <= Inserts(e)
        /\ Held(c, ToUser(e)) + StillNamed(c, e) <= Occ(Targets[e], UserOf[c]) * Inserts(e)
    BY DEF Delivery, Budget
  <2>5. Underway(e) \in Nat
    BY DEF Underway
  <2>6. StillNamed(c, e) \in Nat
    BY OccType DEF StillNamed, Current, Delivery, IInv, TypeOK, Task
  <2>7. Occ(Targets[e], UserOf[c]) \in Nat
    BY TargetsType, OccType
  <2>8. /\ Occ(Targets[e], UserOf[c]) * Inserts(e) \in Nat
        /\ Occ(Targets[e], UserOf[c]) * (1 + unsaved[e]) \in Nat
        /\ Occ(Targets[e], UserOf[c]) * Inserts(e)
             <= Occ(Targets[e], UserOf[c]) * (1 + unsaved[e])
    BY <2>3, <2>7, Product
  <2>9. Times(c, ToAll(e)) <= 1 + unsaved[e]
    BY <2>2, <2>3, <2>4, <2>5
  <2>10. Times(c, ToUser(e)) <= Occ(Targets[e], UserOf[c]) * (1 + unsaved[e])
    BY <2>2, <2>4, <2>6, <2>8
  <2>11. QED  BY <2>9, <2>10
<1>2. QED  BY <1>1, DeliveryInvariance, PTL
=============================================================================
