----------------------- MODULE NotificationWorkerProofs -----------------------
(***************************************************************************)
(* For any number of entries, connections, users and faults, and any       *)
(* capacity of the channels: no goroutine sends on a closed channel, and   *)
(* no client is shown an event that the history does not have, unless the  *)
(* insert reported an error.                                               *)
(***************************************************************************)
EXTENDS NotificationWorker, SequenceTheorems, TLAPS

\* The steps of a connection.
Link(c) ==
  \/ Disconnect(c) \/ TakeRegister(c) \/ TakeUnregister(c) \/ ReadFails(c)
  \/ Write(c) \/ WriteFails(c) \/ WriteEnds(c)

\* The steps of the worker that do not touch the hub.
Quiet ==
  \/ Claim \/ Read \/ ReadLost
  \/ \E e \in Entries : Count(e) \/ CountFails(e) \/ CountRepeated(e)
  \/ Save \/ SaveFails \/ Overlook \/ Bury \/ BuryFails \/ Ack \/ AckFails

LEMMA NextCases ==
  ASSUME Next
  PROVE  \/ Quiet /\ UNCHANGED hubVars
         \/ SendToTarget \/ Broadcast \/ Crash
         \/ Enrol /\ UNCHANGED workerVars
         \/ Expel /\ UNCHANGED workerVars
         \/ Fanout /\ UNCHANGED workerVars
         \/ \E c \in Conns : Link(c) /\ UNCHANGED workerVars
BY DEF Next, Work, Disturb, RunHub, HubNext, Apply, Pump, Quiet, Link, Claim, Read, ReadLost,
       Count, CountFails, CountRepeated, Save, SaveFails, Overlook, Bury, BuryFails, Ack, AckFails

-----------------------------------------------------------------------------
(* Type correctness. *)

LEMMA DeliverType ==
  ASSUME HubTypeOK, NEW S \in SUBSET Conns, NEW m \in Message, Deliver(S, m)
  PROVE  /\ clients' \subseteq Conns
         /\ userClients' \in [Users -> SUBSET Conns]
         /\ closed' \subseteq Conns
         /\ buffer' \in [Conns -> Seq(Message)]
<1>1. buffer' \in [Conns -> Seq(Message)]
  <2>1. \A c \in Conns : Append(buffer[c], m) \in Seq(Message)
    BY DEF HubTypeOK
  <2>2. QED  BY <2>1 DEF HubTypeOK, Deliver
<1>2. QED  BY <1>1 DEF HubTypeOK, Deliver, Drop

LEMMA HubTypeInit == HubInit => HubTypeOK
BY DEF HubInit, HubTypeOK

LEMMA ApplyType ==
  ASSUME HubTypeOK, Apply
  PROVE  HubTypeOK'
<1>1. CASE Enrol
  <2>1. job.client \in Conns /\ job' = NoJob
    BY <1>1 DEF Enrol, Has, HubTypeOK, Job
  <2>2. Len(broadcasts) \in Nat
    BY DEF HubTypeOK
  <2>3. since' \in [Conns -> Nat]
    BY <1>1, <2>1, <2>2 DEF Enrol, HubTypeOK
  <2>4. userClients' \in [Users -> SUBSET Conns]
    BY <1>1, <2>1 DEF Enrol, HubTypeOK
  <2>5. QED  BY <1>1, <2>1, <2>3, <2>4 DEF Enrol, HubTypeOK
<1>2. CASE Expel
  BY <1>2 DEF Expel, Drop, HubTypeOK
<1>3. CASE Fanout
  <2>1. job.message \in Message
    BY <1>3 DEF Fanout, Has, HubTypeOK, Job
  <2>2. clients \in SUBSET Conns /\ Deliver(clients, job.message)
    BY <1>3 DEF Fanout, HubTypeOK
  <2>3. broadcasts' \in Seq(Message)
    BY <1>3, <2>1 DEF Fanout, HubTypeOK
  <2>4. QED  BY <1>3, <2>1, <2>2, <2>3, DeliverType DEF Fanout, HubTypeOK
<1>4. QED  BY <1>1, <1>2, <1>3 DEF Apply

LEMMA LinkType ==
  ASSUME HubTypeOK, NEW c \in Conns, Link(c)
  PROVE  HubTypeOK'
<1> USE DEF HubTypeOK
<1>1. CASE Disconnect(c)
  BY <1>1 DEF Disconnect
<1>2. CASE TakeRegister(c)
  BY <1>2 DEF TakeRegister, Take, Job
<1>3. CASE TakeUnregister(c)
  BY <1>3 DEF TakeUnregister, Take, Job
<1>4. CASE ReadFails(c)
  BY <1>4 DEF ReadFails
<1>5. CASE Write(c)
  <2>1. Head(buffer[c]) \in Message /\ Tail(buffer[c]) \in Seq(Message)
    BY <1>5 DEF Write
  <2>2. Append(received[c], Head(buffer[c])) \in Seq(Message)
    BY <2>1
  <2>3. QED  BY <1>5, <2>1, <2>2 DEF Write
<1>6. CASE WriteFails(c)
  <2>1. Tail(buffer[c]) \in Seq(Message)
    BY <1>6 DEF WriteFails
  <2>2. QED  BY <1>6, <2>1 DEF WriteFails
<1>7. CASE WriteEnds(c)
  BY <1>7 DEF WriteEnds
<1>8. QED  BY <1>1, <1>2, <1>3, <1>4, <1>5, <1>6, <1>7 DEF Link

LEMMA QuietType ==
  ASSUME TypeOK, Quiet, UNCHANGED hubVars
  PROVE  TypeOK'
<1> USE DEF TypeOK
<1>1. HubTypeOK'
  BY DEF HubTypeOK, hubVars
<1>2. 1 .. lastRead \subseteq Entries
  BY HubEntries DEF Entries
<1>3. CASE Claim
  BY <1>1, <1>2, <1>3 DEF Claim
<1>4. CASE Read
  <2>1. PICK n \in lastRead + 1 .. NumEntries :
               queue' = lastRead + 1 .. n /\ lastRead' = n
    BY <1>4 DEF Read
  <2>2. lastRead' \in 0 .. NumEntries /\ queue' \subseteq Entries
    BY <2>1, HubEntries DEF Entries
  <2>3. QED  BY <1>1, <1>4, <2>2 DEF Read
<1>5. ASSUME NEW e \in Entries, Count(e) \/ CountFails(e) PROVE TypeOK'
  <2>1. Targets[e] \in Seq(Users)
    BY TargetsType
  <2>2. \A n \in Nat : Start(e, n) => task' \in Task
    BY <2>1 DEF Start, Task
  <2>3. task' \in Task /\ queue' \subseteq Entries
    BY <1>5, <2>2 DEF Count, CountFails, Start
  <2>4. faults' \in 0 .. MaxFaults /\ retry' \in [Entries -> Nat]
    BY <1>5, LimitsNat DEF Count, CountFails, Fault
  <2>5. QED  BY <1>1, <1>5, <2>3, <2>4 DEF Count, CountFails
<1>6. \A step \in {"save", "users", "broadcast", "inspect", "ack"} :
        task \in Task /\ Goto(step) => task' \in Task
  BY DEF Goto, Task
<1>7. ASSUME NEW step \in {"save", "inspect", "ack"}, At(step)
      PROVE  task \in Task /\ task.entry \in Entries
  BY <1>7 DEF At, Task
<1>8. CASE Save \/ SaveFails
  <2>1. task \in Task /\ task.entry \in Entries
    BY <1>7, <1>8 DEF Save, SaveFails
  <2>2. task' \in Task
    BY <1>6, <1>8, <2>1 DEF Save, SaveFails, AfterSave
  <2>3. saved' \subseteq Entries /\ unsaved' \in [Entries -> Nat]
    BY <1>8, <2>1 DEF Save, SaveFails
  <2>4. faults' \in 0 .. MaxFaults
    BY <1>8, LimitsNat DEF Save, SaveFails, Fault
  <2>5. QED  BY <1>1, <1>8, <2>2, <2>3, <2>4 DEF Save, SaveFails
<1>9. CASE Overlook \/ Bury \/ BuryFails
  <2>1. task \in Task /\ task.entry \in Entries
    BY <1>7, <1>9 DEF Overlook, Bury, BuryFails
  <2>2. task' \in Task
    BY <1>6, <1>9, <2>1 DEF Overlook, Bury, BuryFails
  <2>3. retry' \in [Entries -> Nat] /\ dlq' \subseteq Entries
    BY <1>9, <2>1 DEF Overlook, Bury, BuryFails
  <2>4. faults' \in 0 .. MaxFaults
    BY <1>9, LimitsNat DEF Overlook, Bury, BuryFails, Fault
  <2>5. QED  BY <1>1, <1>9, <2>2, <2>3, <2>4 DEF Overlook, Bury, BuryFails
<1>10. CASE Ack \/ AckFails
  <2>1. task.entry \in Entries
    BY <1>7, <1>10 DEF Ack, AckFails
  <2>2. faults' \in 0 .. MaxFaults
    BY <1>10, LimitsNat DEF Ack, AckFails, Fault
  <2>3. QED  BY <1>1, <1>10, <2>1, <2>2 DEF Ack, AckFails
<1>11. CASE ReadLost
  <2>1. PICK n \in lastRead + 1 .. NumEntries :
               deferred' = deferred \cup (lastRead + 1 .. n) /\ lastRead' = n
    BY <1>11 DEF ReadLost
  <2>2. lastRead' \in 0 .. NumEntries /\ deferred' \subseteq Entries
    BY <2>1, HubEntries DEF Entries
  <2>3. faults' \in 0 .. MaxFaults
    BY <1>11, LimitsNat DEF ReadLost, Fault
  <2>4. QED  BY <1>1, <1>11, <2>2, <2>3 DEF ReadLost
<1>12. ASSUME NEW e \in Entries, CountRepeated(e) PROVE TypeOK'
  <2>1. retry' \in [Entries -> Nat] /\ faults' \in 0 .. MaxFaults
    BY <1>12, LimitsNat DEF CountRepeated, Fault
  <2>2. QED  BY <1>1, <1>12, <2>1 DEF CountRepeated
<1>13. QED  BY <1>3, <1>4, <1>5, <1>8, <1>9, <1>10, <1>11, <1>12 DEF Quiet

LEMMA PushType ==
  ASSUME TypeOK, At("users") => task.left # <<>>, SendToTarget \/ Broadcast
  PROVE  TypeOK'
<1> USE DEF TypeOK
<1>1. task \in Task /\ task.entry \in Entries
  BY DEF SendToTarget, Broadcast, At, Task
<1>2. CASE SendToTarget
  <2>1. Head(task.left) \in Users /\ Tail(task.left) \in Seq(Users)
    BY <1>1, <1>2 DEF SendToTarget, Task
  <2>2. [entry |-> task.entry, to |-> "user"] \in Message
    BY <1>1 DEF Message
  <2>3. userClients[Head(task.left)] \in SUBSET Conns
    BY <2>1 DEF HubTypeOK
  <2>4. Deliver(userClients[Head(task.left)], [entry |-> task.entry, to |-> "user"])
    BY <1>2 DEF SendToTarget, SendToUser
  <2>5. HubTypeOK'
    BY <1>2, <2>2, <2>3, <2>4, DeliverType DEF SendToTarget, SendToUser, HubTypeOK
  <2>6. task' \in Task
    BY <1>1, <1>2, <2>1 DEF SendToTarget, Task
  <2>7. QED  BY <1>2, <2>5, <2>6 DEF SendToTarget
<1>3. CASE Broadcast
  <2>1. [entry |-> task.entry, to |-> "all"] \in Message
    BY <1>1 DEF Message
  <2>2. job' \in Job
    BY <1>3, <2>1 DEF Broadcast, TakeBroadcast, Take, Job
  <2>3. HubTypeOK'
    BY <1>3, <2>2 DEF Broadcast, TakeBroadcast, HubTypeOK
  <2>4. task' \in Task
    BY <1>1, <1>3 DEF Broadcast, Goto, Task
  <2>5. QED  BY <1>3, <2>3, <2>4 DEF Broadcast
<1>4. QED  BY <1>2, <1>3

LEMMA CrashType == TypeOK /\ Crash => TypeOK'
<1> SUFFICES ASSUME TypeOK, Crash PROVE TypeOK'
  OBVIOUS
<1>1. HubTypeOK'
  BY DEF TypeOK, HubTypeOK, Crash, HubLost
<1>2. faults' \in 0 .. MaxFaults
  BY LimitsNat DEF TypeOK, Crash, Fault
<1>3. (1 .. lastRead) \ acked \subseteq Entries
  BY HubEntries DEF TypeOK, Entries
<1>4. deferred' \subseteq Entries
  BY <1>3 DEF TypeOK, Crash
<1>5. QED  BY <1>1, <1>2, <1>4 DEF TypeOK, Crash

LEMMA TypeStep == TypeOK /\ (At("users") => task.left # <<>>) /\ [Next]_vars => TypeOK'
<1> SUFFICES ASSUME TypeOK, At("users") => task.left # <<>>, [Next]_vars PROVE TypeOK'
  OBVIOUS
<1>1. ASSUME HubTypeOK', UNCHANGED workerVars PROVE TypeOK'
  BY <1>1 DEF TypeOK, workerVars, Task
<1>2. CASE UNCHANGED vars
  <2>1. HubTypeOK' /\ UNCHANGED workerVars
    BY <1>2 DEF TypeOK, HubTypeOK, vars, hubVars
  <2>2. QED  BY <1>1, <2>1
<1>3. CASE Next
  <2>1. HubTypeOK
    BY DEF TypeOK
  <2>2. QED  BY <1>1, <1>3, <2>1, NextCases, QuietType, PushType, CrashType, ApplyType,
                LinkType DEF Apply
<1>4. QED  BY <1>2, <1>3

\* Only an entry with a user left to send to is at that step.
LEMMA LeftStep ==
  ASSUME TypeOK, At("users") => task.left # <<>>, [Next]_vars
  PROVE  (At("users") => task.left # <<>>)'
<1>1. CASE UNCHANGED vars
  BY <1>1 DEF vars, workerVars, At
<1>2. CASE Next
  <2>1. CASE UNCHANGED workerVars
    BY <2>1 DEF workerVars, At
  <2>2. CASE Quiet
    <3>1. CASE Claim \/ Read \/ ReadLost \/ \E e \in Entries : CountRepeated(e)
      BY <3>1 DEF Claim, Read, ReadLost, CountRepeated, At
    <3>2. ASSUME NEW e \in Entries, Count(e) \/ CountFails(e)
          PROVE  task'.step \in {"inspect", "save"}
      BY <3>2 DEF Count, CountFails, Start
    <3>3. CASE Save \/ SaveFails
      <4>1. task \in Task
        BY <3>3 DEF Save, SaveFails, At, TypeOK
      <4>2. QED  BY <3>3, <4>1 DEF Save, SaveFails, AfterSave, Goto, At, Task
    <3>4. CASE Overlook \/ Bury \/ BuryFails
      <4>1. task \in Task
        BY <3>4 DEF Overlook, Bury, BuryFails, At, TypeOK
      <4>2. QED  BY <3>4, <4>1 DEF Overlook, Bury, BuryFails, Goto, At, Task
    <3>5. CASE Ack \/ AckFails
      BY <3>5 DEF Ack, AckFails, At
    <3>6. QED  BY <2>2, <3>1, <3>2, <3>3, <3>4, <3>5 DEF Quiet, At
  <2>3. CASE SendToTarget \/ Broadcast
    <3>1. task \in Task
      BY <2>3 DEF SendToTarget, Broadcast, At, TypeOK
    <3>2. QED  BY <2>3, <3>1 DEF SendToTarget, Broadcast, Goto, At, Task
  <2>4. CASE Crash
    BY <2>4 DEF Crash, At
  <2>5. QED  BY <1>2, <2>1, <2>2, <2>3, <2>4, NextCases
<1>3. QED  BY <1>1, <1>2

-----------------------------------------------------------------------------
(* The registries. *)

\* Whoever is dropped moves from the registries to the closed channels.
LEMMA DropKeeps ==
  ASSUME HubTypeOK, Registered, NEW S, Drop(S)
  PROVE  /\ RegistriesAgree'
         /\ (clients \cap closed = {})'
         /\ clients' \cup closed' = clients \cup closed
BY DEF HubTypeOK, Registered, RegistriesAgree, Drop

LEMMA RegisteredStep ==
  ASSUME TypeOK, Registered, [Next]_vars
  PROVE  Registered'
<1>1. HubTypeOK
  BY DEF TypeOK
<1>2. ASSUME UNCHANGED hubVars PROVE Registered'
  BY <1>2 DEF hubVars, Registered, RegistriesAgree, Has
<1>3. ASSUME NEW S, Drop(S), link' = link, job' = job \/ job' = NoJob
      PROVE  Registered'
  BY <1>1, <1>3, DropKeeps DEF Registered, Has
<1>4. CASE SendToTarget
  BY <1>3, <1>4 DEF SendToTarget, SendToUser, Deliver
<1>5. CASE Broadcast
  BY <1>5 DEF Broadcast, TakeBroadcast, Take, Registered, RegistriesAgree, Has
<1>6. CASE Crash
  BY <1>6 DEF Crash, HubLost, Registered, RegistriesAgree, Has
<1>7. CASE Enrol
  <2>1. job.client \in Conns /\ job.client \notin clients \cup closed
        /\ link[job.client] # "new"
    BY <1>1, <1>7 DEF Enrol, Has, HubTypeOK, Job, Registered
  <2>2. RegistriesAgree'
    BY <1>1, <1>7, <2>1 DEF Enrol, Registered, RegistriesAgree, HubTypeOK
  <2>3. QED  BY <1>7, <2>1, <2>2 DEF Enrol, Registered, Has
<1>8. CASE Expel \/ Fanout
  BY <1>3, <1>8 DEF Expel, Fanout, Deliver
<1>9. ASSUME NEW c \in Conns, Link(c) PROVE Registered'
  <2>1. UNCHANGED <<clients, userClients, closed>>
    BY <1>9 DEF Link, Disconnect, TakeRegister, TakeUnregister, ReadFails, Write,
                WriteFails, WriteEnds
  <2>2. CASE TakeRegister(c)
    <3>1. link[c] = "new" /\ link' = [link EXCEPT ![c] = "up"]
          /\ job' = [kind |-> "register", client |-> c]
      BY <2>2 DEF TakeRegister, Take
    <3>2. QED  BY <1>1, <2>1, <3>1 DEF Registered, RegistriesAgree, Has, HubTypeOK
  <2>3. CASE TakeUnregister(c)
    BY <2>1, <2>3 DEF TakeUnregister, Take, Registered, RegistriesAgree, Has
  <2>4. ASSUME job' = job,
               \A d \in Conns : link'[d] = "new" <=> link[d] = "new"
        PROVE  Registered'
    <3>1. Has("register") => job.client \in Conns
      BY <1>1 DEF Has, HubTypeOK, Job
    <3>2. QED  BY <2>1, <2>4, <3>1 DEF Registered, RegistriesAgree, Has
  <2>5. CASE Disconnect(c) \/ ReadFails(c) \/ Write(c) \/ WriteFails(c)
    BY <1>1, <2>4, <2>5 DEF Disconnect, ReadFails, Write, WriteFails, HubTypeOK
  <2>6. CASE WriteEnds(c)
    <3>1. link[c] # "new"
      BY <2>6 DEF WriteEnds, Registered
    <3>2. QED  BY <1>1, <2>4, <2>6, <3>1 DEF WriteEnds, HubTypeOK
  <2>7. QED  BY <1>9, <2>2, <2>3, <2>5, <2>6 DEF Link
<1>10. QED  BY <1>2, <1>4, <1>5, <1>6, <1>7, <1>8, <1>9, NextCases DEF vars

-----------------------------------------------------------------------------
(* The history. *)

\* What is known stays known.
LEMMA KnownStays ==
  ASSUME TypeOK, [Next]_vars, NEW e \in Entries, Known(e)
  PROVE  Known(e)'
<1>1. CASE UNCHANGED <<saved, unsaved>>
  BY <1>1 DEF Known
<1>2. CASE Save \/ SaveFails
  <2>1. task.entry \in Entries
    BY <1>2 DEF Save, SaveFails, At, Task, TypeOK
  <2>2. saved \subseteq saved' /\ unsaved'[e] >= unsaved[e]
    BY <1>2, <2>1 DEF Save, SaveFails, TypeOK
  <2>3. unsaved[e] \in Nat /\ unsaved'[e] \in Nat
    BY <1>2, <2>1 DEF Save, SaveFails, TypeOK
  <2>4. QED  BY <2>2, <2>3 DEF Known
<1>3. CASE Next /\ ~ (Save \/ SaveFails)
  BY <1>1, <1>3, NextCases DEF Quiet, Claim, Read, ReadLost, Count, CountFails,
     CountRepeated, Overlook, Bury, BuryFails, Ack, AckFails, SendToTarget, Broadcast, Crash, workerVars
<1>4. QED  BY <1>1, <1>2, <1>3 DEF vars, workerVars

\* A client is sent nothing but known entries.
AllKnown(s) == \A k \in DOMAIN s : Known(s[k].entry)

LEMMA AppendKnown ==
  ASSUME NEW s \in Seq(Message), NEW m \in Message, AllKnown(s), Known(m.entry)
  PROVE  AllKnown(Append(s, m))
BY DEF AllKnown

LEMMA TailKnown ==
  ASSUME NEW s \in Seq(Message), s # <<>>, AllKnown(s)
  PROVE  AllKnown(Tail(s)) /\ Known(Head(s).entry)
<1>1. Len(s) \in Nat \ {0} /\ Head(s) = s[1]
  BY EmptySeq
<1>2. \A k \in 1 .. Len(s) - 1 : Tail(s)[k] = s[k + 1] /\ k + 1 \in DOMAIN s
  BY <1>1
<1>3. Len(Tail(s)) = Len(s) - 1 /\ DOMAIN Tail(s) = 1 .. Len(s) - 1 /\ 1 \in DOMAIN s
  BY <1>1
<1>4. QED  BY <1>1, <1>2, <1>3 DEF AllKnown

\* The channels and the browsers hold nothing else after a step.
LEMMA SentStep ==
  ASSUME TypeOK, Recorded, Next, NEW c \in Conns
  PROVE  AllKnown(buffer'[c]) /\ AllKnown(received'[c])
<1> USE DEF HubTypeOK
<1>1. HubTypeOK /\ AllKnown(buffer[c]) /\ AllKnown(received[c])
  BY DEF TypeOK, Recorded, AllKnown
<1>2. ASSUME NEW S, NEW m \in Message, Deliver(S, m), Known(m.entry),
             received' = received
      PROVE  AllKnown(buffer'[c]) /\ AllKnown(received'[c])
  <2>1. buffer'[c] = buffer[c] \/ buffer'[c] = Append(buffer[c], m)
    BY <1>1, <1>2 DEF Deliver
  <2>2. QED  BY <1>1, <1>2, <2>1, AppendKnown
<1>3. CASE UNCHANGED <<buffer, received>>
  BY <1>1, <1>3
<1>4. CASE SendToTarget
  <2>1. [entry |-> task.entry, to |-> "user"] \in Message /\ Known(task.entry)
    BY <1>4 DEF SendToTarget, At, Task, TypeOK, Message, Recorded
  <2>2. QED  BY <1>2, <1>4, <2>1 DEF SendToTarget, SendToUser
<1>5. CASE Fanout
  <2>1. job.message \in Message /\ Known(job.message.entry)
    BY <1>1, <1>5 DEF Fanout, Has, Job, Recorded
  <2>2. QED  BY <1>2, <1>5, <2>1 DEF Fanout
<1>6. CASE Crash
  BY <1>1, <1>6 DEF Crash, HubLost, AllKnown
<1>7. ASSUME NEW d \in Conns, Link(d)
      PROVE  AllKnown(buffer'[c]) /\ AllKnown(received'[c])
  <2>1. CASE Write(d) \/ WriteFails(d)
    <3>1. buffer[d] \in Seq(Message) /\ buffer[d] # <<>> /\ AllKnown(buffer[d])
      BY <1>1, <2>1 DEF Write, WriteFails, Recorded, AllKnown
    <3>2. AllKnown(Tail(buffer[d])) /\ Known(Head(buffer[d]).entry)
      BY <3>1, TailKnown
    <3>3. Head(buffer[d]) \in Message /\ received[c] \in Seq(Message)
      BY <1>1, <3>1
    <3>4. AllKnown(buffer'[c])
      BY <1>1, <2>1, <3>2 DEF Write, WriteFails
    <3>5. received'[c] = received[c]
          \/ received'[c] = Append(received[c], Head(buffer[d])) 
      BY <1>1, <2>1 DEF Write, WriteFails
    <3>6. QED  BY <1>1, <3>2, <3>3, <3>4, <3>5, AppendKnown
  <2>2. CASE ~ (Write(d) \/ WriteFails(d))
    BY <1>3, <1>7, <2>2 DEF Link, Disconnect, TakeRegister, TakeUnregister, ReadFails,
                            WriteEnds
  <2>3. QED  BY <2>1, <2>2
<1>8. QED  BY <1>3, <1>4, <1>5, <1>6, <1>7, NextCases
           DEF hubVars, Broadcast, TakeBroadcast, Enrol, Expel

LEMMA RecordedStep ==
  ASSUME TypeOK, TypeOK', Recorded, [Next]_vars
  PROVE  Recorded'
<1>1. ASSUME NEW m \in Message, Known(m.entry) PROVE Known(m.entry)'
  BY <1>1, KnownStays DEF Message
<1>2. CASE UNCHANGED vars
  BY <1>2 DEF vars, hubVars, workerVars, Recorded, At, Has, Known
<1>3. CASE Next
  <2>1. ASSUME NEW c \in Conns PROVE AllKnown(buffer[c])' /\ AllKnown(received[c])'
    <3>1. \A m \in Message : Known(m.entry) =>
            m.entry \in saved' \/ unsaved'[m.entry] > 0
      BY <1>1 DEF Known
    <3>2. buffer'[c] \in Seq(Message) /\ received'[c] \in Seq(Message)
      BY DEF TypeOK, HubTypeOK
    <3>3. AllKnown(buffer'[c]) /\ AllKnown(received'[c])
      BY <1>3, SentStep
    <3>4. \A k \in DOMAIN buffer'[c] : buffer'[c][k] \in Message
      BY <3>2
    <3>5. \A k \in DOMAIN received'[c] : received'[c][k] \in Message
      BY <3>2
    <3>6. QED  BY <3>1, <3>3, <3>4, <3>5 DEF AllKnown, Known
  <2>2. (Has("broadcast") => Known(job.message.entry))'
    <3>1. CASE UNCHANGED job
      <4>1. Has("broadcast") => job.message \in Message
        BY DEF Has, TypeOK, HubTypeOK, Job
      <4>2. QED  BY <1>1, <3>1, <4>1 DEF Recorded, Has
    <3>2. CASE job' = NoJob \/ \E c \in Conns : TakeRegister(c) \/ TakeUnregister(c)
      BY <3>2 DEF Has, TakeRegister, TakeUnregister, Take
    <3>3. CASE Broadcast
      <4>1. task \in Task /\ Known(task.entry)
        BY <3>3 DEF Broadcast, At, TypeOK, Recorded
      <4>2. job'.message.entry = task.entry /\ task.entry \in Entries
        BY <3>3, <4>1 DEF Broadcast, TakeBroadcast, Take, Task
      <4>3. Known(task.entry)'
        BY <3>3, <4>1 DEF Broadcast, Known, Goto, Task
      <4>4. QED  BY <4>2, <4>3, <4>1, <3>3 DEF Known, Broadcast
    <3>4. QED  BY <1>3, <3>1, <3>2, <3>3, NextCases
               DEF hubVars, SendToTarget, SendToUser, Crash, HubLost, Enrol, Expel, Fanout,
                   Link, Disconnect, ReadFails, Write, WriteFails, WriteEnds
  <2>3. (At("users") \/ At("broadcast") => Known(task.entry))'
    <3>1. CASE UNCHANGED workerVars
      BY <3>1 DEF workerVars, Recorded, At, Known
    <3>2. CASE SendToTarget
      <4>1. task \in Task /\ task'.entry = task.entry
        BY <3>2 DEF SendToTarget, At, TypeOK, Task
      <4>2. QED  BY <3>2, <4>1 DEF SendToTarget, Known, Recorded
    <3>3. CASE Save \/ SaveFails
      <4>1. task \in Task /\ task.entry \in Entries
        BY <3>3 DEF Save, SaveFails, At, TypeOK, Task
      <4>2. task'.entry = task.entry
        BY <3>3, <4>1 DEF Save, SaveFails, AfterSave, Goto, Task
      <4>3. task.entry \in saved' \/ unsaved'[task.entry] > 0
        BY <3>3, <4>1 DEF Save, SaveFails, TypeOK
      <4>4. QED  BY <4>2, <4>3 DEF Known
    <3>4. CASE \E e \in Entries : Count(e) \/ CountFails(e)
      BY <3>4 DEF Count, CountFails, Start, At
    <3>5. CASE Broadcast \/ Overlook \/ Bury \/ BuryFails
      <4>1. task \in Task
        BY <3>5 DEF Broadcast, Overlook, Bury, BuryFails, At, TypeOK
      <4>2. QED  BY <3>5, <4>1 DEF Broadcast, Overlook, Bury, BuryFails, Goto, At, Task
    <3>6. CASE task' = NoTask
      BY <3>6 DEF At
    <3>7. CASE Claim \/ Read \/ ReadLost \/ \E e \in Entries : CountRepeated(e)
      BY <3>7 DEF Claim, Read, ReadLost, CountRepeated, Recorded, At, Known
    <3>8. QED  BY <1>3, <3>1, <3>2, <3>3, <3>4, <3>5, <3>6, <3>7, NextCases
               DEF Quiet, Ack, AckFails, Crash
  <2>4. QED  BY <2>1, <2>2, <2>3 DEF Recorded, AllKnown
<1>4. QED  BY <1>2, <1>3

-----------------------------------------------------------------------------
(* The theorems. *)

LEMMA InitInv == Init => IInv
<1> SUFFICES ASSUME Init PROVE IInv
  OBVIOUS
<1>1. TypeOK
  BY HubEntries, LimitsNat, HubTypeInit DEF Init, TypeOK
<1>2. Registered
  BY DEF Init, HubInit, Registered, RegistriesAgree, Has
<1>3. Recorded
  BY DEF Init, HubInit, Recorded, At, Has
<1>4. QED  BY <1>1, <1>2, <1>3 DEF IInv, Init, At

LEMMA NextInv == IInv /\ [Next]_vars => IInv'
BY TypeStep, LeftStep, RegisteredStep, RecordedStep DEF IInv

THEOREM Invariance == Spec => []IInv
BY InitInv, NextInv, PTL DEF Spec

\* Every variable of the worker and of the hub keeps its type
\* (notification_worker.go and hub.go).
THEOREM TypeCorrect == Spec => []TypeOK
<1>1. IInv => TypeOK
  BY DEF IInv
<1>2. QED  BY <1>1, Invariance, PTL

\* Neither Hub.Run nor a caller of SendToUser ever finds a closed channel in
\* a registry (hub.go:54-81 and 129-140), however registrations, drops of
\* slow clients, ends of connections and crashes interleave.
THEOREM ChannelsAreOpen == Spec => []NoSendOnClosed
<1>1. IInv => NoSendOnClosed
  BY DEF IInv, Registered, RegistriesAgree, NoSendOnClosed
<1>2. QED  BY <1>1, Invariance, PTL

\* What a browser is shown is in notification_history, unless the insert
\* reported an error (notification_worker.go:187-194).
THEOREM PushIsRecorded == Spec => []HistoryBeforePush
<1>1. IInv => HistoryBeforePush
  <2> SUFFICES ASSUME IInv, NEW c \in Conns, NEW k \in DOMAIN Sent(c)
               PROVE  Known(Sent(c)[k].entry)
    BY DEF HistoryBeforePush, Known
  <2>1. received[c] \in Seq(Message) /\ buffer[c] \in Seq(Message)
    BY DEF IInv, TypeOK, HubTypeOK
  <2>2. \/ k \in DOMAIN received[c] /\ Sent(c)[k] = received[c][k]
        \/ k - Len(received[c]) \in DOMAIN buffer[c]
             /\ Sent(c)[k] = buffer[c][k - Len(received[c])]
    <3> DEFINE r == received[c]  b == buffer[c]
    <3>1. Sent(c) = r \o b
      BY DEF Sent
    <3>2. Len(r) \in Nat /\ DOMAIN r = 1 .. Len(r)
          /\ Len(b) \in Nat /\ DOMAIN b = 1 .. Len(b)
      BY <2>1
    <3> HIDE DEF r, b
    <3>3. r \o b \in Seq(Message) /\ Len(r \o b) = Len(r) + Len(b)
      BY <2>1, ConcatProperties DEF r, b
    <3>4. \A i \in 1 .. Len(r) + Len(b) :
            (r \o b)[i] = IF i <= Len(r) THEN r[i] ELSE b[i - Len(r)]
      BY <2>1, ConcatProperties DEF r, b
    <3>5. k \in 1 .. Len(r) + Len(b)
      BY <3>1, <3>3
    <3>6. \/ k \in 1 .. Len(r) /\ Sent(c)[k] = r[k]
          \/ k - Len(r) \in 1 .. Len(b) /\ Sent(c)[k] = b[k - Len(r)]
      <4>1. CASE k <= Len(r)
        BY <3>1, <3>2, <3>4, <3>5, <4>1
      <4>2. CASE k > Len(r)
        BY <3>1, <3>2, <3>4, <3>5, <4>2
      <4>3. QED  BY <3>2, <3>5, <4>1, <4>2
    <3>7. QED  BY <3>2, <3>6 DEF r, b
  <2>3. QED  BY <2>2 DEF IInv, Recorded
<1>2. QED  BY <1>1, Invariance, PTL
=============================================================================
