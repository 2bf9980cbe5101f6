-------------------------- MODULE NotificationWorker --------------------------
(***************************************************************************)
(* The consumer of notification-service and the hub it feeds.  One         *)
(* goroutine claims and reads entries of ride_events for                   *)
(* notification_group, saves each in notification_history, sends it to     *)
(* the users its payload names, broadcasts it, and acknowledges it         *)
(* whatever happened: the unique key of the history is the only guard      *)
(* against a second push.  The Redis client sends a command again when its *)
(* reply is lost, so a command may be applied twice without an error.      *)
(***************************************************************************)
EXTENDS Hub, FiniteSets

CONSTANTS
  Malformed,    \* the entries without a type or an aggregate id
  Core,         \* the entries of the lifecycle types that are always broadcast
  Targets,      \* the users that the payload of an entry names, in order
  ReadCount,    \* the entries of one XREADGROUP or XAUTOCLAIM (10 in the code)
  MaxRetries,   \* notifMaxEventRetries (3 in the code)
  MaxFaults,    \* bound: failed calls and crashes
  NoTask        \* the worker is between two entries

ASSUME Kinds        == Malformed \subseteq Entries /\ Core \subseteq Entries
ASSUME TargetsType  == Targets \in [Entries -> Seq(Users)]
ASSUME LimitsNat    == ReadCount \in Nat /\ MaxRetries \in Nat /\ MaxFaults \in Nat

VARIABLES
  lastRead,   \* last-delivered-id of notification_group
  acked,      \* the acknowledged entries
  queue,      \* what the worker has still to process of its batch
  task,       \* the entry in process
  retry,      \* event:notif:retry:<id>
  saved,      \* notification_history
  dlq,        \* ride_events_dlq
  faults,     \* history: faults so far
  unsaved,    \* history: pushes whose insert reported an error
  deferred    \* history: entries that a fault left pending, or in Hub.Run

workerVars == <<lastRead, acked, queue, task, retry, saved, dlq, faults,
                unsaved, deferred>>
vars == <<hubVars, workerVars>>

\* An entry in process, the call that comes next and the users it is still to
\* be sent to.
Task == [entry : Entries, step : {"save", "users", "broadcast", "inspect", "ack"},
         left : Seq(Users), retries : Nat]

ASSUME WorkerIdle == NoTask \notin Task

Init ==
  /\ HubInit
  /\ lastRead = 0
  /\ acked    = {}
  /\ queue    = {}
  /\ task     = NoTask
  /\ retry    = [e \in Entries |-> 0]
  /\ saved    = {}
  /\ dlq      = {}
  /\ faults   = 0
  /\ unsaved  = [e \in Entries |-> 0]
  /\ deferred = {}

Fault ==
  /\ faults < MaxFaults
  /\ faults' = faults + 1

At(step) == task # NoTask /\ task.step = step
Goto(step) == task' = [task EXCEPT !.step = step]

-----------------------------------------------------------------------------
(* consume: a batch is processed to its end before the next is fetched. *)

\* XAUTOCLAIM returns entries that have been pending for 30 s.
Claim ==
  /\ queue = {} /\ task = NoTask
  /\ \E S \in SUBSET ((1 .. lastRead) \ acked) :
       /\ S # {} /\ Cardinality(S) <= ReadCount
       /\ queue' = S
  /\ UNCHANGED <<hubVars, lastRead, acked, task, retry, saved, dlq, faults,
                 unsaved, deferred>>

Read ==
  /\ queue = {} /\ task = NoTask
  /\ \E n \in lastRead + 1 .. NumEntries :
       /\ n <= lastRead + ReadCount
       /\ queue' = lastRead + 1 .. n
       /\ lastRead' = n
  /\ UNCHANGED <<hubVars, acked, task, retry, saved, dlq, faults, unsaved,
                 deferred>>

\* The reply of XREADGROUP is lost: its entries are pending, with nobody.
ReadLost ==
  /\ queue = {} /\ task = NoTask
  /\ Fault
  /\ \E n \in lastRead + 1 .. NumEntries :
       /\ n <= lastRead + ReadCount
       /\ deferred' = deferred \cup (lastRead + 1 .. n)
       /\ lastRead' = n
  /\ UNCHANGED <<hubVars, acked, queue, task, retry, saved, dlq, unsaved>>

\* Mutant of IsNext: the batch is processed concurrently.
IsAny(e) == task = NoTask /\ e \in queue

IsNext(e) == task = NoTask /\ e \in queue /\ \A f \in queue : e <= f

\* handleMessage returns early for a malformed entry.
Start(e, retries) ==
  /\ IsNext(e)
  /\ queue' = queue \ {e}
  /\ task' = [entry   |-> e,
              step    |-> IF e \in Malformed THEN "inspect" ELSE "save",
              left    |-> Targets[e],
              retries |-> retries]

Count(e) ==
  /\ Start(e, retry[e] + 1)
  /\ retry' = [retry EXCEPT ![e] = @ + 1]
  /\ UNCHANGED <<hubVars, lastRead, acked, saved, dlq, faults, unsaved,
                 deferred>>

\* The reply of INCR is lost and the client sends it again.
CountRepeated(e) ==
  /\ IsNext(e)
  /\ Fault
  /\ retry' = [retry EXCEPT ![e] = @ + 1]
  /\ UNCHANGED <<hubVars, lastRead, acked, queue, task, saved, dlq, unsaved,
                 deferred>>

\* The error of INCR, applied or not, is ignored; the result is 0.
CountFails(e) ==
  /\ Start(e, 0)
  /\ Fault
  /\ \/ retry' = retry
     \/ retry' = [retry EXCEPT ![e] = @ + 1]
  /\ UNCHANGED <<hubVars, lastRead, acked, saved, dlq, unsaved, deferred>>

-----------------------------------------------------------------------------
(* handleMessage. *)

AfterSave == Goto(IF task.left = <<>> THEN "broadcast" ELSE "users")

\* Mutant of Save: INSERT ... ON CONFLICT DO NOTHING.
SaveOrIgnore ==
  /\ At("save")
  /\ saved' = saved \cup {task.entry}
  /\ AfterSave
  /\ UNCHANGED <<hubVars, lastRead, acked, queue, retry, dlq, faults, unsaved,
                 deferred>>

\* Mutant of Save: the history is not written before the push.
SaveNothing ==
  /\ At("save")
  /\ AfterSave
  /\ UNCHANGED <<hubVars, lastRead, acked, queue, retry, saved, dlq, faults,
                 unsaved, deferred>>

\* SaveEvent; a duplicate key ends the handling of the entry.
Save ==
  /\ At("save")
  /\ saved' = saved \cup {task.entry}
  /\ IF task.entry \in saved THEN Goto("ack") ELSE AfterSave
  /\ UNCHANGED <<hubVars, lastRead, acked, queue, retry, dlq, faults, unsaved,
                 deferred>>

\* Mutant of SaveFails: an event that cannot be saved is given up.
SaveFailsAcked ==
  /\ At("save")
  /\ Fault
  /\ saved' = saved
  /\ unsaved' = [unsaved EXCEPT ![task.entry] = @ + 1]
  /\ Goto("ack")
  /\ UNCHANGED <<hubVars, lastRead, acked, queue, retry, dlq, deferred>>

\* Any other error of SaveEvent, before or after the commit, does not stop
\* the push.
SaveFails ==
  /\ At("save")
  /\ Fault
  /\ \/ saved' = saved
     \/ saved' = saved \cup {task.entry}
  /\ unsaved' = [unsaved EXCEPT ![task.entry] = @ + 1]
  /\ AfterSave
  /\ UNCHANGED <<hubVars, lastRead, acked, queue, retry, dlq, deferred>>

\* SendToUser for one of user_id, driver_id and passenger_id.
SendToTarget ==
  /\ At("users")
  /\ SendToUser(Head(task.left), [entry |-> task.entry, to |-> "user"])
  /\ task' = [task EXCEPT
       !.left = Tail(@),
       !.step = CASE Tail(task.left) # <<>> -> "users"
                  [] Tail(task.left) = <<>> /\ task.entry \in Core -> "broadcast"
                  [] OTHER -> "ack"]
  /\ UNCHANGED <<lastRead, acked, queue, retry, saved, dlq, faults, unsaved,
                 deferred>>

Broadcast ==
  /\ At("broadcast")
  /\ TakeBroadcast([entry |-> task.entry, to |-> "all"])
  /\ Goto("ack")
  /\ UNCHANGED <<lastRead, acked, queue, retry, saved, dlq, faults, unsaved,
                 deferred>>

-----------------------------------------------------------------------------
(* processWithDLQ, after the handler, and the acknowledgement. *)

\* A malformed entry below the limit is only logged.
Overlook ==
  /\ At("inspect")
  /\ task.retries < MaxRetries
  /\ Goto("ack")
  /\ UNCHANGED <<hubVars, lastRead, acked, queue, retry, saved, dlq, faults,
                 unsaved, deferred>>

\* Mutant of Bury: the limit is met one delivery too early.
BuryEarly ==
  /\ At("inspect")
  /\ task.retries >= MaxRetries - 1
  /\ dlq' = dlq \cup {task.entry}
  /\ retry' = [retry EXCEPT ![task.entry] = 0]
  /\ Goto("ack")
  /\ UNCHANGED <<hubVars, lastRead, acked, queue, saved, faults, unsaved,
                 deferred>>

Bury ==
  /\ At("inspect")
  /\ task.retries >= MaxRetries
  /\ dlq' = dlq \cup {task.entry}
  /\ retry' = [retry EXCEPT ![task.entry] = 0]
  /\ Goto("ack")
  /\ UNCHANGED <<hubVars, lastRead, acked, queue, saved, faults, unsaved,
                 deferred>>

\* The errors of XADD and of DEL, applied or not, are ignored.
BuryFails ==
  /\ At("inspect")
  /\ task.retries >= MaxRetries
  /\ Fault
  /\ \/ dlq' = dlq
     \/ dlq' = dlq \cup {task.entry}
  /\ \/ retry' = retry
     \/ retry' = [retry EXCEPT ![task.entry] = 0]
  /\ Goto("ack")
  /\ UNCHANGED <<hubVars, lastRead, acked, queue, saved, unsaved, deferred>>

Ack ==
  /\ At("ack")
  /\ acked' = acked \cup {task.entry}
  /\ task' = NoTask
  /\ UNCHANGED <<hubVars, lastRead, queue, retry, saved, dlq, faults, unsaved,
                 deferred>>

\* The error of XACK is ignored: the entry stays pending.
AckFails ==
  /\ At("ack")
  /\ Fault
  /\ task' = NoTask
  /\ deferred' = deferred \cup {task.entry}
  /\ UNCHANGED <<hubVars, lastRead, acked, queue, retry, saved, dlq, unsaved>>

\* Hub.Run has taken the broadcast of an entry and not applied it.
InHub(e) == Has("broadcast") /\ job.message.entry = e

\* The process dies and is restarted under a new consumer id.
Crash ==
  /\ Fault
  /\ HubLost
  /\ deferred' = deferred \cup ((1 .. lastRead) \ acked)
                          \cup {e \in Entries : InHub(e)}
  /\ queue' = {}
  /\ task' = NoTask
  /\ UNCHANGED <<lastRead, acked, retry, saved, dlq, unsaved>>

-----------------------------------------------------------------------------
Work ==
  \/ Claim \/ Read
  \/ \E e \in Entries : Count(e)
  \/ Save \/ SendToTarget \/ Broadcast \/ Overlook \/ Bury \/ Ack

Disturb ==
  \/ ReadLost
  \/ \E e \in Entries : CountRepeated(e) \/ CountFails(e)
  \/ SaveFails \/ BuryFails \/ AckFails \/ Crash

RunHub == HubNext /\ UNCHANGED workerVars

Next == Work \/ Disturb \/ RunHub

\* The goroutines of the worker, of Hub.Run and of the read pumps run.  A
\* write pump may be stuck for ever in WriteMessage, which has no deadline.
Fairness ==
  /\ WF_vars(Work)
  /\ WF_vars(Apply /\ UNCHANGED workerVars)
  /\ \A c \in Conns :
       /\ WF_vars(ReadFails(c) /\ UNCHANGED workerVars)
       /\ WF_vars(TakeUnregister(c) /\ UNCHANGED workerVars)

Spec == Init /\ [][Next]_vars
FairSpec == Spec /\ Fairness

-----------------------------------------------------------------------------
\* Every variable of the worker and of the hub has its type.
TypeOK ==
  /\ HubTypeOK
  /\ lastRead \in 0 .. NumEntries
  /\ acked \subseteq Entries /\ queue \subseteq Entries
  /\ task \in Task \cup {NoTask}
  /\ retry \in [Entries -> Nat]
  /\ saved \subseteq Entries /\ dlq \subseteq Entries
  /\ faults \in 0 .. MaxFaults
  /\ unsaved \in [Entries -> Nat]
  /\ deferred \subseteq Entries

\* What a client got and will get from its channel.
Sent(c) == received[c] \o buffer[c]

Times(c, m) == Cardinality({k \in DOMAIN Sent(c) : Sent(c)[k] = m})

\* However often an entry is claimed, a client is sent its broadcast once,
\* and its targeted message once for each key that names the user; one more
\* time only for each insert into notification_history that failed.
PushedOnce ==
  \A c \in Conns, e \in Entries :
    LET named == Cardinality({k \in DOMAIN Targets[e] : Targets[e][k] = UserOf[c]})
    IN /\ Times(c, [entry |-> e, to |-> "all"]) <= 1 + unsaved[e]
       /\ Times(c, [entry |-> e, to |-> "user"]) <= named * (1 + unsaved[e])

\* A client is never shown an event that the history does not have, unless
\* the insert reported an error.
HistoryBeforePush ==
  \A c \in Conns : \A k \in DOMAIN Sent(c) :
    Sent(c)[k].entry \in saved \/ unsaved[Sent(c)[k].entry] > 0

Announced(e) == e \notin Malformed /\ (e \in Core \/ Targets[e] = <<>>)

\* An event that is for everybody is acknowledged only after Hub.Run has taken
\* it, although an entry found in the history is not pushed again: it is
\* passed over only after a fault left it pending or in Hub.Run, which a
\* crash between the insert and the push does and a database error does not.
PassedOverOnlyAfterFault ==
  \A e \in acked :
    Announced(e) => \/ \E i \in DOMAIN broadcasts : broadcasts[i].entry = e
                    \/ InHub(e) \/ e \in deferred

\* A client sees the events in the order of the stream, with two exceptions:
\* an entry that a fault left pending comes late, and a targeted message may
\* overtake a broadcast that Hub.Run has taken and not applied.
OnlyTargetedOvertakes ==
  \A c \in Conns : \A i, k \in DOMAIN Sent(c) :
    i < k /\ Sent(c)[i].entry > Sent(c)[k].entry =>
      \/ Sent(c)[k].entry \in deferred
      \/ Sent(c)[i].to = "user" /\ Sent(c)[k].to = "all"

Known(e) == e \in saved \/ unsaved[e] > 0

\* A client enters the registries once, with an open channel, and leaves both
\* at once.
Registered ==
  /\ RegistriesAgree
  /\ clients \cap closed = {}
  /\ \A c \in Conns : link[c] = "new" => c \notin clients \cup closed
  /\ Has("register") =>
       job.client \notin clients \cup closed /\ link[job.client] # "new"

\* The entry being pushed, the broadcast that Hub.Run holds, and all that was
\* sent are known to the history.
Recorded ==
  /\ At("users") \/ At("broadcast") => Known(task.entry)
  /\ Has("broadcast") => Known(job.message.entry)
  /\ \A c \in Conns :
       /\ \A k \in DOMAIN buffer[c] : Known(buffer[c][k].entry)
       /\ \A k \in DOMAIN received[c] : Known(received[c][k].entry)

\* The inductive invariant behind NoSendOnClosed and HistoryBeforePush.
IInv ==
  /\ TypeOK
  /\ At("users") => task.left # <<>>
  /\ Registered
  /\ Recorded

\* Nothing but a malformed entry reaches ride_events_dlq, and only through
\* MaxRetries - 1 faults: an acknowledgement or a process that was lost, or an
\* INCR that was sent again.  Without them it is acknowledged after its first
\* attempt and kept nowhere (processWithDLQ).
QuarantineNeedsFaults ==
  dlq # {} => dlq \subseteq Malformed /\ faults >= MaxRetries - 1

\* Every entry is acknowledged in the end, though the clients may not read.
EveryEntryAcked == <>(acked = Entries)

\* A client whose connection is gone leaves the hub for good.
GoneClientsLeave ==
  \A c \in Conns : link[c] = "down" ~> [](c \notin clients)
=============================================================================
