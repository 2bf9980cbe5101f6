--------------------------------- MODULE Hub ---------------------------------
(***************************************************************************)
(* The WebSocket hub of notification-service.  The goroutine of Hub.Run    *)
(* takes one registration, unregistration or broadcast at a time from      *)
(* three unbuffered channels and then applies it under the mutex;          *)
(* SendToUser applies itself under the same mutex in the goroutine of its  *)
(* caller.  Every connection has a write pump that drains its Send channel *)
(* and a read pump that notices its end.  The critical sections never      *)
(* block (their sends have a default branch), so each is one action.       *)
(***************************************************************************)
EXTENDS Naturals, Sequences

CONSTANTS
  NumEntries,   \* the entries of the stream are 1 .. NumEntries
  Conns,        \* the WebSocket connections that may be opened
  Users,        \* the user ids
  NoUser,       \* a connection without userId
  UserOf,       \* the userId of a connection
  Capacity,     \* of a Send channel (256 in the code)
  NoJob         \* Hub.Run waits in its select

ASSUME HubEntries  == NumEntries \in Nat
ASSUME NoUserFresh == NoUser \notin Users
ASSUME UserOfType  == UserOf \in [Conns -> Users \cup {NoUser}]
ASSUME CapacityNat == Capacity \in Nat

VARIABLES
  clients,       \* Hub.clients
  userClients,   \* Hub.userClients, empty for a user without a key
  job,           \* what Hub.Run has taken from a channel and not applied
  buffer,        \* the Send channels
  closed,        \* the Send channels that are closed
  link,          \* the connections
  reader,        \* the read pumps
  writing,       \* the connections whose write pump runs
  received,      \* what a browser got, in order
  broadcasts,    \* history: the broadcasts applied so far
  since          \* history: how many of them before a client was enrolled

hubVars == <<clients, userClients, job, buffer, closed, link, reader, writing,
             received, broadcasts, since>>

Entries == 1 .. NumEntries

\* An event, sent to one of its users or to all.
Message == [entry : Entries, to : {"user", "all"}]

Job ==
  [kind : {"register", "unregister"}, client : Conns]
    \cup [kind : {"broadcast"}, message : Message]

ASSUME HubIdle == NoJob \notin Job

HubInit ==
  /\ clients     = {}
  /\ userClients = [u \in Users |-> {}]
  /\ job         = NoJob
  /\ buffer      = [c \in Conns |-> <<>>]
  /\ closed      = {}
  /\ link        = [c \in Conns |-> "new"]
  /\ reader      = [c \in Conns |-> "off"]
  /\ writing     = {}
  /\ received    = [c \in Conns |-> <<>>]
  /\ broadcasts  = <<>>
  /\ since       = [c \in Conns |-> 0]

-----------------------------------------------------------------------------
(* What is done to the registries under the mutex. *)

\* Mutant of Drop: the client stays in userClients.
DropFromClients(S) ==
  /\ clients' = clients \ S
  /\ closed' = closed \cup (S \cap clients)
  /\ UNCHANGED userClients

\* doUnregister: a client that is still in the hub leaves both registries
\* and has its channel closed.
Drop(S) ==
  LET out == S \cap clients IN
  /\ clients' = clients \ out
  /\ userClients' = [u \in Users |-> userClients[u] \ out]
  /\ closed' = closed \cup out

\* Mutant of Deliver: the send waits for a slow client.
DeliverAndWait(S, m) ==
  /\ \A c \in S : Len(buffer[c]) < Capacity
  /\ buffer' = [c \in Conns |-> IF c \in S THEN Append(buffer[c], m) ELSE buffer[c]]
  /\ Drop({})

\* Mutant of Deliver: a full channel is skipped.
DeliverOrSkip(S, m) ==
  /\ buffer' = [c \in Conns |->
       IF c \in S /\ Len(buffer[c]) < Capacity THEN Append(buffer[c], m) ELSE buffer[c]]
  /\ Drop({})

\* A send that does not block: a client whose channel is full is dropped.
Deliver(S, m) ==
  LET full == {c \in S : Len(buffer[c]) >= Capacity} IN
  /\ buffer' = [c \in Conns |->
       IF c \in S \ full THEN Append(buffer[c], m) ELSE buffer[c]]
  /\ Drop(full)

\* SendToUser, in the goroutine of its caller.
SendToUser(u, m) ==
  /\ Deliver(userClients[u], m)
  /\ UNCHANGED <<job, link, reader, writing, received, broadcasts, since>>

-----------------------------------------------------------------------------
(* Hub.Run. *)

Take(j) ==
  /\ job = NoJob
  /\ job' = j

\* A browser opens /v1/ws: HandleWS blocks in RegisterClient until Run takes
\* the client, and then starts both pumps.
TakeRegister(c) ==
  /\ link[c] = "new"
  /\ Take([kind |-> "register", client |-> c])
  /\ link' = [link EXCEPT ![c] = "up"]
  /\ reader' = [reader EXCEPT ![c] = "reading"]
  /\ writing' = writing \cup {c}
  /\ UNCHANGED <<clients, userClients, buffer, closed, received, broadcasts,
                 since>>

\* The read pump blocks in UnregisterClient until Run takes the client.
TakeUnregister(c) ==
  /\ reader[c] = "leaving"
  /\ Take([kind |-> "unregister", client |-> c])
  /\ reader' = [reader EXCEPT ![c] = "off"]
  /\ UNCHANGED <<clients, userClients, buffer, closed, link, writing, received,
                 broadcasts, since>>

\* BroadcastEvent blocks its caller until Run takes the message, not until
\* Run has applied it.
TakeBroadcast(m) ==
  /\ Take([kind |-> "broadcast", message |-> m])
  /\ UNCHANGED <<clients, userClients, buffer, closed, link, reader, writing,
                 received, broadcasts, since>>

Has(kind) == job # NoJob /\ job.kind = kind

\* case client := <-h.register
Enrol ==
  /\ Has("register")
  /\ job' = NoJob
  /\ clients' = clients \cup {job.client}
  /\ userClients' = [u \in Users |->
       IF u = UserOf[job.client] THEN userClients[u] \cup {job.client}
       ELSE userClients[u]]
  /\ since' = [since EXCEPT ![job.client] = Len(broadcasts)]
  /\ UNCHANGED <<buffer, closed, link, reader, writing, received, broadcasts>>

\* case client := <-h.unregister: nothing is left to do for a client that
\* was dropped before.
Expel ==
  /\ Has("unregister")
  /\ job' = NoJob
  /\ Drop({job.client})
  /\ UNCHANGED <<buffer, link, reader, writing, received, broadcasts, since>>

\* case message := <-h.broadcast
Fanout ==
  /\ Has("broadcast")
  /\ job' = NoJob
  /\ Deliver(clients, job.message)
  /\ broadcasts' = Append(broadcasts, job.message)
  /\ UNCHANGED <<link, reader, writing, received, since>>

-----------------------------------------------------------------------------
(* The connections. *)

\* The browser or the network goes away.
Disconnect(c) ==
  /\ link[c] = "up"
  /\ link' = [link EXCEPT ![c] = "down"]
  /\ UNCHANGED <<clients, userClients, job, buffer, closed, reader, writing,
                 received, broadcasts, since>>

\* Mutant of ReadFails: the read pump ends without UnregisterClient.
ReadFailsQuietly(c) ==
  /\ reader[c] = "reading" /\ link[c] = "down"
  /\ reader' = [reader EXCEPT ![c] = "off"]
  /\ UNCHANGED <<clients, userClients, job, buffer, closed, link, writing,
                 received, broadcasts, since>>

\* ReadMessage returns an error: on to UnregisterClient.
ReadFails(c) ==
  /\ reader[c] = "reading" /\ link[c] = "down"
  /\ reader' = [reader EXCEPT ![c] = "leaving"]
  /\ UNCHANGED <<clients, userClients, job, buffer, closed, link, writing,
                 received, broadcasts, since>>

\* WritePump: the next message, from a closed channel too while it has one.
Write(c) ==
  /\ c \in writing /\ buffer[c] # <<>> /\ link[c] = "up"
  /\ received' = [received EXCEPT ![c] = Append(@, Head(buffer[c]))]
  /\ buffer' = [buffer EXCEPT ![c] = Tail(@)]
  /\ UNCHANGED <<clients, userClients, job, closed, link, reader, writing,
                 broadcasts, since>>

\* WritePump: WriteMessage returns an error.
WriteFails(c) ==
  /\ c \in writing /\ buffer[c] # <<>> /\ link[c] = "down"
  /\ buffer' = [buffer EXCEPT ![c] = Tail(@)]
  /\ writing' = writing \ {c}
  /\ UNCHANGED <<clients, userClients, job, closed, link, reader, received,
                 broadcasts, since>>

\* WritePump: the channel is closed and drained, Conn.Close follows.
WriteEnds(c) ==
  /\ c \in writing /\ buffer[c] = <<>> /\ c \in closed
  /\ writing' = writing \ {c}
  /\ link' = [link EXCEPT ![c] = "down"]
  /\ UNCHANGED <<clients, userClients, job, buffer, closed, reader, received,
                 broadcasts, since>>

\* The process dies: the hub and the connections with it.
HubLost ==
  /\ clients' = {}
  /\ userClients' = [u \in Users |-> {}]
  /\ job' = NoJob
  /\ buffer' = [c \in Conns |-> <<>>]
  /\ link' = [c \in Conns |-> IF link[c] = "new" THEN "new" ELSE "down"]
  /\ reader' = [c \in Conns |-> "off"]
  /\ writing' = {}
  /\ UNCHANGED <<closed, received, broadcasts, since>>

\* Hub.Run applies what it has taken.
Apply == Enrol \/ Expel \/ Fanout

Pump(c) ==
  \/ TakeRegister(c) \/ TakeUnregister(c) \/ ReadFails(c)
  \/ Write(c) \/ WriteFails(c) \/ WriteEnds(c)

HubNext ==
  Apply \/ \E c \in Conns : Disconnect(c) \/ Pump(c)

-----------------------------------------------------------------------------
\* Every variable of the hub has its type.
HubTypeOK ==
  /\ clients \subseteq Conns
  /\ userClients \in [Users -> SUBSET Conns]
  /\ job \in Job \cup {NoJob}
  /\ buffer \in [Conns -> Seq(Message)]
  /\ closed \subseteq Conns
  /\ link \in [Conns -> {"new", "up", "down"}]
  /\ reader \in [Conns -> {"off", "reading", "leaving"}]
  /\ writing \subseteq Conns
  /\ received \in [Conns -> Seq(Message)]
  /\ broadcasts \in Seq(Message)
  /\ since \in [Conns -> Nat]

\* No goroutine can send on a closed channel or close one twice, both of
\* which panic in Go: whoever drops a client, Run or the caller of
\* SendToUser, a closed channel is in neither registry any more.
NoSendOnClosed ==
  /\ clients \cap closed = {}
  /\ \A u \in Users : userClients[u] \cap closed = {}

\* Whenever the mutex is free both registries hold the same clients.
RegistriesAgree ==
  \A u \in Users : userClients[u] = {c \in clients : UserOf[c] = u}

\* A client still in the hub over a live connection has got, or has in its
\* channel, every broadcast since it was enrolled: a slow client is dropped
\* rather than served with gaps.
NoGaps ==
  \A c \in clients : link[c] = "up" =>
    \A i \in since[c] + 1 .. Len(broadcasts) :
      \E k \in DOMAIN (received[c] \o buffer[c]) :
        (received[c] \o buffer[c])[k] = broadcasts[i]
=============================================================================
