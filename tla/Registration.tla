---------------------------- MODULE Registration ----------------------------
(***************************************************************************)
(* Registration and login of user-service.  A registration looks the       *)
(* address up, hashes the password and inserts the account and its         *)
(* User.Created event in one transaction.  Nothing but the UNIQUE          *)
(* constraint of the column users.email stands between two registrations   *)
(* of one address that both find it free, on one replica or on several:    *)
(* Postgres lets the second INSERT wait until the first transaction has    *)
(* ended.  Calls fail, requests are abandoned by their caller or by a      *)
(* crash of the replica, and a COMMIT may fail after it took effect.       *)
(***************************************************************************)
EXTENDS Naturals, FiniteSets

CONSTANTS
  Requests,    \* the calls of POST /v1/auth/register whose body binds
  Addresses,   \* e-mail addresses: compared as typed, case included
  AddressOf,   \* the address a request asks for
  PasswordOf,  \* the password it comes with
  RefusedBy,   \* what refuses the data of a request, if anything
  MaxFaults    \* bound on failed calls and abandoned requests together

ASSUME RequestsFinite == IsFiniteSet(Requests)
ASSUME AddressTyped   == AddressOf \in [Requests -> Addresses]
ASSUME FaultsBound    == MaxFaults \in Nat

\* "format": NewEmail or NewPhoneNumber.  "hash": a password of more than 72
\* bytes, for bcrypt.  "column": a name or a phone number that table users is
\* too narrow for.
Refusals == {"nothing", "format", "hash", "column"}

ASSUME RefusalsTyped == RefusedBy \in [Requests -> Refusals]

VARIABLES
  pc,        \* the call a request makes next
  inserted,  \* the accounts inserted by transactions that are still open
  users,     \* the accounts of table users, named by their request
  events,    \* the User.Created rows of outbox_events
  reply,     \* what the caller was told: 201, or 409 for every error
  failed,    \* history: the requests one of whose calls failed
  faults     \* calls failed and requests abandoned so far

vars == <<pc, inserted, users, events, reply, failed, faults>>

Replies   == {"none", "created", "conflict"}
InTx      == {"event", "commit"}
InFlight  == {"lookup", "insert", "answer"} \cup InTx

-----------------------------------------------------------------------------
\* The accounts SELECT ... WHERE email = $1 may return.
Found(a) == {u \in users : AddressOf[u] = a}

Taken(a) == Found(a) # {}

\* Login: one SELECT and a comparison, no change of state.
LogsIn(a, password) ==
  Taken(a) /\ \A u \in Found(a) : PasswordOf[u] = password

\* An INSERT waits for the open transaction that holds its key.
Waits(r) == \E u \in inserted \ {r} : AddressOf[u] = AddressOf[r]

Init ==
  /\ pc       = [r \in Requests |-> "idle"]
  /\ inserted = {}
  /\ users    = {}
  /\ events   = {}
  /\ reply    = [r \in Requests |-> "none"]
  /\ failed   = {}
  /\ faults   = 0

Goto(r, step) == pc' = [pc EXCEPT ![r] = step]

Begin(r) ==
  /\ pc[r] = "idle" /\ RefusedBy[r] # "format"
  /\ Goto(r, "lookup")
  /\ UNCHANGED <<inserted, users, events, reply, failed, faults>>

\* An error is answered 409 by the handler, whatever it is; the deferred
\* Rollback has removed what the transaction had inserted.
\* Mutant: the deferred Rollback is missing, the transaction stays open.
RefuseOpen(r) ==
  /\ Goto(r, "done")
  /\ reply' = [reply EXCEPT ![r] = "conflict"]
  /\ UNCHANGED <<inserted, users, events>>

Refuse(r) ==
  /\ Goto(r, "done")
  /\ reply' = [reply EXCEPT ![r] = "conflict"]
  /\ inserted' = inserted \ {r}
  /\ UNCHANGED <<users, events>>

RefuseFormat(r) ==
  /\ pc[r] = "idle" /\ RefusedBy[r] = "format"
  /\ Refuse(r)
  /\ UNCHANGED <<failed, faults>>

\* GetByEmail sees committed rows only; the password of a free address is
\* hashed.
LookupFree(r) ==
  /\ pc[r] = "lookup" /\ ~Taken(AddressOf[r]) /\ RefusedBy[r] # "hash"
  /\ Goto(r, "insert")
  /\ UNCHANGED <<inserted, users, events, reply, failed, faults>>

RefuseHash(r) ==
  /\ pc[r] = "lookup" /\ ~Taken(AddressOf[r]) /\ RefusedBy[r] = "hash"
  /\ Refuse(r)
  /\ UNCHANGED <<failed, faults>>

LookupTaken(r) ==
  /\ pc[r] = "lookup" /\ Taken(AddressOf[r])
  /\ Refuse(r)
  /\ UNCHANGED <<failed, faults>>

\* Mutant: no unique constraint, only the lookup that came before.
CreateUserUnconstrained(r) ==
  /\ pc[r] = "insert" /\ RefusedBy[r] # "column"
  /\ inserted' = inserted \cup {r}
  /\ Goto(r, "event")
  /\ UNCHANGED <<users, events, reply, failed, faults>>

CreateUser(r) ==
  /\ pc[r] = "insert" /\ RefusedBy[r] # "column"
  /\ ~Waits(r) /\ ~Taken(AddressOf[r])
  /\ inserted' = inserted \cup {r}
  /\ Goto(r, "event")
  /\ UNCHANGED <<users, events, reply, failed, faults>>

\* The values are checked before the key is.
RefuseColumn(r) ==
  /\ pc[r] = "insert" /\ RefusedBy[r] = "column"
  /\ Refuse(r)
  /\ UNCHANGED <<failed, faults>>

\* Mutant: the constraint is violated by a row that is not committed.
ViolatesUniqueEarly(r) ==
  /\ pc[r] = "insert" /\ RefusedBy[r] # "column"
  /\ Waits(r) \/ Taken(AddressOf[r])
  /\ Refuse(r)
  /\ UNCHANGED <<failed, faults>>

ViolatesUnique(r) ==
  /\ pc[r] = "insert" /\ RefusedBy[r] # "column"
  /\ ~Waits(r) /\ Taken(AddressOf[r])
  /\ Refuse(r)
  /\ UNCHANGED <<failed, faults>>

CreateEvent(r) ==
  /\ pc[r] = "event"
  /\ Goto(r, "commit")
  /\ UNCHANGED <<inserted, users, events, reply, failed, faults>>

\* Both rows of the transaction become visible.
Store(r) ==
  /\ inserted' = inserted \ {r}
  /\ users'    = users \cup {r}
  /\ events'   = events \cup {r}

Commit(r) ==
  /\ pc[r] = "commit"
  /\ Store(r)
  /\ Goto(r, "answer")
  /\ UNCHANGED <<reply, failed, faults>>

\* Mutant: 200 instead of 201.
AnswerOK(r) ==
  /\ pc[r] = "answer"
  /\ Goto(r, "done")
  /\ reply' = [reply EXCEPT ![r] = "ok"]
  /\ UNCHANGED <<inserted, users, events, failed, faults>>

\* The token is signed and the answer written.
Answer(r) ==
  /\ pc[r] = "answer"
  /\ Goto(r, "done")
  /\ reply' = [reply EXCEPT ![r] = "created"]
  /\ UNCHANGED <<inserted, users, events, failed, faults>>

-----------------------------------------------------------------------------
Fault(r) == /\ faults < MaxFaults
            /\ faults' = faults + 1

\* GetByEmail, BeginTx, one of the INSERTs, the COMMIT or, when the account
\* is stored already, the signing of the token returns an error.
\* Mutant: the error of the COMMIT is ignored.
CommitErrorIgnored(r) ==
  /\ Fault(r)
  /\ pc[r] = "commit"
  /\ Goto(r, "answer")
  /\ inserted' = inserted \ {r}
  /\ failed' = failed \cup {r}
  /\ UNCHANGED <<users, events, reply>>

CallFails(r) ==
  /\ Fault(r)
  /\ pc[r] \in InFlight
  /\ Refuse(r)
  /\ failed' = failed \cup {r}

\* The COMMIT takes effect and its reply is lost: a 409 all the same.
CommitReplyLost(r) ==
  /\ Fault(r)
  /\ pc[r] = "commit"
  /\ Store(r)
  /\ Goto(r, "done")
  /\ reply' = [reply EXCEPT ![r] = "conflict"]
  /\ failed' = failed \cup {r}

\* The caller hangs up, which cancels the context of the request, or the
\* replica crashes: nobody is answered, Postgres rolls back.
Abandon(r) ==
  /\ Fault(r)
  /\ pc[r] \in InFlight
  /\ Goto(r, "done")
  /\ inserted' = inserted \ {r}
  /\ UNCHANGED <<users, events, reply, failed>>

-----------------------------------------------------------------------------
Step(r) == \/ LookupFree(r) \/ RefuseHash(r) \/ LookupTaken(r)
           \/ CreateUser(r) \/ RefuseColumn(r) \/ ViolatesUnique(r)
           \/ CreateEvent(r) \/ Commit(r) \/ Answer(r)

Next == \E r \in Requests : \/ Begin(r) \/ RefuseFormat(r) \/ Step(r)
                            \/ CallFails(r) \/ CommitReplyLost(r) \/ Abandon(r)

Spec == Init /\ [][Next]_vars

\* A handler runs to its end: no fairness of callers and none of faults.
FairSpec == Spec /\ \A r \in Requests : WF_vars(Step(r))

-----------------------------------------------------------------------------
\* Types, and the transactions that are open.
TypeOK ==
  /\ pc       \in [Requests -> {"idle", "done"} \cup InFlight]
  /\ inserted \subseteq Requests
  /\ users    \subseteq Requests
  /\ events   \subseteq Requests
  /\ reply    \in [Requests -> Replies]
  /\ failed   \subseteq Requests
  /\ faults   \in 0 .. MaxFaults

\* However many registrations find one address free, one of them creates an
\* account, and an account is there with its User.Created or not at all
\* (CreateWithOutbox, the UNIQUE column of the first migration).
OneAccountOneEvent ==
  /\ \A u, v \in users : AddressOf[u] = AddressOf[v] => u = v
  /\ events = users

\* A 409 means that somebody has the address, unless a call of the request
\* failed or its data was refused, which the handler answers 409 as well: a
\* rival that was rolled back in the end refuses nobody.
ConflictMeansTaken ==
  \A r \in Requests :
    reply[r] = "conflict" =>
      Taken(AddressOf[r]) \/ r \in failed \/ RefusedBy[r] # "nothing"

\* Who was answered 201 can log in with the password of that request,
\* whoever registered, retried or failed at the same address meanwhile.
CreatedCanLogIn ==
  \A r \in Requests :
    reply[r] = "created" => LogsIn(AddressOf[r], PasswordOf[r])

\* Every registration ends: an INSERT that waits for a rival is woken.
RegistrationEnds ==
  \A r \in Requests : (pc[r] # "idle") ~> (pc[r] = "done")
=============================================================================
