---------------------------- MODULE IncidentAgent ----------------------------
(***************************************************************************)
(* The incident diagnosis agent: one gunicorn worker that serves one       *)
(* request at a time.  The first investigation reads the knowledge         *)
(* document from Redis and keeps that copy until the process ends.  An     *)
(* approved example with the same fingerprint confirms a cause; otherwise  *)
(* a language model drafts an answer, which must pass validation and a     *)
(* critic, may be refined once and is downgraded if it is rejected again.  *)
(* The record is saved in three calls and only then returned.              *)
(*                                                                         *)
(* A draft is reduced to what the gates look at; the collected evidence to *)
(* its fingerprint.  Retrieval modes other than exact only choose the      *)
(* examples of the prompt, on which no decision depends.                   *)
(***************************************************************************)
EXTENDS Naturals, Sequences

CONSTANTS
  Fingerprints,  \* of normalized evidence
  Families,      \* knowledge keys
  Documents,     \* the knowledge documents reviewers may store
  Drafts,        \* the answers the language model may give
  MaxRecords,    \* length of the index of incidents (100 in the code)
  MaxIncidents,  \* bound on the alerts
  MaxFaults,     \* bound on failed calls and restarts together
  None           \* no service built, no request, no confirmed cause, no verdict

Document == [examples : SUBSET (Fingerprints \X Families), families : SUBSET Families]

\* A hypothesis that cites known evidence, nothing, or evidence nobody
\* collected; or none, with citations of such evidence ("stray") or not.
Hypotheses == {"none", "stray", "cited", "uncited", "unknown"}

\* shape: "sound" or "flawed" for validation, "text" when no dict can be made
\* of recommended_action (flawed too), "objects" when a list of citations
\* cannot be looked up in a set.  evidence: what evidence_refs cites.
Draft == [shape      : {"sound", "flawed", "text", "objects"},
          hypothesis : Hypotheses,
          evidence   : {"known", "unknown"},
          action     : {"investigation", "remediation"}]

\* What the critic answers: "pass" without issues, anything else that is to be
\* treated as a failed check, a verdict that cannot be looked up in a set, or
\* nothing.
Criticism == {"pass", "fail", "unhashable", "nothing"}

ASSUME DocumentsTyped == Documents \subseteq Document
ASSUME DraftsTyped    == Drafts \subseteq Draft
ASSUME RecordsBound   == MaxRecords \in Nat \ {0}
ASSUME IncidentsBound == MaxIncidents \in Nat
ASSUME FaultsBound    == MaxFaults \in Nat

VARIABLES
  document,   \* Redis: incident-agent:knowledge
  records,    \* Redis: incident-agent:incident:<id>, by id, as Verdicts
  index,      \* Redis: the list incident-agent:incidents, newest first
  corpus,     \* the copy of the document this process works with
  pc,         \* what the request in process does next
  alert,      \* its fingerprint
  draft,      \* the draft that would be published
  refined,    \* the second draft while it is judged
  criticism,  \* the answer of the critic while it is parsed
  result,     \* the response to be saved and returned
  answered,   \* the ids returned by POST /investigate
  alerts,     \* alerts received so far
  faults,     \* calls failed and restarts so far
  approved    \* history: what a stored document mapped without ambiguity

vars == <<document, records, index, corpus, pc, alert, draft, refined, criticism,
          result, answered, alerts, faults, approved>>

redis   == <<document, records, index>>
request == <<alert, draft, refined, criticism, result>>
history == <<answered, alerts, faults, approved>>

Steps == {"idle", "build", "retrieve", "generate", "validate", "criticise",
          "judge", "refine", "finalize", "set", "push", "trim", "answer"}

\* cause: the approved family whose diagnosis_cause and remediation are given.
Published == [fingerprint : Fingerprints, cause : Families \cup {None},
              hypothesis : Hypotheses, evidence : {"known", "unknown"},
              action : {"investigation", "remediation"}, reviewed : BOOLEAN]

\* What of a response decides whether its cause was approved.
Verdict == [fingerprint : Fingerprints, cause : Families \cup {None}]

VerdictOf(p) == [fingerprint |-> p.fingerprint, cause |-> p.cause]

ASSUME NoneFresh ==
  None \notin Fingerprints \cup Families \cup Document \cup Draft \cup Published

NewId == Len(records)

-----------------------------------------------------------------------------
\* The families that a document maps a fingerprint to without ambiguity, and
\* describes: at most one.
Unique(doc, f) == {k \in doc.families : {j \in Families : <<f, j>> \in doc.examples} = {k}}

Mapping(doc) == {p \in Fingerprints \X Families : p[2] \in Unique(doc, p[1])}

\* Retrieval and the lookup of the family, on the corpus.
\* Mutant: the family is looked up in Redis.
ConfirmableLive(f) ==
  {k \in document.families : {j \in Families : <<f, j>> \in corpus.examples} = {k}}

Confirmable(f) == Unique(corpus, f)

\* The answer when no provider answers: the selected log line, if there is one.
Fallbacks == {[shape |-> "sound", hypothesis |-> h, evidence |-> "known",
               action |-> "investigation"] : h \in {"none", "cited"}}

\* validate_diagnosis
Passes(d) == d.shape = "sound" /\ d.hypothesis \in {"none", "cited"}
                              /\ d.evidence = "known"

InHand == IF refined = None THEN draft ELSE refined

\* finalize_diagnosis of a rejected draft: evidence_refs stay as they are, and
\* so do the citations of a hypothesis that is empty.  Mutant: a hypothesis is
\* kept whatever it cites.
KeepHypothesis(d) == [d EXCEPT !.action = "investigation"]

Downgrade(d) == [d EXCEPT !.action = "investigation",
                          !.hypothesis = IF @ = "unknown" THEN "none" ELSE @]

Confirmed(k) == [fingerprint |-> alert, cause |-> k, hypothesis |-> "none",
                 evidence |-> "known", action |-> "remediation", reviewed |-> FALSE]

Advisory(d, accepted) == [fingerprint |-> alert, cause |-> None,
                          hypothesis |-> d.hypothesis, evidence |-> d.evidence,
                          action |-> d.action, reviewed |-> accepted]

Init ==
  /\ document \in Documents
  /\ records  = <<>>
  /\ index    = <<>>
  /\ corpus   = None
  /\ pc       = "idle"
  /\ alert    = None
  /\ draft    = None
  /\ refined  = None
  /\ criticism = None
  /\ result   = None
  /\ answered = {}
  /\ alerts   = 0
  /\ faults   = 0
  /\ approved = Mapping(document)

-----------------------------------------------------------------------------
\* Reviewers replace the whole document.
Curate(doc) ==
  /\ doc # document
  /\ document' = doc
  /\ approved' = approved \cup Mapping(doc)
  /\ UNCHANGED <<records, index, corpus, pc, request, answered, alerts, faults>>

Investigate(f) ==
  /\ pc = "idle" /\ alerts < MaxIncidents
  /\ alerts' = alerts + 1
  /\ alert' = f
  /\ pc' = IF corpus = None THEN "build" ELSE "retrieve"
  /\ UNCHANGED <<redis, corpus, draft, refined, criticism, result, answered,
                 faults, approved>>

\* build_investigation_service
Build ==
  /\ pc = "build"
  /\ corpus' = document
  /\ pc' = "retrieve"
  /\ UNCHANGED <<redis, request, history>>

\* The request ends, with an answer or with a 500.
Finish == /\ pc' = "idle"
          /\ alert' = None /\ draft' = None /\ refined' = None
          /\ criticism' = None /\ result' = None

\* What deciding a diagnosis leaves alone.
Deciding == UNCHANGED <<redis, corpus, alert, history>>

RetrieveExact(k) ==
  /\ pc = "retrieve" /\ k \in Confirmable(alert)
  /\ result' = Confirmed(k)
  /\ pc' = "set"
  /\ Deciding /\ UNCHANGED <<draft, refined, criticism>>

RetrieveAdvice ==
  /\ pc = "retrieve" /\ Confirmable(alert) = {}
  /\ pc' = "generate"
  /\ Deciding /\ UNCHANGED <<draft, refined, criticism, result>>

Generate(d) ==
  /\ pc = "generate"
  /\ draft' = d
  /\ pc' = "validate"
  /\ Deciding /\ UNCHANGED <<refined, criticism, result>>

\* The first draft may be refined once.  Mutant: as often as it is rejected.
RejectAgain ==
  /\ pc' = "refine"
  /\ refined' = None /\ criticism' = None
  /\ Deciding /\ UNCHANGED <<draft, result>>

Reject ==
  /\ pc' = IF refined = None THEN "refine" ELSE "finalize"
  /\ refined' = None /\ criticism' = None
  /\ Deciding /\ UNCHANGED <<draft, result>>

Validate ==
  /\ pc = "validate" /\ Passes(InHand)
  /\ pc' = "criticise"
  /\ Deciding /\ UNCHANGED <<draft, refined, criticism, result>>

Invalidate ==
  /\ pc = "validate" /\ ~Passes(InHand) /\ InHand.shape # "objects"
  /\ Reject

\* The critic is asked, by the same provider.
Criticise(c) ==
  /\ pc = "criticise"
  /\ criticism' = c
  /\ pc' = "judge"
  /\ Deciding /\ UNCHANGED <<draft, refined, result>>

\* A second draft replaces the first when it is accepted, and only then.
CriticPasses ==
  /\ pc = "judge" /\ criticism = "pass"
  /\ result' = Advisory(InHand, TRUE)
  /\ criticism' = None
  /\ pc' = "set"
  /\ Deciding /\ UNCHANGED <<draft, refined>>

\* Mutant: the exception of no answer is not caught.
CriticUncaught ==
  \/ pc = "judge" /\ criticism = "fail" /\ Reject
  \/ /\ pc = "judge" /\ criticism = "nothing"
     /\ Finish
     /\ UNCHANGED <<redis, corpus, history>>

\* A verdict other than "pass", issues in spite of it, an answer that is no
\* verdict, or no answer.
CriticRejects == pc = "judge" /\ criticism \in {"fail", "nothing"} /\ Reject

Refine(d) ==
  /\ pc = "refine"
  /\ refined' = d
  /\ pc' = "validate"
  /\ Deciding /\ UNCHANGED <<draft, criticism, result>>

RefineFails ==
  /\ pc = "refine"
  /\ pc' = "finalize"
  /\ Deciding /\ UNCHANGED <<draft, refined, criticism, result>>

Finalize ==
  /\ pc = "finalize" /\ draft.shape # "text"
  /\ result' = Advisory(Downgrade(draft), FALSE)
  /\ pc' = "set"
  /\ Deciding /\ UNCHANGED <<draft, refined, criticism>>

\* IncidentStore.save: SET, LPUSH, LTRIM.  Mutant: the error of SET is ignored.
SetIgnored ==
  /\ pc = "set"
  /\ pc' = "push"
  /\ UNCHANGED <<redis, corpus, request, history>>

Set ==
  /\ pc = "set"
  /\ records' = Append(records, VerdictOf(result))
  /\ pc' = "push"
  /\ UNCHANGED <<document, index, corpus, request, history>>

Push ==
  /\ pc = "push"
  /\ index' = <<NewId>> \o index
  /\ pc' = "trim"
  /\ UNCHANGED <<document, records, corpus, request, history>>

\* Mutant: LTRIM 1 MaxRecords.
TrimNewest ==
  /\ pc = "trim"
  /\ index' = Tail(index)
  /\ pc' = "answer"
  /\ UNCHANGED <<document, records, corpus, request, history>>

Trim ==
  /\ pc = "trim"
  /\ index' = IF Len(index) > MaxRecords THEN SubSeq(index, 1, MaxRecords) ELSE index
  /\ pc' = "answer"
  /\ UNCHANGED <<document, records, corpus, request, history>>

Answer ==
  /\ pc = "answer"
  /\ answered' = answered \cup {NewId}
  /\ Finish
  /\ UNCHANGED <<redis, corpus, alerts, faults, approved>>

\* validate_diagnosis hashes the citations, finalize_diagnosis makes a dict
\* of the action, the parser of the critic hashes the verdict: each raises on
\* an answer of another shape, and nothing is saved.
Raise ==
  /\ \/ pc = "validate" /\ InHand.shape = "objects"
     \/ pc = "judge" /\ criticism = "unhashable"
     \/ pc = "finalize" /\ draft.shape = "text"
  /\ Finish
  /\ UNCHANGED <<redis, corpus, history>>

-----------------------------------------------------------------------------
Fault == /\ faults < MaxFaults
         /\ faults' = faults + 1

\* A call of Redis fails, the one to come or, after its effect, the last one.
RedisFails ==
  /\ Fault
  /\ pc \in {"build", "set", "push", "trim", "answer"}
  /\ Finish
  /\ UNCHANGED <<redis, corpus, answered, alerts, approved>>

\* The client library repeats a call whose reply was lost: of the four calls
\* only LPUSH has another effect the second time.
PushRepeated ==
  /\ Fault
  /\ pc = "push"
  /\ index' = <<NewId, NewId>> \o index
  /\ pc' = "trim"
  /\ UNCHANGED <<document, records, corpus, request, answered, alerts, approved>>

\* The process ends: a deployment, a crash, or gunicorn's timeout.
Restart ==
  /\ Fault
  /\ corpus # None \/ pc # "idle"
  /\ corpus' = None
  /\ Finish
  /\ UNCHANGED <<redis, answered, alerts, approved>>

-----------------------------------------------------------------------------
Decide ==
  \/ Build \/ RetrieveAdvice \/ \E k \in Families : RetrieveExact(k)
  \/ \E d \in Drafts \cup Fallbacks : Generate(d)
  \/ Validate \/ Invalidate
  \/ CriticPasses \/ CriticRejects \/ \E c \in Criticism : Criticise(c)
  \/ RefineFails \/ \E d \in Drafts : Refine(d)
  \/ Finalize \/ Raise

Save == Set \/ Push \/ Trim \/ Answer

Next ==
  \/ \E doc \in Documents : Curate(doc)
  \/ \E f \in Fingerprints : Investigate(f)
  \/ Decide \/ Save \/ RedisFails \/ PushRepeated \/ Restart

Spec == Init /\ [][Next]_vars

\* The worker runs; nothing is assumed of reviewers and alerts.
FairSpec == Spec /\ WF_vars(Decide \/ Save)

-----------------------------------------------------------------------------
\* Types of the store and of the request in process.
TypeOK ==
  /\ document \in Documents
  /\ corpus   \in Documents \cup {None}
  /\ records  \in Seq(Verdict)
  /\ index    \in Seq(DOMAIN records)
  /\ pc       \in Steps
  /\ alert    \in Fingerprints \cup {None}
  /\ draft    \in Draft \cup {None}
  /\ refined  \in Draft \cup {None}
  /\ criticism \in Criticism \cup {None}
  /\ result   \in Published \cup {None}
  /\ answered \subseteq DOMAIN records
  /\ alerts   \in 0 .. MaxIncidents
  /\ faults   \in 0 .. MaxFaults
  /\ approved \subseteq Fingerprints \X Families

\* A cause is confirmed only for a fingerprint that some version of the
\* knowledge document mapped to this family alone, example and family taken
\* from one version (KnowledgeStore.corpus: one read view).
ConfirmationApproved ==
  \A i \in DOMAIN records :
    records[i].cause # None =>
      <<records[i].fingerprint, records[i].cause>> \in approved

\* What the gates did not pass is published without a cause, without a
\* remediation and without a hypothesis that rests on evidence nobody
\* collected; what they passed cites collected evidence only
\* (decide_diagnosis, finalize_diagnosis).  Of a draft they did not pass,
\* evidence_refs and the citations of an empty hypothesis are published as the
\* language model wrote them.
UnreviewedWithheld ==
  result # None =>
    /\ result.hypothesis # "unknown"
    /\ result.cause = None /\ ~result.reviewed => result.action = "investigation"
    /\ result.reviewed => /\ result.cause = None
                          /\ result.hypothesis \in {"none", "cited"}
                          /\ result.evidence = "known"

\* An answered incident can be found: it stays in the index until MaxRecords
\* newer entries have displaced it, whatever fails between SET, LPUSH and LTRIM
\* of the others; the index is in the order of the answers, and lists one of
\* them twice only after a fault.
AnsweredIsKept ==
  /\ \A i, j \in DOMAIN index :
       i < j => index[i] > index[j] \/ (index[i] = index[j] /\ faults > 0)
  /\ \A id \in answered :
       \/ \E i \in DOMAIN index : index[i] = id
       \/ Len(index) >= MaxRecords /\ \A i \in 1 .. MaxRecords : index[i] > id

\* An investigation ends without an answer only after a failed call, a
\* restart, or an answer of the language model that a gate raises on: a draft,
\* or a verdict of the critic, which it is free to give any JSON value.
UnansweredExplained ==
  [][pc # "idle" /\ pc' = "idle" =>
       \/ answered' # answered
       \/ faults' # faults
       \/ InHand # None /\ InHand.shape \in {"text", "objects"}
       \/ criticism = "unhashable"]_vars

\* Every investigation ends, whatever the language model answers: there is
\* one refinement at most.
InvestigationEnds == (pc # "idle") ~> (pc = "idle")
=============================================================================
