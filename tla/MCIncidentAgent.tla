--------------------------- MODULE MCIncidentAgent ---------------------------
(* Two fingerprints, of which the reviewers know one, and two families.     *)
EXTENDS IncidentAgent

CONSTANTS f1, f2, k1, k2

\* An example whose family is still missing; a family without an
\* example; both; the example in two families.
MCDocuments == {
  [examples |-> {<<f1, k1>>},             families |-> {}],
  [examples |-> {},                       families |-> {k1, k2}],
  [examples |-> {<<f1, k1>>},             families |-> {k1, k2}],
  [examples |-> {<<f1, k1>>, <<f1, k2>>}, families |-> {k1, k2}]}

MCDrafts == {
  [shape |-> "sound",   hypothesis |-> "cited",   evidence |-> "known",
   action |-> "remediation"],
  [shape |-> "sound",   hypothesis |-> "uncited", evidence |-> "known",
   action |-> "remediation"],
  [shape |-> "sound",   hypothesis |-> "stray",   evidence |-> "unknown",
   action |-> "remediation"],
  [shape |-> "flawed",  hypothesis |-> "unknown", evidence |-> "known",
   action |-> "remediation"],
  [shape |-> "text",    hypothesis |-> "cited",   evidence |-> "known",
   action |-> "investigation"],
  [shape |-> "objects", hypothesis |-> "cited",   evidence |-> "known",
   action |-> "investigation"]}
=============================================================================
