-------------------------- MODULE VerificationProofs --------------------------
(***************************************************************************)
(* What the verdicts of module Verification mean, for every set of fields, *)
(* every identity and every answer of an adapter, that the results a       *)
(* managed tool is decided on are always well formed, that an absence and  *)
(* an installation are as the manager's entries have them, and that a      *)
(* manager which answers and installs as asked is believed, for every      *)
(* candidate and every universe of entries of module ManagedTool.          *)
(***************************************************************************)
EXTENDS ManagedTool, FiniteSetTheorems, TLAPS

\* The identity that states nothing has no field.
LEMMA NothingEmpty == DOMAIN Nothing = {}
  BY DEF Nothing

\* A broken observation is a well-formed result.
LEMMA BrokenValid == Validate(Broken)
  BY NothingEmpty DEF Broken, Validate, Verdicts, Readable

\* The comparison of readable identities is a well-formed result: drift is
\* between known values that differ, and nothing is both known and not
\* (Reconcile, the branch of a target that is there).
LEMMA CompareValid ==
  ASSUME NEW desired, NEW observation,
         Readable(desired), Readable(observation.known)
  PROVE  Validate(Compare(desired, observation))
<1> DEFINE drift  == Drift(desired, observation.known)
           unseen == Unseen(desired, observation.known)
           result == Compare(desired, observation)
<1>1. /\ result.known = observation.known
      /\ result.drift = drift
      /\ result.unverifiable = unseen
      /\ result.state = IF DOMAIN drift # {} THEN "drifted"
                        ELSE IF unseen # {} THEN "unknown" ELSE "satisfied"
  BY DEF Compare
<1>2. DOMAIN drift = {g \in DOMAIN desired \cap DOMAIN observation.known :
                        desired[g] # observation.known[g]}
  BY DEF Drift
<1>3. ASSUME NEW f \in DOMAIN drift
      PROVE  /\ drift[f].want = desired[f]
             /\ drift[f].got = observation.known[f]
             /\ desired[f] # observation.known[f]
             /\ desired[f] \notin Malformed
  <2>1. /\ f \in DOMAIN desired
        /\ desired[f] # observation.known[f]
    BY <1>2
  <2>2. drift[f] = [want |-> desired[f], got |-> observation.known[f]]
    BY <1>2 DEF Drift
  <2> QED
    BY <2>1, <2>2 DEF Readable
<1>4. unseen \subseteq Fields /\ unseen \cap DOMAIN observation.known = {}
  BY DEF Unseen, Readable
<1>5. result.state \in Verdicts
  BY <1>1 DEF Verdicts
<1>6. DOMAIN drift \subseteq DOMAIN observation.known
  BY <1>2
<1>7. /\ result.state = "satisfied" => DOMAIN drift = {} /\ unseen = {}
      /\ result.state = "drifted" => DOMAIN drift # {}
      /\ result.state = "unknown" => DOMAIN drift = {} /\ unseen # {}
      /\ result.state \notin {"absent", "broken"}
  BY <1>1
<1> HIDE DEF drift, unseen, result
<1> QED
  BY <1>1, <1>3, <1>4, <1>5, <1>6, <1>7 DEF Validate, result, drift, unseen

\* So is the result of a target that is not there, or perhaps is.
LEMMA UnestablishedValid ==
  ASSUME NEW desired, NEW observation, Readable(desired),
         observation.presence \in {"absent", "unknown"}
  PROVE  Validate(Unestablished(desired, observation))
<1> DEFINE result == Unestablished(desired, observation)
<1>1. /\ result.state = observation.presence
      /\ result.known = Nothing /\ result.drift = Nothing
      /\ result.state = "absent" => result.unverifiable = {}
      /\ result.state = "unknown" => result.unverifiable = DOMAIN desired
      /\ result.state = "unknown" /\ DOMAIN desired = {} => result.detail
  BY DEF Unestablished
<1>2. DOMAIN desired \subseteq Fields
  BY DEF Readable
<1>3. Readable(Nothing)
  BY NothingEmpty DEF Readable
<1>4. result.state \in {"absent", "unknown"}
  BY <1>1
<1> HIDE DEF result
<1> QED
  BY <1>1, <1>2, <1>3, <1>4, NothingEmpty DEF Validate, Verdicts, result

\* Whatever identity was resolved and whatever an adapter answers, the result
\* is one that VerificationResult.Validate accepts: no caller is handed a
\* result that MarshalJSON refuses to write.
THEOREM ReconcileValid ==
  ASSUME NEW desired, NEW observation
  PROVE  Validate(Reconcile(desired, observation))
<1>1. CASE ~Readable(desired) \/ ~Readable(observation.known)
  BY <1>1, BrokenValid DEF Reconcile
<1>2. CASE Readable(desired) /\ Readable(observation.known)
  <2>1. CASE observation.presence = "present"
    BY <1>2, <2>1, CompareValid DEF Reconcile
  <2>2. CASE observation.presence \in {"absent", "unknown"}
    BY <1>2, <2>2, UnestablishedValid DEF Reconcile
  <2>3. CASE observation.presence \notin {"present", "absent", "unknown"}
    BY <1>2, <2>3, BrokenValid DEF Reconcile
  <2> QED
    BY <2>1, <2>2, <2>3
<1> QED
  BY <1>1, <1>2

\* A target counts as satisfied only if it was found and every field the plan
\* desires was observed with the value the plan gives it.
THEOREM SatisfiedIsMet ==
  ASSUME NEW desired, NEW observation,
         Reconcile(desired, observation).state = "satisfied"
  PROVE  /\ observation.presence = "present"
         /\ \A f \in DOMAIN desired : /\ f \in DOMAIN observation.known
                                      /\ observation.known[f] = desired[f]
<1>1. /\ Readable(desired) /\ Readable(observation.known)
      /\ observation.presence = "present"
  BY DEF Reconcile, Broken, Unestablished
<1>2. Compare(desired, observation).state = "satisfied"
  BY <1>1 DEF Reconcile
<1>3. /\ DOMAIN Drift(desired, observation.known) = {}
      /\ Unseen(desired, observation.known) = {}
  BY <1>2 DEF Compare
<1>4. \A f \in DOMAIN desired : f \in DOMAIN observation.known
  BY <1>3 DEF Unseen
<1>5. {g \in DOMAIN desired \cap DOMAIN observation.known :
         desired[g] # observation.known[g]} = {}
  BY <1>3 DEF Drift
<1> QED
  BY <1>1, <1>4, <1>5

\* Drift is evidence: the target was found, and some field the plan desires
\* was observed with another value.
THEOREM DriftedDiffers ==
  ASSUME NEW desired, NEW observation,
         Reconcile(desired, observation).state = "drifted"
  PROVE  /\ observation.presence = "present"
         /\ \E f \in DOMAIN desired \cap DOMAIN observation.known :
              observation.known[f] # desired[f]
<1>1. /\ Readable(desired) /\ Readable(observation.known)
      /\ observation.presence = "present"
  BY DEF Reconcile, Broken, Unestablished
<1>2. Compare(desired, observation).state = "drifted"
  BY <1>1 DEF Reconcile
<1>3. DOMAIN Drift(desired, observation.known) # {}
  BY <1>2 DEF Compare
<1>4. {g \in DOMAIN desired \cap DOMAIN observation.known :
         desired[g] # observation.known[g]} # {}
  BY <1>3 DEF Drift
<1> QED
  BY <1>1, <1>4

\* Absence is what the adapter said, never what is left when it said nothing.
LEMMA AbsentWasSaid ==
  ASSUME NEW desired, NEW observation,
         Reconcile(desired, observation).state = "absent"
  PROVE  observation.presence = "absent"
  BY DEF Reconcile, Broken, Unestablished, Compare

\* An install or an upgrade goes ahead only on an answer of the adapter that
\* is no error: install on an absence it reported, upgrade on a target it
\* found and that differs in a field the contract verifies
\* (TransitionForVerification over VerifyResolvedCandidate).
THEOREM TransitionNeedsEvidence ==
  ASSUME NEW verified, NEW identity, NEW observation
  PROVE  LET result == VerifyResolvedCandidate(verified, identity, observation)
         IN /\ TransitionForVerification(result) = "install" =>
                 ~observation.err /\ observation.presence = "absent"
            /\ TransitionForVerification(result) = "upgrade" =>
                 /\ ~observation.err /\ observation.presence = "present"
                 /\ \E f \in DOMAIN identity \cap verified \cap
                             DOMAIN observation.known :
                      observation.known[f] # identity[f]
<1> DEFINE desired  == Project(verified, identity)
           answer   == ObserveResolvedCandidate(observation)
           result   == Reconcile(desired, answer)
<1>1. VerifyResolvedCandidate(verified, identity, observation) = result
  BY DEF VerifyResolvedCandidate
<1>2. ASSUME answer.presence \in {"absent", "present"}
      PROVE  /\ ~observation.err
             /\ observation.presence = answer.presence
             /\ observation.known = answer.known
  BY <1>2 DEF ObserveResolvedCandidate, Presences
<1>3. /\ DOMAIN desired = DOMAIN identity \cap verified
      /\ \A f \in DOMAIN desired : desired[f] = identity[f]
  BY DEF Project
<1>4. ASSUME TransitionForVerification(result) = "install"
      PROVE  ~observation.err /\ observation.presence = "absent"
  <2>1. result.state = "absent"
    BY <1>4 DEF TransitionForVerification
  <2>2. answer.presence = "absent"
    BY <2>1, AbsentWasSaid
  <2> HIDE DEF answer
  <2> QED
    BY <1>2, <2>2
<1>5. ASSUME TransitionForVerification(result) = "upgrade"
      PROVE  /\ ~observation.err /\ observation.presence = "present"
             /\ \E f \in DOMAIN identity \cap verified \cap
                         DOMAIN observation.known :
                  observation.known[f] # identity[f]
  <2>1. result.state = "drifted"
    BY <1>5 DEF TransitionForVerification
  <2>2. /\ answer.presence = "present"
        /\ \E f \in DOMAIN desired \cap DOMAIN answer.known :
             answer.known[f] # desired[f]
    BY <2>1, DriftedDiffers
  <2> HIDE DEF answer, desired
  <2> QED
    BY <1>2, <1>3, <2>2
<1> HIDE DEF result
<1> QED
  BY <1>1, <1>4, <1>5

-----------------------------------------------------------------------------
(* A managed tool.                                                         *)

\* The verdict of every observation is well formed.
LEMMA VerdictValid == Validate(Verdict)
  BY ReconcileValid DEF Verdict, VerifyResolvedCandidate

\* A result is well formed whatever was observed: only facts of a target that
\* is there, no field both known and not, and no drift that is none
\* (VerificationResult.Validate).
ResultsValid == verdict.state # "none" => Validate(verdict)

\* What the plan demands of the host, as far as the contract verifies it.
Demanded == Project(Verifies(c.kind), Plan)

\* The verdict states each of these fields with the value of the plan.
VerdictMeetsPlan ==
  \A f \in DOMAIN Demanded : /\ f \in DOMAIN verdict.known
                             /\ verdict.known[f] = Demanded[f]

\* What is done to the host, and what is reported, rests on the verdict at
\* hand: a target is installed that was absent, one is removed that was
\* found, and what counts as installed has every field the plan demands.
DecidedOnEvidence ==
  /\ stage = "install" => verdict.state = "absent"
  /\ stage = "uninstall" => verdict.state \in {"satisfied", "drifted"}
  /\ outcome \in {"already", "installed"} =>
       verdict.state = "satisfied" /\ VerdictMeetsPlan

\* While a command is in progress it has reported nothing.
NothingReportedYet == stage # "idle" => outcome = ""

DecidedInv == DecidedOnEvidence /\ NothingReportedYet

\* A satisfied verdict states the demanded fields as they were observed.
LEMMA SatisfiedVerdict ==
  ASSUME Verdict.state = "satisfied"
  PROVE  \A f \in DOMAIN Demanded : /\ f \in DOMAIN Verdict.known
                                    /\ Verdict.known[f] = Demanded[f]
<1> DEFINE answer == ObserveResolvedCandidate(Observation)
<1>1. Verdict = Reconcile(Demanded, answer)
  BY DEF Verdict, VerifyResolvedCandidate, Demanded
<1>2. /\ answer.presence = "present"
      /\ \A f \in DOMAIN Demanded : /\ f \in DOMAIN answer.known
                                    /\ answer.known[f] = Demanded[f]
  BY <1>1, SatisfiedIsMet
<1>3. Verdict.known = answer.known
  BY <1>1, <1>2 DEF Reconcile, Compare, Broken
<1> HIDE DEF answer
<1> QED
  BY <1>2, <1>3

\* A tool starts with no verdict, nothing in progress and nothing reported.
LEMMA InitDecided == Init => ResultsValid /\ DecidedInv
<1> SUFFICES ASSUME Init
             PROVE  ResultsValid /\ DecidedInv
  OBVIOUS
<1>1. stage = "idle" /\ outcome = "" /\ verdict = NoVerdict
  BY DEF Init
<1>2. verdict.state = "none"
  BY <1>1 DEF NoVerdict
<1> QED
  BY <1>1, <1>2
  DEF ResultsValid, DecidedInv, DecidedOnEvidence, NothingReportedYet

\* Every step keeps the verdict well formed: it is taken from an observation,
\* kept, or dropped.
LEMMA NextValid == ResultsValid /\ [Next]_vars => ResultsValid'
<1> SUFFICES ASSUME ResultsValid, [Next]_vars
             PROVE  ResultsValid'
  OBVIOUS
<1>1. CASE UNCHANGED verdict
  <2>1. Validate(verdict)' <=> Validate(verdict)
    BY <1>1 DEF Validate, Readable
  <2> QED
    BY <1>1, <2>1 DEF ResultsValid
<1>2. CASE verdict' = NoVerdict
  BY <1>2 DEF ResultsValid, NoVerdict
<1>3. CASE verdict' = Verdict
  <2>1. Validate(verdict')
    BY <1>3, VerdictValid
  <2> QED
    BY <2>1 DEF ResultsValid
<1>4. CASE StartInstall \/ StartRemoval
  BY <1>2, <1>4 DEF StartInstall, StartRemoval, Start
<1>5. ASSUME NEW fault \in Faults \cup {"none"}, Ask(fault)
      PROVE  UNCHANGED verdict
  BY <1>5 DEF Ask
<1>6. CASE GateAlreadyInstalled
  BY <1>3, <1>6 DEF GateAlreadyInstalled
<1>7. CASE InstallResolved
  BY <1>2, <1>7 DEF InstallResolved
<1>8. CASE ConfirmNativeInstall
  BY <1>1, <1>8 DEF ConfirmNativeInstall
<1>9. CASE VerifyInstalled
  BY <1>3, <1>9 DEF VerifyInstalled
<1>10. CASE DecideRemoval
  BY <1>3, <1>10 DEF DecideRemoval
<1>11. CASE RemoveResolved
  BY <1>1, <1>11 DEF RemoveResolved
<1>12. CASE Outsider
  BY <1>1, <1>12 DEF Outsider
<1>13. CASE UNCHANGED vars
  BY <1>1, <1>13 DEF vars
<1> QED
  BY <1>1, <1>4, <1>5, <1>6, <1>7, <1>8, <1>9, <1>10, <1>11, <1>12, <1>13
  DEF Next

\* A verdict that a tool is decided on is one VerificationResult.Validate
\* accepts, whatever its manager answered.
THEOREM ResultsAlwaysValid == Spec => []ResultsValid
<1>1. Init => ResultsValid
  BY InitDecided
<1> QED
  BY <1>1, NextValid, PTL DEF Spec

\* The candidate never changes, and with it what its plan demands.
LEMMA CandidateStays ==
  ASSUME Next \/ UNCHANGED vars
  PROVE  c' = c /\ Demanded' = Demanded
<1>1. c' = c
  BY DEF Next, vars, StartInstall, StartRemoval, Start, Ask,
         GateAlreadyInstalled, InstallResolved, ConfirmNativeInstall,
         VerifyInstalled, DecideRemoval, RemoveResolved, Outsider
<1> QED
  BY <1>1 DEF Demanded, Plan

LEMMA NextDecided == DecidedInv /\ [Next]_vars => DecidedInv'
<1> SUFFICES ASSUME DecidedInv, Next \/ UNCHANGED vars
             PROVE  DecidedInv'
  OBVIOUS
<1> USE DEF DecidedInv, NothingReportedYet
<1>1. Demanded' = Demanded
  BY CandidateStays
<1>2. CASE verdict' = verdict /\ stage' = stage /\ outcome' = outcome
  BY <1>1, <1>2 DEF DecidedOnEvidence, VerdictMeetsPlan
<1>3. ASSUME stage' \notin {"install", "uninstall"},
             outcome' \notin {"already", "installed"},
             stage' # "idle" => outcome' = ""
      PROVE  DecidedInv'
  BY <1>3 DEF DecidedOnEvidence
<1>4. ASSUME verdict' = Verdict, Verdict.state = "satisfied", stage' = "idle"
      PROVE  DecidedInv'
  <2>1. VerdictMeetsPlan'
    BY <1>1, <1>4, SatisfiedVerdict DEF VerdictMeetsPlan
  <2> QED
    BY <1>4, <2>1 DEF DecidedOnEvidence
<1>5. CASE StartInstall \/ StartRemoval
  <2>1. outcome' = "" /\ stage' \in {"gate", "removal"}
    BY <1>5 DEF StartInstall, StartRemoval, Start
  <2> QED
    BY <1>3, <2>1
<1>6. ASSUME NEW fault \in Faults \cup {"none"}, Ask(fault)
      PROVE  DecidedInv'
  BY <1>2, <1>6 DEF Ask
<1>7. CASE GateAlreadyInstalled
  <2>1. verdict' = Verdict /\ outcome = ""
    BY <1>7 DEF GateAlreadyInstalled
  <2>2. CASE TransitionForVerification(Verdict) = "none"
    <3>1. Verdict.state = "satisfied"
      BY <2>2 DEF TransitionForVerification
    <3>2. stage' = "idle"
      BY <1>7, <2>2 DEF GateAlreadyInstalled, End
    <3> QED
      BY <1>4, <2>1, <3>1, <3>2
  <2>3. CASE TransitionForVerification(Verdict) = "install"
    <3>1. Verdict.state = "absent"
      BY <2>3 DEF TransitionForVerification
    <3>2. stage' = "install" /\ outcome' = ""
      BY <1>7, <2>1, <2>3 DEF GateAlreadyInstalled
    <3> QED
      BY <2>1, <3>1, <3>2 DEF DecidedOnEvidence
  <2>4. CASE TransitionForVerification(Verdict) \in {"upgrade", "refuse"}
    <3>1. stage' = "idle" /\ outcome' \in {"drifted", "refused"}
      BY <1>7, <2>4 DEF GateAlreadyInstalled, End
    <3> QED
      BY <1>3, <3>1
  <2> QED
    BY <2>2, <2>3, <2>4 DEF TransitionForVerification
<1>8. CASE InstallResolved
  <2>1. /\ stage' \in {"confirm", "verify", "idle"}
        /\ outcome' \in {"", "failed"}
        /\ stage' # "idle" => outcome' = ""
    BY <1>8 DEF InstallResolved, End
  <2> QED
    BY <1>3, <2>1
<1>9. CASE ConfirmNativeInstall
  <2>1. \/ stage' = "verify" /\ outcome' = ""
        \/ stage' = "idle" /\ outcome' = "failed"
    BY <1>9 DEF ConfirmNativeInstall, End
  <2> QED
    BY <1>3, <2>1
<1>10. CASE VerifyInstalled
  <2>1. verdict' = Verdict
    BY <1>10 DEF VerifyInstalled
  <2>2. CASE Verdict.state = "satisfied"
    <3>1. stage' = "idle"
      BY <1>10, <2>1, <2>2 DEF VerifyInstalled, End
    <3> QED
      BY <1>4, <2>1, <2>2, <3>1
  <2>3. CASE Verdict.state # "satisfied"
    <3>1. stage' = "idle" /\ outcome' = "failed"
      BY <1>10, <2>1, <2>3 DEF VerifyInstalled, End
    <3> QED
      BY <1>3, <3>1
  <2> QED
    BY <2>2, <2>3
<1>11. CASE DecideRemoval
  <2>1. verdict' = Verdict /\ outcome = ""
    BY <1>11 DEF DecideRemoval
  <2>2. CASE Verdict.state \in {"satisfied", "drifted"} /\ Removable(c.kind)
    <3>1. stage' = "uninstall" /\ outcome' = ""
      BY <1>11, <2>1, <2>2 DEF DecideRemoval
    <3> QED
      BY <2>1, <2>2, <3>1 DEF DecidedOnEvidence
  <2>3. CASE Verdict.state \in {"satisfied", "drifted"} /\ ~Removable(c.kind)
    <3>1. stage' = "idle" /\ outcome' = "manual"
      BY <1>11, <2>3 DEF DecideRemoval, End
    <3> QED
      BY <1>3, <3>1
  <2>4. CASE Verdict.state \notin {"satisfied", "drifted"}
    <3>1. stage' = "idle" /\ outcome' \in {"released", "kept"}
      BY <1>11, <2>4 DEF DecideRemoval, End
    <3> QED
      BY <1>3, <3>1
  <2> QED
    BY <2>2, <2>3, <2>4
<1>12. CASE RemoveResolved
  <2>1. stage' = "idle" /\ outcome' \in {"removed", "kept"}
    BY <1>12 DEF RemoveResolved, End
  <2> QED
    BY <1>3, <2>1
<1>13. CASE Outsider
  BY <1>2, <1>13 DEF Outsider
<1>14. CASE UNCHANGED vars
  BY <1>2, <1>14 DEF vars
<1> QED
  BY <1>5, <1>6, <1>7, <1>8, <1>9, <1>10, <1>11, <1>12, <1>13, <1>14 DEF Next

\* Whatever the manager answers, whoever else changes the host, and for every
\* candidate: a tool is installed only over a verdict of absence, removed only
\* over one of presence, and reported as installed only when every field its
\* contract verifies was observed with the value of the plan.
THEOREM AlwaysDecidedOnEvidence == Spec => []DecidedOnEvidence
<1>1. Init => DecidedInv
  BY InitDecided
<1>2. DecidedInv => DecidedOnEvidence
  BY DEF DecidedInv
<1> QED
  BY <1>1, <1>2, NextDecided, PTL DEF Spec

-------------------------------------------------------------------------------
(* What the adapters read out of a manager's answers: an entry they call   *)
(* present is one that was there, and serves the candidate.                *)

\* An entry that the manager of the candidate may list.
Sound(e) == e \in Entry /\ Plausible(c, e)

\* What an honest manager answers.
LEMMA HonestAnswer ==
  ASSUME NEW h, NEW q
  PROVE  /\ Honest(h, q).rows \subseteq Queried(h, q)
         /\ ~(c.kind \in NativeKinds /\ HasDatabase(c.kind) /\ q = 2) =>
              /\ Queried(h, q) # {} \/ ~AskedByName =>
                   Honest(h, q) = Listing(Queried(h, q))
              /\ Honest(h, q).exit = 0 /\ AskedByName /\ c.kind # "port" =>
                   Queried(h, q) # {}
         /\ c.kind \in NativeKinds /\ HasDatabase(c.kind) /\ q = 2 =>
              Honest(h, q) = Listing({})
<1>1. /\ Silent.rows = {} /\ Silent.exit = 1
      /\ [Silent EXCEPT !.exit = 0].rows = {}
      /\ \A rows : Listing(rows).rows = rows
  BY DEF Silent, Listing
<1> QED
  BY <1>1 DEF Honest

LEMMA ListingIs ==
  ASSUME NEW rows
  PROVE  /\ Listing(rows).found /\ Listing(rows).ran /\ Listing(rows).whole
         /\ Listing(rows).exit = 0 /\ Listing(rows).said = "rows"
         /\ Listing(rows).rows = rows
  BY DEF Listing, Silent

\* What is wrong with an answer shows in what the runner tells of it, except
\* in a listing read line by line that was cut.
LEMMA AnswerIs ==
  ASSUME NEW h, NEW q, NEW f \in Faults \cup {"none"}, NEW a \in Answer(h, q, f)
  PROVE  /\ a.rows \subseteq Queried(h, q)
         /\ f = "none" => a = Honest(h, q)
         /\ f \in {"gone", "fails"} => ~a.ran
         /\ f = "gone" => ~a.found
         /\ f = "refuses" => a.exit = 1
         /\ f = "cut" => ~a.whole
         /\ f \in {"gone", "fails", "refuses", "garbled"} => a.said = "other"
         /\ f = "cut" /\ c.kind \in Structured => a.said = "other"
         /\ f = "cut" /\ c.kind \notin Structured =>
              a.exit = Honest(h, q).exit
         /\ f \in {"gone", "fails", "refuses", "garbled"} /\ c.kind # "go" =>
              a.rows = {}
         /\ c.kind = "go" => a.rows = Honest(h, q).rows
         /\ a.exit = 0 /\ f # "garbled" => Honest(h, q).exit = 0
<1> DEFINE honest == Honest(h, q)
           lost   == [honest EXCEPT !.said = "other",
                                    !.rows = {e \in @ : c.kind = "go"}]
<1>1. honest \in [found : BOOLEAN, ran : BOOLEAN, whole : BOOLEAN,
                  exit : {0, 1}, said : {"missing", "rows", "other"},
                  rows : SUBSET Queried(h, q)]
  BY DEF Honest, Silent, Listing
<1>2. honest.rows \subseteq Queried(h, q)
  BY <1>1
<1> HIDE DEF honest
<1>3. /\ lost.said = "other" /\ lost.exit = honest.exit
      /\ c.kind = "go" => lost.rows = honest.rows
      /\ c.kind # "go" => lost.rows = {}
      /\ lost \in [found : BOOLEAN, ran : BOOLEAN, whole : BOOLEAN,
                   exit : {0, 1}, said : {"missing", "rows", "other"},
                   rows : SUBSET Queried(h, q)]
  BY <1>1
<1>4. Answer(h, q, f) =
        CASE f = "none"    -> {honest}
          [] f = "gone"    -> {[lost EXCEPT !.found = FALSE, !.ran = FALSE]}
          [] f = "fails"   -> {[lost EXCEPT !.ran = FALSE]}
          [] f = "garbled" -> {[lost EXCEPT !.exit = 0]}
          [] f = "refuses" -> {[lost EXCEPT !.exit = 1]}
          [] f = "cut" ->
               IF c.kind \in Structured
               THEN {[lost EXCEPT !.whole = FALSE]}
               ELSE {[honest EXCEPT !.whole = FALSE, !.rows = rows] :
                       rows \in SUBSET honest.rows}
  BY DEF Answer, honest
<1> HIDE DEF lost
<1>5. CASE f = "none"
  BY <1>1, <1>2, <1>4, <1>5 DEF honest
<1>6. CASE f = "gone"
  <2>1. a = [lost EXCEPT !.found = FALSE, !.ran = FALSE]
    BY <1>4, <1>6
  <2>2. /\ a.found = FALSE /\ a.ran = FALSE /\ a.said = lost.said
        /\ a.rows = lost.rows /\ a.exit = lost.exit
    BY <1>3, <2>1
  <2> QED
    BY <1>1, <1>3, <1>6, <2>2 DEF honest
<1>7. CASE f = "fails"
  BY <1>1, <1>2, <1>3, <1>4, <1>7 DEF honest
<1>8. CASE f = "garbled"
  BY <1>1, <1>2, <1>3, <1>4, <1>8 DEF honest
<1>9. CASE f = "refuses"
  BY <1>1, <1>2, <1>3, <1>4, <1>9 DEF honest
<1>10. CASE f = "cut" /\ c.kind \in Structured
  BY <1>1, <1>2, <1>3, <1>4, <1>10 DEF honest
<1>11. CASE f = "cut" /\ c.kind \notin Structured
  <2>1. PICK rows \in SUBSET honest.rows :
          a = [honest EXCEPT !.whole = FALSE, !.rows = rows]
    BY <1>4, <1>11
  <2>2. a.whole = FALSE /\ a.rows = rows /\ a.exit = honest.exit
    BY <1>1, <2>1
  <2>3. c.kind # "go"
    BY <1>11 DEF Structured
  <2> QED
    BY <1>2, <1>11, <2>1, <2>2, <2>3 DEF honest
<1> QED
  BY <1>5, <1>6, <1>7, <1>8, <1>9, <1>10, <1>11 DEF Faults

\* The candidate the adapter is asked about differs from the one declared in
\* a version that its lock pins, and in no other way.
LEMMA AskedIs ==
  ASSUME c \in Candidate
  PROVE  /\ Asked.kind = c.kind /\ Asked.pkg = c.pkg /\ Asked.alias = c.alias
         /\ Asked.slot = c.slot /\ Asked.src = c.src
         /\ Asked.path = c.path /\ InventoryName(Asked) = InventoryName(c)
         /\ Asked.ver = "" => c.ver = ""
         /\ c.kind \notin LockedKinds => Asked.ver = c.ver
<1>1. c.kind \in {"cargo", "conda"} => Value(Plan, "environment") = c.slot
  <2> SUFFICES ASSUME c.kind \in {"cargo", "conda"}
               PROVE  Value(Plan, "environment") = c.slot
    OBVIOUS
  <2>1. Plan = Intent(c)
    BY DEF Plan, ResolvePlan, LockedKinds
  <2> QED
    BY <2>1 DEF Intent, Stated, Value
<1>2. /\ Asked.kind = c.kind /\ Asked.pkg = c.pkg /\ Asked.alias = c.alias
      /\ Asked.slot = c.slot /\ Asked.src = c.src /\ Asked.path = c.path
      /\ Asked.ver = "" => c.ver = ""
      /\ c.kind \notin LockedKinds => Asked.ver = c.ver
  BY <1>1 DEF Asked, MethodForResolvedTarget, Candidate
<1>3. InventoryName(Asked) = InventoryName(c)
  BY <1>2, Zenon DEF InventoryName
<1> QED
  BY <1>2, <1>3

LEMMA SameItself == \A ver : SameVersion(ver, ver)
  BY DEF SameVersion

\* To cargo and go a version is told in another spelling of the same.
LEMMA RespelledIs ==
  ASSUME c \in Candidate, c.kind \in {"cargo", "go"}
  PROVE  \A ver : SameVersion(Respelled(Asked, ver), ver)
<1> SUFFICES ASSUME NEW ver PROVE SameVersion(Respelled(Asked, ver), ver)
  OBVIOUS
<1>1. Asked.ver = c.ver
  BY AskedIs DEF LockedKinds
<1>2. \/ Respelled(Asked, ver) = ver
      \/ Bare(ver) = Bare(Respelled(Asked, ver))
  BY <1>1 DEF Respelled
<1> QED
  BY <1>2 DEF SameVersion

\* A question has been answered: the answers are the manager's, as the fault
\* in doubt leaves them, about the hosts that were seen.
Read ==
  /\ c \in Candidate
  /\ doubt \in Faults \cup {"none"} /\ Possible(doubt)
  /\ A \in Answer(seen[1], 1, doubt)
  /\ B \in Answer(seen[Questions], Questions, doubt)
  /\ \A e \in seen[1] \cup seen[Questions] : Sound(e)

\* The entry serves the candidate, and the observation states its version, if
\* one is verified, and its build if it states any.
Fits(e) ==
  /\ Serves(e)
  /\ "version" \in Verifies(c.kind) \cap DOMAIN Observation.known =>
       SameVersion(Observation.known["version"], e.ver)
  /\ "revision" \in DOMAIN Observation.known =>
       Observation.known["revision"] = e.build

\* A known version is stated as it was read, and is none if it was not.
LEMMA StatedIs ==
  ASSUME NEW r
  PROVE  /\ DOMAIN Stated(r) = {f \in DOMAIN r : r[f] # ""}
         /\ \A f \in DOMAIN Stated(r) : Stated(r)[f] = r[f]
  BY DEF Stated

\* A query for one package that succeeds has found it.
LEMMA FoundByName ==
  ASSUME Read, AskedByName, c.kind # "port", doubt # "garbled", A.exit = 0
  PROVE  \E e \in seen[1] : e \in Queried(seen[1], 1)
<1>1. Honest(seen[1], 1).exit = 0
  BY AnswerIs DEF Read
<1>2. Queried(seen[1], 1) # {}
  BY <1>1, HonestAnswer
<1> QED
  BY <1>2 DEF Queried

\* What a version that was read out of an answer was read from.
LEMMA VersionRead ==
  ASSUME Read, c.kind \in ExactVersionKinds,
         InstalledVersion(Asked, A).said = "version"
  PROVE  \E e \in A.rows :
           /\ SameVersion(InstalledVersion(Asked, A).ver, e.ver)
           /\ c.kind # "pipx" => e.name = InventoryName(c)
           /\ c.kind = "pipx" => e.pkg = c.pkg
<1> DEFINE rows == Rows(Asked, A)
           other == {r \in A.rows : r.pkg = Asked.pkg}
<1>1. /\ Asked.kind = c.kind /\ Asked.pkg = c.pkg
      /\ InventoryName(Asked) = InventoryName(c)
  BY AskedIs DEF Read
<1>2. \A r :
        /\ VersionOf(r).said = "version" => VersionOf(r).ver = r.ver
        /\ VersionOf(r).said \in {"version", "unsure"}
  BY DEF VersionOf, Unsure, Report
<1>3. /\ Gone.said = "absent" /\ Unsure.said = "unsure"
      /\ Failed.said = "failed"
  BY DEF Gone, Unsure, Failed, Report
<1>4. \A r \in rows : r \in A.rows /\ r.name = InventoryName(c)
  BY <1>1 DEF Rows
<1>5. ASSUME ListedVersion(Asked, A).said = "version"
      PROVE  \E e \in rows : ListedVersion(Asked, A).ver = e.ver
  BY <1>2, <1>3, <1>5 DEF ListedVersion
<1>6. ASSUME rows # {}, Pick(Asked, rows).said = "version"
      PROVE  \E e \in rows : Pick(Asked, rows).ver = e.ver
  <2> HIDE DEF rows
  <2> QED
    BY <1>2, <1>6 DEF Pick
<1> HIDE DEF rows
<1>14. \A ver : SameVersion(ver, ver)
  BY SameItself
<1>7. CASE c.kind \in {"pip", "composer"}
  <2>1. InstalledVersion(Asked, A) = ShownVersion(Asked, A)
    BY <1>1, <1>7 DEF InstalledVersion
  <2>2. /\ ListedVersion(Asked, A).said = "version"
        /\ \/ InstalledVersion(Asked, A) = ListedVersion(Asked, A)
           \/ /\ c.kind = "composer"
              /\ InstalledVersion(Asked, A) =
                   Report("version", Bare(ListedVersion(Asked, A).ver))
    BY <1>1, <1>3, <2>1 DEF ShownVersion
  <2>3. PICK e \in rows : ListedVersion(Asked, A).ver = e.ver
    BY <1>5, <2>2
  <2>4. SameVersion(InstalledVersion(Asked, A).ver, e.ver)
    <3>1. CASE InstalledVersion(Asked, A) = ListedVersion(Asked, A)
      BY <1>14, <2>3, <3>1
    <3>2. CASE /\ c.kind = "composer"
               /\ InstalledVersion(Asked, A) =
                    Report("version", Bare(ListedVersion(Asked, A).ver))
      <4>1. InstalledVersion(Asked, A).ver = Bare(e.ver)
        BY <2>3, <3>2 DEF Report
      <4> QED
        BY <3>2, <4>1 DEF SameVersion
    <3> QED
      BY <2>2, <3>1, <3>2
  <2> QED
    BY <1>4, <1>7, <2>3, <2>4
<1>8. CASE c.kind = "pipx"
  <2>1. InstalledVersion(Asked, A) = PipxVersion(Asked, A)
    BY <1>1, <1>8 DEF InstalledVersion
  <2>2. \A r \in rows : r.pkg = c.pkg
    BY <1>1, <1>3, <2>1 DEF PipxVersion, rows
  <2>3. \/ rows # {} /\ InstalledVersion(Asked, A) =
                          VersionOf(CHOOSE r \in rows : TRUE)
        \/ other # {} /\ InstalledVersion(Asked, A) =
                           VersionOf(CHOOSE r \in other : TRUE)
    BY <1>3, <2>1 DEF PipxVersion, rows
  <2>4. \A r \in other : r \in A.rows /\ r.pkg = c.pkg
    BY <1>1
  <2> HIDE DEF other
  <2> QED
    BY <1>2, <1>4, <1>8, <1>14, <2>2, <2>3, <2>4
<1>9. CASE c.kind = "uv"
  <2>1. InstalledVersion(Asked, A) = UVVersion(Asked, A)
    BY <1>1, <1>9 DEF InstalledVersion
  <2>2. InstalledVersion(Asked, A) = ListedVersion(Asked, A)
    BY <1>3, <2>1 DEF UVVersion
  <2> QED
    BY <1>4, <1>5, <1>9, <1>14, <2>2
<1>10. CASE c.kind = "gem"
  <2>1. InstalledVersion(Asked, A) = GemVersion(Asked, A)
    BY <1>1, <1>10 DEF InstalledVersion
  <2>2. rows # {} /\ InstalledVersion(Asked, A) = Pick(Asked, rows)
    BY <1>3, <2>1 DEF GemVersion, rows
  <2> QED
    BY <1>4, <1>6, <1>10, <1>14, <2>2
<1>11. CASE c.kind \in {"bun", "yarn"}
  <2>1. InstalledVersion(Asked, A) = FramedVersion(Asked, A)
    BY <1>1, <1>11 DEF InstalledVersion
  <2>2. InstalledVersion(Asked, A) = ListedVersion(Asked, A)
    BY <1>3, <2>1 DEF FramedVersion
  <2> QED
    BY <1>4, <1>5, <1>11, <1>14, <2>2
<1>12. CASE c.kind = "pnpm"
  <2>1. InstalledVersion(Asked, A) = PNPMVersion(Asked, A)
    BY <1>1, <1>12 DEF InstalledVersion
  <2>2. InstalledVersion(Asked, A) = ListedVersion(Asked, A)
    BY <1>3, <2>1 DEF PNPMVersion
  <2> QED
    BY <1>4, <1>5, <1>12, <1>14, <2>2
<1>13. CASE c.kind = "npm"
  <2>1. InstalledVersion(Asked, A) = NPMVersion(Asked, A)
    BY <1>1, <1>13 DEF InstalledVersion
  <2>2. InstalledVersion(Asked, A) = ListedVersion(Asked, A)
    BY <1>3, <2>1 DEF NPMVersion
  <2> QED
    BY <1>4, <1>5, <1>13, <1>14, <2>2
<1> QED
  BY <1>7, <1>8, <1>9, <1>10, <1>11, <1>12, <1>13 DEF ExactVersionKinds

\* A version is read, or it is said why none is.
LEMMA VersionSaid ==
  ASSUME c \in Candidate, c.kind \in ExactVersionKinds
  PROVE  InstalledVersion(Asked, A).said \in
           {"version", "absent", "unsure", "failed"}
<1>1. Asked.kind = c.kind
  BY AskedIs
<1>2. /\ Gone.said = "absent" /\ Unsure.said = "unsure"
      /\ Failed.said = "failed"
      /\ \A r : VersionOf(r).said \in {"version", "unsure"}
  BY DEF Gone, Unsure, Failed, VersionOf, Report
<1>3. ListedVersion(Asked, A).said \in {"version", "absent", "unsure"}
  BY <1>2 DEF ListedVersion
<1>4. \A rows : Pick(Asked, rows).said \in {"version", "unsure"}
  BY <1>2 DEF Pick
<1> QED
  BY <1>1, <1>2, <1>3, <1>4
  DEF InstalledVersion, ExactVersionKinds, ShownVersion, PipxVersion,
      UVVersion, GemVersion, FramedVersion, PNPMVersion, NPMVersion, Report

\* These kinds are unsure only of the version of a package they list.
LEMMA UnsureRead ==
  ASSUME Read, c.kind \in {"npm", "pnpm", "composer"},
         InstalledVersion(Asked, A).said = "unsure"
  PROVE  \E e \in A.rows : e.name = InventoryName(c)
<1>1. Asked.kind = c.kind /\ InventoryName(Asked) = InventoryName(c)
  BY AskedIs DEF Read
<1>2. Gone.said = "absent" /\ Failed.said = "failed"
  BY DEF Gone, Failed, Report
<1>3. ListedVersion(Asked, A).said = "unsure"
  BY <1>1, <1>2
  DEF InstalledVersion, ShownVersion, PNPMVersion, NPMVersion, Report
<1>4. Rows(Asked, A) # {}
  BY <1>2, <1>3 DEF ListedVersion
<1> QED
  BY <1>1, <1>4 DEF Rows

\* An entry of the answers is one of the hosts seen, where the query looks.
LEMMA RowsSeen ==
  ASSUME Read
  PROVE  /\ A.rows \subseteq Queried(seen[1], 1)
         /\ A.rows \subseteq seen[1]
         /\ B.rows \subseteq Queried(seen[Questions], Questions)
         /\ B.rows \subseteq seen[Questions]
<1>1. \A h, q : Queried(h, q) \subseteq h
  BY DEF Queried
<1>2. A.rows \subseteq Queried(seen[1], 1)
  BY AnswerIs DEF Read
<1>3. B.rows \subseteq Queried(seen[Questions], Questions)
  BY AnswerIs DEF Read
<1> QED
  BY <1>1, <1>2, <1>3

\* An entry of the name, or of the package, that a base adapter looks for
\* serves the candidate where the query looked.
LEMMA BaseServes ==
  ASSUME Read, c.kind \notin OwnObserve \cup NativeKinds,
         NEW e \in Queried(seen[1], 1),
         c.kind # "pipx" => e.name = InventoryName(c),
         c.kind = "pipx" => e.pkg = c.pkg,
         c.kind = "flatpak" => c.src \in {"", e.src}
  PROVE  Serves(e)
<1>1. e \in Entry /\ Plausible(c, e)
  BY DEF Read, Sound, Queried
<1>2. c.kind \in Kinds
  BY DEF Read, Candidate
<1>3. e.pkg = c.pkg
  BY <1>1 DEF Plausible, InventoryName, Renaming, OwnObserve, NativeKinds,
              ClanOfManager
<1>4. e.form = "whole"
  BY <1>1 DEF Plausible, KnowsPartial, Queried, OwnObserve, NativeKinds,
              ClanOfManager
<1> QED
  BY <1>2, <1>3, <1>4
  DEF Serves, Queried, InventoryName, RegistryKinds, OwnObserve, NativeKinds,
      ClanOfManager

\* Base adapters find what they call present.
LEMMA BasePresent ==
  ASSUME Read, c.kind \notin OwnObserve \cup NativeKinds, ~Lenient,
         Observation.presence = "present", ~Observation.err
  PROVE  \E e \in seen[1] : Fits(e)
<1> DEFINE report == InstalledVersion(Asked, A)
           there(ver) == Observed("present",
                           Stated([package |-> Asked.pkg, version |-> ver,
                                   scope |-> ScopeOf(Asked)]))
<1>1. /\ Asked.kind = c.kind /\ Asked.pkg = c.pkg
      /\ Asked.src = c.src /\ Asked.slot = c.slot
      /\ Asked.ver = "" => c.ver = ""
      /\ InventoryName(Asked) = InventoryName(c)
  BY AskedIs DEF Read
<1>2. c.kind \in ExactVersionKinds \cup {"flatpak", "vscode", "cask"}
  BY DEF Read, Candidate, Kinds
<1>3. Observation = BaseObserve(Asked, A)
  BY DEF Observation
<1>4. ASSUME NEW ver
      PROVE  /\ there(ver).known = Stated([package |-> Asked.pkg,
                                           version |-> ver,
                                           scope |-> ScopeOf(Asked)])
             /\ "revision" \notin DOMAIN there(ver).known
             /\ "version" \in DOMAIN there(ver).known =>
                  ver # "" /\ there(ver).known["version"] = ver
  <2> DEFINE r == [package |-> Asked.pkg, version |-> ver,
                   scope |-> ScopeOf(Asked)]
  <2>1. there(ver).known = Stated(r)
    BY DEF Observed
  <2>2. DOMAIN r = {"package", "version", "scope"} /\ r["version"] = ver
    OBVIOUS
  <2> HIDE DEF r
  <2>3. /\ "revision" \notin DOMAIN Stated(r)
        /\ "version" \in DOMAIN Stated(r) =>
             ver # "" /\ Stated(r)["version"] = ver
    BY <2>2, StatedIs
  <2> QED
    BY <2>1, <2>3 DEF r
<1>5. /\ NotThere(Asked).presence = "absent" /\ Unclear.presence = "unknown"
      /\ ProbeFailed.err
  BY DEF NotThere, Unclear, ProbeFailed, Observed
<1> HIDE DEF there
<1>6. CASE Asked.ver # "" /\ c.kind \in ExactVersionKinds
  <2>0. report.said \in {"version", "absent", "unsure", "failed"}
    BY <1>6, VersionSaid DEF Read
  <2>1. report.said = "version" /\ Observation = there(report.ver)
    BY <1>1, <1>3, <1>5, <1>6, <2>0 DEF BaseObserve, there
  <2>2. PICK e \in A.rows :
          /\ SameVersion(report.ver, e.ver)
          /\ c.kind # "pipx" => e.name = InventoryName(c)
          /\ c.kind = "pipx" => e.pkg = c.pkg
    BY <1>6, <2>1, VersionRead
  <2>3. e \in Queried(seen[1], 1) /\ e \in seen[1]
    BY RowsSeen
  <2>4. c.kind # "flatpak"
    BY <1>6 DEF ExactVersionKinds
  <2>5. Serves(e)
    BY <2>2, <2>3, <2>4, BaseServes
  <2> QED
    BY <1>4, <2>1, <2>2, <2>3, <2>5 DEF Fits
<1>7. CASE ~(Asked.ver # "" /\ c.kind \in ExactVersionKinds)
  <2>1. Check(Asked, A) /\ Observation = there(Asked.ver)
    BY <1>1, <1>3, <1>5, <1>7 DEF BaseObserve, there
  <2>2. ASSUME NEW e \in Queried(seen[1], 1),
               c.kind # "pipx" => e.name = InventoryName(c),
               c.kind = "pipx" => e.pkg = c.pkg,
               c.kind = "flatpak" => c.src \in {"", e.src}
        PROVE  \E x \in seen[1] : Fits(x)
    <3>1. Serves(e)
      BY <2>2, BaseServes
    <3>2. e \in seen[1]
      BY <2>2 DEF Queried
    <3>3. "version" \in Verifies(c.kind) => Asked.ver = ""
      BY <1>2, <1>7 DEF Verifies, ExactVersionKinds
    <3> QED
      BY <1>4, <2>1, <3>1, <3>2, <3>3 DEF Fits
  <2>3. ASSUME NEW e \in A.rows, e.name = InventoryName(c),
               c.kind # "pipx", c.kind = "flatpak" => c.src \in {"", e.src}
        PROVE  \E x \in seen[1] : Fits(x)
    BY <2>2, <2>3, RowsSeen
  <2>4. ASSUME AskedByName, A.exit = 0, doubt # "garbled",
               c.kind = "flatpak" => c.src = "",
               c.kind \in {"pip", "flatpak", "cask"}
        PROVE  \E x \in seen[1] : Fits(x)
    <3>1. PICK e \in seen[1] : e \in Queried(seen[1], 1)
      BY <2>4, FoundByName
    <3>2. e.name = InventoryName(c)
      BY <2>4, <3>1 DEF Queried
    <3> QED
      BY <2>2, <2>4, <3>1, <3>2
  <2>5. CASE c.kind \in ExactVersionKinds /\ report.said = "version"
    <3>1. PICK e \in A.rows :
            /\ c.kind # "pipx" => e.name = InventoryName(c)
            /\ c.kind = "pipx" => e.pkg = c.pkg
      BY <2>5, VersionRead
    <3>2. c.kind # "flatpak"
      BY <2>5 DEF ExactVersionKinds
    <3> QED
      BY <2>2, <3>1, <3>2, RowsSeen
  <2>6. CASE c.kind \in {"uv", "bun"}
    BY <1>1, <2>1, <2>5, <2>6 DEF Check, ExactVersionKinds
  <2>7. CASE c.kind \in {"npm", "pnpm", "composer"}
    <3>1. report.said \in {"version", "unsure"}
      BY <1>1, <2>1, <2>7 DEF Check
    <3>2. CASE report.said = "unsure"
      BY <2>3, <2>7, <3>2, UnsureRead
    <3> QED
      BY <2>5, <2>7, <3>1, <3>2 DEF ExactVersionKinds
  <2>8. CASE c.kind \in {"pipx", "yarn"}
    BY <1>1, <1>7, <2>8 DEF Lenient, ExactVersionKinds
  <2>9. CASE c.kind = "pip"
    <3>1. Exited0(A)
      BY <1>1, <2>1, <2>9 DEF Check
    <3>2. c.ver = ""
      BY <1>1, <1>7, <2>9 DEF ExactVersionKinds
    <3> QED
      BY <2>4, <2>9, <3>1, <3>2 DEF Exited0, Read, Possible, AskedByName
  <2>10. CASE c.kind = "gem"
    <3>1. \E e \in Rows(Asked, A) : TRUE
      BY <1>1, <2>1, <2>10 DEF Check
    <3> QED
      BY <1>1, <2>3, <2>10, <3>1 DEF Rows
  <2>11. CASE c.kind = "flatpak"
    <3>1. Exited0(A) /\ SameSource(Asked, A)
      BY <1>1, <2>1, <2>11 DEF Check
    <3>2. doubt # "garbled"
      BY <2>11 DEF Read, Possible
    <3>3. CASE c.src = ""
      BY <2>4, <2>11, <3>1, <3>2, <3>3 DEF Exited0, AskedByName
    <3>4. CASE c.src # ""
      BY <1>1, <2>3, <2>11, <3>1, <3>4 DEF SameSource, Rows
    <3> QED
      BY <3>3, <3>4
  <2>12. CASE c.kind = "vscode"
    <3>1. \E e \in Rows(Asked, A) : TRUE
      BY <1>1, <2>1, <2>12 DEF Check
    <3> QED
      BY <1>1, <2>3, <2>12, <3>1 DEF Rows
  <2>13. CASE c.kind = "cask"
    <3>1. Exited0(A)
      BY <1>1, <2>1, <2>13 DEF Check
    <3> QED
      BY <2>4, <2>13, <3>1 DEF Exited0, Read, Possible, AskedByName
  <2> QED
    BY <1>2, <2>6, <2>7, <2>8, <2>9, <2>10, <2>11, <2>12, <2>13
    DEF ExactVersionKinds
<1> QED
  BY <1>6, <1>7

\* What the adapters answer when they have not found the target.
LEMMA NotPresent ==
  /\ NotThere(Asked).presence = "absent" /\ ~NotThere(Asked).err
  /\ NothingKnown.presence = "absent" /\ ~NothingKnown.err
  /\ NoIdentity.presence = "absent" /\ ~NoIdentity.err
  /\ [NoIdentity EXCEPT !.detail = TRUE].presence = "absent"
  /\ Unclear.presence = "unknown" /\ ProbeFailed.err
  /\ [Observed("broken", Nothing) EXCEPT !.detail = TRUE].presence = "broken"
  /\ \A known : /\ Observed("absent", known).presence = "absent"
                /\ Observed("present", known).presence = "present"
                /\ Observed("present", known).known = known
                /\ [Observed("broken", known) EXCEPT !.detail = TRUE].presence
                     = "broken"
  BY DEF NotThere, NothingKnown, NoIdentity, Unclear, ProbeFailed, Observed

\* The adapters of the tool chains find what they call present.
LEMMA ToolchainPresent ==
  ASSUME Read, c.kind \in OwnObserve, ~Lenient,
         Observation.presence = "present", ~Observation.err,
         c.kind = "go" => "version" \in DOMAIN Observation.known
  PROVE  \E e \in seen[1] \cup seen[Questions] : Fits(e)
<1>1. /\ Asked.kind = c.kind /\ Asked.pkg = c.pkg /\ Asked.alias = c.alias
      /\ Asked.src = c.src /\ Asked.slot = c.slot
      /\ c.kind \notin LockedKinds => Asked.ver = c.ver
      /\ InventoryName(Asked) = InventoryName(c)
  BY AskedIs DEF Read
<1>2. c.kind \notin LockedKinds
  BY DEF OwnObserve, LockedKinds
<1>3. Observation = ToolchainObserve(Asked, A, B)
  BY DEF Observation, OwnObserve, NativeKinds, ClanOfManager
<1>4. /\ \A e \in A.rows : e \in Queried(seen[1], 1) /\ e \in seen[1]
      /\ \A e \in B.rows : /\ e \in Queried(seen[Questions], Questions)
                           /\ e \in seen[Questions]
  BY RowsSeen
<1>5. \A e \in seen[1] \cup seen[Questions] : Plausible(c, e)
  BY DEF Read, Sound
<1>6. ASSUME NEW r, Observation = Present(r)
      PROVE  \A f \in DOMAIN Observation.known :
               f \in DOMAIN r /\ Observation.known[f] = r[f]
  <2>1. Observation.known = Stated(r)
    BY <1>6 DEF Present, Observed
  <2> QED
    BY <2>1, StatedIs
<1>7. CASE c.kind = "cargo"
  <2> DEFINE rows == {r \in A.rows : /\ r.pkg = Asked.pkg /\ r.src = ""
                                     /\ r.form = "whole"}
             e    == CHOOSE r \in rows : TRUE
             r    == [package |-> Asked.pkg, version |-> Respelled(Asked, e.ver),
                      environment |-> Asked.slot]
  <2>1. rows # {} /\ Observation = Present(r)
    BY <1>1, <1>3, <1>7, NotPresent DEF ToolchainObserve, CargoObserve
  <2>2. e \in A.rows /\ e.pkg = c.pkg /\ e.src = "" /\ e.form = "whole"
    BY <1>1, <2>1
  <2>3. /\ r["version"] = Respelled(Asked, e.ver)
        /\ DOMAIN r = {"package", "version", "environment"}
    OBVIOUS
  <2>7. SameVersion(Respelled(Asked, e.ver), e.ver)
    BY <1>7, RespelledIs DEF Read
  <2> HIDE DEF r, e, rows
  <2>4. e.slot = Confined(c)
    BY <1>4, <1>7, <2>2 DEF Queried
  <2>5. Serves(e)
    BY <1>7, <2>2, <2>4 DEF Serves, RegistryKinds
  <2>6. Fits(e)
    BY <1>6, <2>1, <2>3, <2>5, <2>7 DEF Fits
  <2> QED
    BY <1>4, <2>2, <2>6
<1>8. CASE c.kind = "go"
  <2> DEFINE built == {r \in B.rows : /\ r.name = InventoryName(Asked)
                                      /\ r.slot = "gobin"}
             e     == CHOOSE r \in built : TRUE
             r     == [package |-> Asked.pkg, version |-> Respelled(Asked, e.ver)]
             only  == [package |-> Asked.pkg]
  <2>1. Observation = Present(only) \/
        /\ built # {} /\ \A x \in built : x.pkg = Asked.pkg
        /\ Observation = Present(r)
    BY <1>1, <1>3, <1>8, NotPresent DEF ToolchainObserve, GoObserve
  <2>2. Observation # Present(only)
    <3>1. DOMAIN only = {"package"}
      OBVIOUS
    <3> HIDE DEF only
    <3> QED
      BY <1>6, <1>8, <3>1
  <2>3. /\ built # {} /\ \A x \in built : x.pkg = Asked.pkg
        /\ Observation = Present(r)
    BY <2>1, <2>2
  <2>4. e \in B.rows /\ e.slot = "gobin" /\ e.pkg = c.pkg
    BY <1>1, <2>3
  <2>5. /\ r["version"] = Respelled(Asked, e.ver)
        /\ DOMAIN r = {"package", "version"}
    OBVIOUS
  <2>9. SameVersion(Respelled(Asked, e.ver), e.ver)
    BY <1>8, RespelledIs DEF Read
  <2> HIDE DEF r, e, built
  <2>6. e.form = "whole"
    BY <1>4, <1>5, <1>8, <2>4 DEF Plausible, KnowsPartial
  <2>7. Serves(e)
    BY <1>8, <2>4, <2>6 DEF Serves, RegistryKinds
  <2>8. Fits(e)
    BY <1>6, <2>3, <2>5, <2>7, <2>9 DEF Fits
  <2> QED
    BY <1>4, <2>4, <2>8
<1>9. CASE c.kind = "nix"
  <2> DEFINE active == {r \in NixMatches(Asked, A) : r.form = "whole"}
             target == [package |-> Asked.pkg, source |-> Asked.src]
             e      == CHOOSE r \in active : TRUE
  <2>1. active # {} /\ Observation.known = Stated(target)
    <3>1. Observation = NixObserve(Asked, A)
      BY <1>1, <1>3, <1>9 DEF ToolchainObserve
    <3>2. \/ Observation = ProbeFailed
          \/ active = {} /\ Observation = Observed("absent", Stated(target))
          \/ active # {} /\ Observation = Observed("present", Stated(target))
          \/ Observation = [Observed("broken", Stated(target)) EXCEPT
                              !.detail = TRUE]
      <4>1. active = {} => Cardinality(active) # 1
        BY FS_EmptySet
      <4>2. active = {r \in NixMatches(Asked, A) : r.form = "whole"}
        OBVIOUS
      <4>3. target = [package |-> Asked.pkg, source |-> Asked.src]
        OBVIOUS
      <4>4. NixObserve(Asked, A) =
              IF ~A.found \/ ~Exited0(A) \/ ~A.whole \/ A.said # "rows"
                THEN ProbeFailed
              ELSE CASE active = {} -> Observed("absent", Stated(target))
                     [] Cardinality(active) = 1 ->
                          Observed("present", Stated(target))
                     [] OTHER -> [Observed("broken", Stated(target)) EXCEPT
                                    !.detail = TRUE]
        BY DEF NixObserve
      <4> HIDE DEF active, target
      <4> QED
        BY <3>1, <4>1, <4>4
    <3> HIDE DEF active, target
    <3> QED
      BY <3>2, NotPresent
  <2>2. e \in A.rows /\ e.pkg = c.pkg /\ e.src = c.src /\ e.form = "whole"
    BY <1>1, <2>1 DEF NixMatches
  <2>3. DOMAIN target = {"package", "source"}
    OBVIOUS
  <2> HIDE DEF e, active, target
  <2>4. Serves(e)
    BY <1>9, <2>2 DEF Serves, RegistryKinds
  <2>5. Fits(e)
    BY <2>1, <2>3, <2>4, StatedIs, SameItself DEF Fits
  <2> QED
    BY <1>4, <2>2, <2>5
<1>10. CASE c.kind = "conda"
  <2> DEFINE rows == {r \in A.rows : r.pkg = Asked.pkg}
             e    == CHOOSE r \in rows : TRUE
             r    == [package |-> e.pkg, version |-> e.ver,
                      revision |-> e.build, source |-> e.src,
                      environment |-> Asked.slot]
  <2>1. rows # {} /\ Observation = Present(r)
    BY <1>1, <1>3, <1>10, NotPresent DEF ToolchainObserve, CondaObserve
  <2>2. e \in A.rows /\ e.pkg = c.pkg
    BY <1>1, <2>1
  <2>3. r["version"] = e.ver /\ r["revision"] = e.build
    OBVIOUS
  <2> HIDE DEF r, e, rows
  <2>4. e.slot = Confined(c) /\ e.form = "whole"
    BY <1>4, <1>5, <1>10, <2>2 DEF Queried, Plausible, KnowsPartial
  <2>5. Serves(e)
    BY <1>10, <2>2, <2>4 DEF Serves, RegistryKinds
  <2>6. Fits(e)
    BY <1>6, <2>1, <2>3, <2>5, SameItself DEF Fits
  <2> QED
    BY <1>4, <2>2, <2>6
<1>11. CASE c.kind = "sdkman"
  <2> DEFINE versions == {r \in A.rows : r.pkg = Asked.pkg}
             current  == {r \in versions : r.slot = "current"}
             asked    == {r \in versions : r.ver = Asked.ver}
             e        == CHOOSE r \in current : TRUE
             exact    == [package |-> Asked.pkg, version |-> Asked.ver]
             inUse    == [package |-> Asked.pkg,
                          version |-> IF Asked.ver = "" THEN "" ELSE e.ver]
  <2>1. ASSUME NEW x \in versions, x.slot = "current" \/ x.ver = c.ver
        PROVE  Serves(x) /\ x \in seen[1]
    BY <1>1, <1>4, <1>5, <1>11, <2>1
    DEF Serves, RegistryKinds, Plausible, KnowsPartial
  <2>2. \/ asked # {} /\ Observation = Present(exact)
        \/ current # {} /\ Observation = Present(inUse)
    BY <1>1, <1>3, <1>11, NotPresent DEF ToolchainObserve, SdkmanObserve
  <2>3. /\ exact["version"] = Asked.ver
        /\ inUse["version"] = IF Asked.ver = "" THEN "" ELSE e.ver
        /\ DOMAIN exact = {"package", "version"}
        /\ DOMAIN inUse = {"package", "version"}
    OBVIOUS
  <2>4. CASE asked # {} /\ Observation = Present(exact)
    <3>1. PICK x \in asked : TRUE
      BY <2>4
    <3>2. Serves(x) /\ x \in seen[1] /\ x.ver = Asked.ver
      BY <1>1, <1>2, <2>1, <3>1
    <3> HIDE DEF exact
    <3>3. Fits(x)
      BY <1>6, <2>3, <2>4, <3>2, SameItself DEF Fits
    <3> QED
      BY <3>2, <3>3
  <2>5. CASE current # {} /\ Observation = Present(inUse)
    <3>1. e \in versions /\ e.slot = "current"
      BY <2>5
    <3>2. Serves(e) /\ e \in seen[1]
      BY <2>1, <3>1
    <3> HIDE DEF e
    <3>3. "version" \in DOMAIN Observation.known => Asked.ver # ""
      <4>1. Observation.known = Stated(inUse)
        BY <2>5 DEF Present, Observed
      <4>2. inUse["version"] # "" => Asked.ver # ""
        OBVIOUS
      <4> HIDE DEF inUse
      <4>3. DOMAIN Observation.known = {f \in DOMAIN inUse : inUse[f] # ""}
        BY <4>1, StatedIs
      <4> QED
        BY <4>2, <4>3
    <3> HIDE DEF inUse
    <3>4. Fits(e)
      BY <1>6, <2>3, <2>5, <3>2, <3>3, SameItself DEF Fits
    <3> QED
      BY <3>2, <3>4
  <2> QED
    BY <2>2, <2>4, <2>5
<1>12. ASSUME c.kind \in {"aur", "pacstall", "yarn-berry"}
       PROVE  \E e \in seen[1] : Fits(e)
  <2> DEFINE only == [package |-> Asked.pkg]
  <2>1. A.exit = 0 /\ Observation = Present(only)
    BY <1>1, <1>3, <1>12, NotPresent
    DEF ToolchainObserve, AurObserve, QuietObserve, Exited0
  <2>2. DOMAIN only = {"package"}
    OBVIOUS
  <2> HIDE DEF only
  <2>3. doubt # "garbled" /\ AskedByName
    BY <1>12 DEF Read, Possible, AskedByName
  <2>4. PICK e \in seen[1] : e \in Queried(seen[1], 1)
    BY <1>12, <2>1, <2>3, FoundByName
  <2>5. e.name = InventoryName(c) /\ (c.kind = "aur" => e.form = "whole")
    BY <2>3, <2>4 DEF Queried
  <2>6. e.pkg = c.pkg /\ e.form = "whole"
    BY <1>5, <1>12, <2>5
    DEF Plausible, KnowsPartial, Renaming, RegistryKinds, InventoryName
  <2>7. Serves(e)
    BY <1>12, <2>5, <2>6 DEF Serves, RegistryKinds, InventoryName
  <2>8. Fits(e)
    BY <1>6, <2>1, <2>2, <2>7 DEF Fits
  <2> QED
    BY <2>8
<1>13. CASE c.kind = "steamcmd"
  BY <1>1, <1>3, <1>13, NotPresent DEF ToolchainObserve
<1>14. ASSUME NEW answer \in {A, B}, NEW known,
              Observation = ListedOnWindows(Asked, answer, known)
       PROVE  \E e \in Rows(Asked, answer) :
                /\ e \in answer.rows /\ e.name = InventoryName(c)
                /\ Observation = Present(known[e])
  <2> DEFINE rows == Rows(Asked, answer)
             e    == CHOOSE r \in rows : TRUE
  <2>1. rows # {} /\ Observation = Present(known[e])
    BY <1>14, NotPresent DEF ListedOnWindows
  <2>2. e \in rows
    BY <2>1
  <2>3. e \in answer.rows /\ e.name = InventoryName(c)
    BY <1>1, <2>2 DEF Rows
  <2> HIDE DEF e
  <2> QED
    BY <2>1, <2>2, <2>3
<1>15. CASE c.kind = "scoop"
  <2> DEFINE row(e) == [package |-> Asked.pkg, version |-> e.ver,
                        source |-> e.src, scope |-> Asked.slot]
             known  == [e \in Rows(Asked, A) |-> row(e)]
  <2>1. Observation = ListedOnWindows(Asked, A, known)
    BY <1>1, <1>3, <1>15, NotPresent DEF ToolchainObserve, ScoopObserve
  <2>2. PICK e \in Rows(Asked, A) :
          /\ e \in A.rows /\ e.name = InventoryName(c)
          /\ Observation = Present(known[e])
    BY <1>14, <2>1
  <2>3. Observation = Present(row(e))
    BY <2>2
  <2>4. row(e)["version"] = e.ver /\ "revision" \notin DOMAIN row(e)
    OBVIOUS
  <2> HIDE DEF row
  <2>5. e.pkg = c.pkg /\ e.form = "whole"
    BY <1>4, <1>5, <1>15, <2>2
    DEF Plausible, KnowsPartial, Renaming, RegistryKinds, InventoryName
  <2>6. c.slot = "" \/ e.slot = c.slot
    BY <1>4, <1>15, <2>2 DEF Queried, Lenient
  <2>7. Serves(e)
    BY <1>15, <2>5, <2>6 DEF Serves, RegistryKinds
  <2>8. Fits(e)
    BY <1>6, <2>3, <2>4, <2>7, SameItself DEF Fits
  <2> QED
    BY <1>4, <2>2, <2>8
<1>16. CASE c.kind = "choco"
  <2> DEFINE row(e)    == [package |-> Asked.pkg, version |-> e.ver]
             known(a)  == [e \in Rows(Asked, a) |-> row(e)]
  <2>1. \/ Observation = ListedOnWindows(Asked, A, known(A))
        \/ Observation = ListedOnWindows(Asked, B, known(B))
    BY <1>1, <1>3, <1>16, NotPresent DEF ToolchainObserve, ChocoObserve
  <2>2. ASSUME NEW answer \in {A, B}, NEW e \in Rows(Asked, answer),
               e \in answer.rows, e.name = InventoryName(c),
               Observation = Present(known(answer)[e])
        PROVE  e \in seen[1] \cup seen[Questions] /\ Fits(e)
    <3>1. Observation = Present(row(e))
      BY <2>2
    <3>2. row(e)["version"] = e.ver /\ "revision" \notin DOMAIN row(e)
      OBVIOUS
    <3> HIDE DEF row
    <3>3. e \in seen[1] \cup seen[Questions]
      BY <1>4, <2>2
    <3>4. e.pkg = c.pkg /\ e.form = "whole"
      BY <1>5, <1>16, <2>2, <3>3
      DEF Plausible, KnowsPartial, Renaming, RegistryKinds, InventoryName
    <3>5. Serves(e)
      BY <1>16, <3>4 DEF Serves, RegistryKinds
    <3> QED
      BY <1>6, <3>1, <3>2, <3>3, <3>5, SameItself DEF Fits
  <2> HIDE DEF known
  <2> QED
    BY <1>14, <2>1, <2>2
<1>17. CASE c.kind = "asdf"
  <2> DEFINE backend  == Holding(Asked, A, B)
             listed   == AsdfVersions(Asked, backend, A, B)
             versions == {r.ver : r \in listed}
             ver      == IF Asked.ver \in versions THEN Asked.ver
                         ELSE CHOOSE v \in versions : TRUE
             r        == [package |-> Asked.pkg, source |-> Asked.src,
                          version |-> IF Asked.ver = "" THEN "" ELSE ver]
  <2>1. backend # "" /\ Observation = Present(r)
    BY <1>1, <1>3, <1>17, NotPresent DEF ToolchainObserve, AsdfObserve
  <2>2. listed # {}
    BY <2>1 DEF Holding
  <2>3. PICK e \in listed : e.ver = ver
    BY <2>2
  <2>4. \E answer \in {A, B} : e \in answer.rows
    BY <2>3 DEF AsdfVersions, AsdfAnswer
  <2>5. e.pkg = c.pkg /\ e.src = c.src /\ e \in seen[1] \cup seen[Questions]
    BY <1>1, <1>4, <2>3, <2>4 DEF AsdfVersions
  <2>6. r["version"] \in {"", e.ver} /\ "revision" \notin DOMAIN r
    BY <2>3
  <2>7. Observation.known = Stated(r)
    BY <2>1 DEF Present, Observed
  <2> HIDE DEF backend, listed, versions, ver, r
  <2>8. e.form = "whole"
    BY <1>5, <1>17, <2>5 DEF Plausible, KnowsPartial
  <2>9. Serves(e)
    BY <1>17, <2>5, <2>8 DEF Serves, RegistryKinds
  <2>10. Fits(e)
    BY <2>6, <2>7, <2>9, StatedIs, SameItself DEF Fits
  <2> QED
    BY <2>5, <2>10
<1> QED
  BY <1>7, <1>8, <1>9, <1>10, <1>11, <1>12, <1>13, <1>15, <1>16, <1>17
  DEF OwnObserve

\* The managers that are asked with a sentinel.
LEMMA DatabaseKinds ==
  ASSUME c.kind \in NativeKinds, HasDatabase(c.kind)
  PROVE  \/ c.kind = "apt" /\ Family(c.kind) = "dpkg"
         \/ /\ c.kind \in {"dnf", "dnf5", "yum", "zypper"}
            /\ Family(c.kind) = "rpm"
<1>1. DOMAIN ClanOfManager =
        {"apt", "dnf", "dnf5", "yum", "zypper", "pacman", "apk", "xbps",
         "emerge", "portage", "brew", "port", "pkg_add", "pkgin", "winget",
         "opkg"}
  BY DEF ClanOfManager
<1>2. /\ IsDpkgClan(ClanOfManager[c.kind]) <=> c.kind = "apt"
      /\ IsRpmClan(ClanOfManager[c.kind]) <=>
           c.kind \in {"dnf", "dnf5", "yum", "zypper"}
  BY <1>1 DEF NativeKinds, ClanOfManager, IsDpkgClan, IsRpmClan
<1>3. /\ Family(c.kind) = "dpkg" <=> IsDpkgClan(ClanOfManager[c.kind])
      /\ Family(c.kind) = "rpm" <=> IsRpmClan(ClanOfManager[c.kind])
  BY <1>2 DEF Family
<1> QED
  BY <1>2, <1>3 DEF HasDatabase

\* So do the adapters of the native managers.
LEMMA NativePresent ==
  ASSUME Read, c.kind \in NativeKinds,
         Observation.presence = "present", ~Observation.err
  PROVE  \E e \in seen[1] : Fits(e)
<1> DEFINE only == [package |-> Asked.pkg]
<1>1. /\ Asked.kind = c.kind /\ Asked.pkg = c.pkg /\ Asked.src = c.src
      /\ InventoryName(c) = c.pkg
  BY AskedIs DEF Read, InventoryName, NativeKinds, ClanOfManager, RegistryKinds
<1>2. Observation = NativeObserve(Asked, A, B)
  BY DEF Observation, OwnObserve, NativeKinds, ClanOfManager
<1>3. \A e \in Queried(seen[1], 1) :
        /\ e \in seen[1] /\ Plausible(c, e) /\ e.name = c.pkg /\ e.pkg = c.pkg
        /\ c.kind \in {"brew", "apk", "pacman"} => e.form = "whole"
  <2>1. AskedByName
    BY DEF AskedByName
  <2>2. c.kind \notin Renaming
    BY DEF NativeKinds, ClanOfManager, Renaming, RegistryKinds
  <2> QED
    BY <1>1, <2>1, <2>2 DEF Queried, Read, Sound, Plausible
<1>4. A.rows \subseteq Queried(seen[1], 1)
  BY RowsSeen
<1>5. /\ ThisPackage(Asked) = Observed("present", Stated(only))
      /\ DOMAIN only = {"package"}
  BY DEF ThisPackage
<1>6. Family(c.kind) \in {"dpkg", "rpm", "port", "winget", "status"}
  BY DEF Family
<1>7. ASSUME NEW e \in Queried(seen[1], 1), e.form = "whole",
             c.kind # "winget"
      PROVE  Serves(e)
  BY <1>3, <1>7 DEF Serves, NativeKinds, ClanOfManager, RegistryKinds
<1>8. ASSUME NEW e \in Queried(seen[1], 1), e.form = "whole",
             c.kind # "winget", Observation = ThisPackage(Asked)
      PROVE  \E x \in seen[1] : Fits(x)
  <2> HIDE DEF only
  <2>1. Observation.known = Stated(only)
    BY <1>5, <1>8, NotPresent
  <2>2. DOMAIN Observation.known \subseteq {"package"}
    BY <1>5, <2>1, StatedIs
  <2>3. Fits(e)
    BY <1>7, <1>8, <2>2 DEF Fits
  <2> QED
    BY <1>3, <2>3
<1>9. CASE HasDatabase(c.kind)
  <2>1. Observation = DatabaseObserve(Asked, A, B)
    BY <1>1, <1>2, <1>9 DEF NativeObserve, HasDatabase
  <2>2. /\ DatabaseReading(Asked, A, B) = "present"
        /\ Observation = ThisPackage(Asked)
    BY <2>1, NotPresent DEF DatabaseObserve
  <2>3. PICK e \in A.rows : Family(c.kind) = "dpkg" => e.form = "whole"
    <3>1. CASE Family(c.kind) = "dpkg"
      <4>1. DpkgReading(Asked, A, B) = "present"
        BY <1>1, <2>2, <3>1 DEF DatabaseReading
      <4> QED
        BY <4>1 DEF DpkgReading
    <3>2. CASE Family(c.kind) # "dpkg"
      <4>1. RpmReading(Asked, A, B) = "present"
        BY <1>1, <2>2, <3>2 DEF DatabaseReading
      <4>3. A.rows # {}
        BY <4>1 DEF RpmReading, OneRecord
      <4> QED
        BY <3>2, <4>3
    <3> QED
      BY <3>1, <3>2
  <2>4. \/ c.kind = "apt" /\ Family(c.kind) = "dpkg"
        \/ c.kind \in {"dnf", "dnf5", "yum", "zypper"}
    BY <1>9, DatabaseKinds
  <2>5. e.form = "whole" /\ c.kind # "winget"
    BY <1>3, <1>4, <2>3, <2>4 DEF Plausible, KnowsPartial
  <2> QED
    BY <1>4, <1>8, <2>2, <2>3, <2>5
<1>10. CASE Family(c.kind) = "port"
  <2>1. Observation = PortObserve(Asked, A)
    BY <1>1, <1>2, <1>10 DEF NativeObserve, HasDatabase
  <2>2. PortInstalled(A) /\ Observation = ThisPackage(Asked)
    BY <2>1, NotPresent DEF PortObserve
  <2>3. c.kind # "winget"
    BY <1>10 DEF Family, ClanOfManager, IsDpkgClan, IsRpmClan
  <2> QED
    BY <1>4, <1>8, <2>2, <2>3 DEF PortInstalled
<1>11. CASE Family(c.kind) = "status"
  <2>1. Observation = StatusObserve(Asked, A)
    BY <1>1, <1>2, <1>11 DEF NativeObserve, HasDatabase
  <2>2. A.exit = 0 /\ Observation = ThisPackage(Asked)
    BY <2>1, NotPresent DEF StatusObserve
  <2>3. c.kind \notin {"winget", "port", "apt"}
    BY <1>11 DEF Family, ClanOfManager, IsDpkgClan, IsRpmClan
  <2>4. doubt # "garbled" /\ AskedByName
    BY <1>11 DEF Read, Possible, AskedByName
  <2>5. PICK e \in seen[1] : e \in Queried(seen[1], 1)
    BY <2>2, <2>3, <2>4, FoundByName
  <2>6. e.form = "whole"
    BY <1>3, <2>3, <2>5
    DEF Plausible, KnowsPartial, NativeKinds, ClanOfManager
  <2> QED
    BY <1>8, <2>2, <2>3, <2>5, <2>6
<1>12. CASE Family(c.kind) = "winget"
  <2> DEFINE rows == {r \in A.rows : r.pkg = Asked.pkg
                                      /\ Asked.src \in {"", r.src}}
             e    == CHOOSE r \in rows : TRUE
             r    == [package |-> Asked.pkg, version |-> e.ver,
                      source |-> e.src]
  <2>1. Observation = WingetObserve(Asked, A)
    BY <1>1, <1>2, <1>12 DEF NativeObserve, HasDatabase
  <2>2. rows # {} /\ Observation = Observed("present", Stated(r))
    BY <2>1, NotPresent DEF WingetObserve
  <2>3. e \in A.rows /\ c.src \in {"", e.src}
    BY <1>1, <2>2
  <2>4. r["version"] = e.ver /\ "revision" \notin DOMAIN r
    OBVIOUS
  <2>5. Observation.known = Stated(r)
    BY <2>2, NotPresent
  <2> HIDE DEF rows, e, r
  <2>6. c.kind = "winget"
    BY <1>12 DEF Family, NativeKinds, ClanOfManager, IsDpkgClan, IsRpmClan
  <2>7. e.form = "whole" /\ e.pkg = c.pkg /\ e \in seen[1]
    BY <1>3, <1>4, <2>3, <2>6 DEF Plausible, KnowsPartial
  <2>8. Serves(e)
    BY <2>3, <2>6, <2>7 DEF Serves, RegistryKinds
  <2>9. Fits(e)
    BY <2>4, <2>5, <2>8, StatedIs, SameItself DEF Fits
  <2> QED
    BY <2>7, <2>9
<1> QED
  BY <1>6, <1>9, <1>10, <1>11, <1>12 DEF HasDatabase

\* The observation that a verdict of "satisfied" rests on.
LEMMA SatisfiedObservation ==
  ASSUME Verdict.state = "satisfied"
  PROVE  /\ Observation.presence = "present" /\ ~Observation.err
         /\ \A f \in DOMAIN Demanded : /\ f \in DOMAIN Observation.known
                                       /\ Observation.known[f] = Demanded[f]
<1> DEFINE answer == ObserveResolvedCandidate(Observation)
<1>1. Verdict = Reconcile(Demanded, answer)
  BY DEF Verdict, VerifyResolvedCandidate, Demanded
<1>2. /\ answer.presence = "present"
      /\ \A f \in DOMAIN Demanded : /\ f \in DOMAIN answer.known
                                    /\ answer.known[f] = Demanded[f]
  BY <1>1, SatisfiedIsMet
<1>3. ~Observation.err /\ answer.presence = Observation.presence
  BY <1>2 DEF ObserveResolvedCandidate
<1>4. answer.known = Observation.known
  BY <1>3 DEF ObserveResolvedCandidate
<1> HIDE DEF answer
<1> QED
  BY <1>2, <1>3, <1>4

\* A target counts as satisfied only if an entry that was seen meets the plan.
LEMMA SatisfiedMeets ==
  ASSUME Read, Verdict.state = "satisfied", ~Lenient
  PROVE  \E e \in seen[1] \cup seen[Questions] : Meets(e)
<1>1. /\ Observation.presence = "present" /\ ~Observation.err
      /\ \A f \in DOMAIN Demanded : /\ f \in DOMAIN Observation.known
                                    /\ Observation.known[f] = Demanded[f]
  BY SatisfiedObservation
<1>2. DOMAIN Demanded = DOMAIN Plan \cap Verifies(c.kind)
  BY DEF Demanded, Project
<1>3. c.kind = "go" => "version" \in DOMAIN Observation.known
  <2> SUFFICES ASSUME c.kind = "go"
               PROVE  "version" \in DOMAIN Observation.known
    OBVIOUS
  <2>1. c.ver # "" /\ Plan = Intent(c)
    BY DEF Lenient, Plan, ResolvePlan, LockedKinds
  <2>2. "version" \in DOMAIN Plan
    BY <2>1 DEF Intent, Stated
  <2> QED
    BY <1>1, <1>2, <2>2 DEF Verifies
<1>4. PICK e \in seen[1] \cup seen[Questions] : Fits(e)
  <2>1. CASE c.kind \in OwnObserve
    BY <1>1, <1>3, <2>1, ToolchainPresent
  <2>2. CASE c.kind \in NativeKinds
    BY <1>1, <2>2, NativePresent
  <2>3. CASE c.kind \notin OwnObserve \cup NativeKinds
    BY <1>1, <2>3, BasePresent
  <2> QED
    BY <2>1, <2>2, <2>3
<1>5. \A field : Value(Demanded, field) # "" =>
        /\ field \in DOMAIN Observation.known \cap Verifies(c.kind)
        /\ Observation.known[field] = Value(Demanded, field)
  BY <1>1, <1>2 DEF Value
<1>6. /\ SameVersion(Value(Demanded, "version"), e.ver)
      /\ Value(Demanded, "revision") \in {"", e.build}
  BY <1>4, <1>5 DEF Fits, SameVersion
<1> QED
  BY <1>4, <1>6 DEF Meets, Fits, Demanded

-------------------------------------------------------------------------------
(* The answers of a command in progress are the manager's on the hosts     *)
(* that were seen.                                                         *)

\* An answer of a manager.
Reply ==
  [found : BOOLEAN, ran : BOOLEAN, whole : BOOLEAN, exit : {0, 1},
   said : {"missing", "rows", "other"}, rows : SUBSET Entry]

\* What is read of the answers so far, and of whom: each answer is the
\* manager's on the host it was asked about, and a command that is still
\* asking has neither a verdict nor anything to report.
Reading ==
  /\ Len(answers) <= Questions
  /\ answers # <<>> =>
       /\ Possible(doubt) /\ Len(seen) = Len(answers)
       /\ \A i \in 1 .. Len(answers) : answers[i] \in Answer(seen[i], i, doubt)

ReadingInv ==
  /\ c \in Candidates
  /\ \A e \in host : Sound(e)
  /\ answers \in Seq(Reply) /\ seen \in Seq(SUBSET Entry)
  /\ doubt \in Faults \cup {"none"}
  /\ \A i \in 1 .. Len(seen) : \A e \in seen[i] : Sound(e)
  /\ stage \in Asking => Reading /\ verdict = NoVerdict
  /\ stage # "idle" => outcome = ""

LEMMA AnswerTyped ==
  ASSUME NEW h \in SUBSET Entry, NEW q, NEW f \in Faults \cup {"none"},
         NEW a \in Answer(h, q, f)
  PROVE  a \in Reply
<1> DEFINE honest == Honest(h, q)
           lost   == [honest EXCEPT !.said = "other",
                                    !.rows = {e \in @ : c.kind = "go"}]
<1>1. honest \in Reply
  <2>1. Queried(h, q) \subseteq Entry
    BY DEF Queried
  <2> QED
    BY <2>1 DEF Honest, Silent, Listing, Reply
<1> HIDE DEF honest
<1>2. lost \in Reply
  BY <1>1 DEF Reply
<1>3. Answer(h, q, f) =
        CASE f = "none"    -> {honest}
          [] f = "gone"    -> {[lost EXCEPT !.found = FALSE, !.ran = FALSE]}
          [] f = "fails"   -> {[lost EXCEPT !.ran = FALSE]}
          [] f = "garbled" -> {[lost EXCEPT !.exit = 0]}
          [] f = "refuses" -> {[lost EXCEPT !.exit = 1]}
          [] f = "cut" ->
               IF c.kind \in Structured
               THEN {[lost EXCEPT !.whole = FALSE]}
               ELSE {[honest EXCEPT !.whole = FALSE, !.rows = rows] :
                       rows \in SUBSET honest.rows}
  BY DEF Answer, honest
<1> HIDE DEF lost
<1>4. CASE f = "cut" /\ c.kind \notin Structured
  <2>1. PICK rows \in SUBSET honest.rows :
          a = [honest EXCEPT !.whole = FALSE, !.rows = rows]
    BY <1>3, <1>4
  <2> QED
    BY <1>1, <2>1 DEF Reply
<1>5. CASE f = "gone"
  <2>1. a = [lost EXCEPT !.found = FALSE, !.ran = FALSE]
    BY <1>3, <1>5
  <2> QED
    BY <1>2, <2>1 DEF Reply
<1>6. CASE ~(f = "cut" /\ c.kind \notin Structured) /\ f # "gone"
  <2>1. a \in {honest, [lost EXCEPT !.ran = FALSE], [lost EXCEPT !.exit = 0],
               [lost EXCEPT !.exit = 1], [lost EXCEPT !.whole = FALSE]}
    BY <1>3, <1>6 DEF Faults
  <2> QED
    BY <1>1, <1>2, <2>1 DEF Reply
<1> QED
  BY <1>4, <1>5, <1>6

\* A candidate is a record of the fields that a manifest may fill in, and
\* what go installs has an import path.
LEMMA CandidateIs ==
  ASSUME c \in Candidates
  PROVE  c \in Candidate /\ (c.kind = "go" => c.path # <<>>)
  BY CandidatesAssumption

\* When the manager has answered, its answers are what they were asked for.
LEMMA AnsweredRead ==
  ASSUME ReadingInv, stage \in Asking, Answered
  PROVE  Read /\ {1, Questions} \subseteq DOMAIN seen
<1>1. Questions \in {1, 2}
  BY DEF Questions
<1>2. answers # <<>>
  <2>1. Len(answers) # 0
    BY <1>1 DEF Answered
  <2>2. Len(<< >>) = 0
    OBVIOUS
  <2> QED
    BY <2>1, <2>2
<1>3. Len(answers) = Questions /\ Len(seen) = Questions
  BY <1>2 DEF Answered, ReadingInv, Reading
<1>4. /\ \A i \in 1 .. Questions : answers[i] \in Answer(seen[i], i, doubt)
      /\ 1 \in 1 .. Questions /\ Questions \in 1 .. Questions
  <2>1. Reading
    BY DEF ReadingInv
  <2>2. \A i \in 1 .. Questions : answers[i] \in Answer(seen[i], i, doubt)
    BY <1>2, <1>3, <2>1 DEF Reading
  <2>3. 1 \in 1 .. Questions /\ Questions \in 1 .. Questions
    BY <1>1
  <2> QED
    BY <2>2, <2>3
<1>5. /\ A \in Answer(seen[1], 1, doubt)
      /\ B \in Answer(seen[Questions], Questions, doubt)
  BY <1>3, <1>4 DEF A, B
<1>6. \A e \in seen[1] \cup seen[Questions] : Sound(e)
  BY <1>3, <1>4 DEF ReadingInv
<1>7. {1, Questions} \subseteq DOMAIN seen
  <2>1. seen \in Seq(SUBSET Entry)
    BY DEF ReadingInv
  <2>2. DOMAIN seen = 1 .. Len(seen)
    BY <2>1
  <2> QED
    BY <1>3, <1>4, <2>2
<1>8. c \in Candidate /\ doubt \in Faults \cup {"none"} /\ Possible(doubt)
  BY <1>2, CandidateIs DEF ReadingInv, Reading
<1> QED
  BY <1>5, <1>6, <1>7, <1>8 DEF Read

\* What is known of a candidate stays true: it never changes.
LEMMA ServesStays ==
  ASSUME c' = c
  PROVE  /\ \A e : Sound(e)' <=> Sound(e)
         /\ \A e : Serves(e)' <=> Serves(e)
         /\ \A e : Meets(e)' <=> Meets(e)
         /\ Lenient' <=> Lenient
<1>1. \A e : Sound(e)' <=> Sound(e)
  BY DEF Sound
<1>2. \A e : Serves(e)' <=> Serves(e)
  BY DEF Serves
<1>3. \A e : Meets(e)' <=> Meets(e)
  BY <1>2 DEF Meets, Plan, SameVersion
<1>4. Lenient' <=> Lenient
  BY DEF Lenient
<1> QED
  BY <1>1, <1>2, <1>3, <1>4

\* And so is what its manager may answer.
LEMMA AnswersStay ==
  ASSUME c' = c
  PROVE  /\ Questions' = Questions
         /\ \A fault : Possible(fault)' <=> Possible(fault)
         /\ \A h, q, f : Answer(h, q, f)' = Answer(h, q, f)
<1>1. AskedByName' <=> AskedByName
  BY DEF AskedByName
<1>2. \A h, q : Queried(h, q)' = Queried(h, q)
  <2> SUFFICES ASSUME NEW h, NEW q
               PROVE  Queried(h, q)' = Queried(h, q)
    OBVIOUS
  <2>1. AskedByName' = AskedByName
    BY Zenon DEF AskedByName
  <2> QED
    BY <2>1, Zenon DEF Queried
<1>3. \A h, q : Honest(h, q)' = Honest(h, q)
  BY <1>1, <1>2 DEF Honest
<1>4. \A h, q, f : Answer(h, q, f)' = Answer(h, q, f)
  <2> SUFFICES ASSUME NEW h, NEW q, NEW f
               PROVE  Answer(h, q, f)' = Answer(h, q, f)
    OBVIOUS
  <2> QED
    BY <1>3, Zenon DEF Answer
<1>5. Questions' = Questions
  BY DEF Questions
<1>6. \A fault : Possible(fault)' <=> Possible(fault)
  BY DEF Possible
<1> QED
  BY <1>4, <1>5, <1>6

LEMMA UniverseSound ==
  ASSUME c \in Candidates
  PROVE  \A e \in Universe(c) : Sound(e)
  BY UniverseAssumption DEF Sound

\* The bounds hold, an entry that is about is one the manager may list, and
\* nothing was asked yet.
LEMMA InitReading == Init => ReadingInv
<1> SUFFICES ASSUME Init PROVE ReadingInv
  OBVIOUS
<1>1. c \in Candidates /\ host \subseteq Universe(c)
  BY DEF Init
<1>2. \A e \in host : Sound(e)
  BY <1>1, UniverseSound
<1>3. /\ stage = "idle" /\ doubt = "none" /\ answers = <<>> /\ seen = <<>>
  BY DEF Init
<1>4. answers \in Seq(Reply) /\ seen \in Seq(SUBSET Entry)
  BY <1>3
<1>5. \A i \in 1 .. Len(seen) : \A e \in seen[i] : Sound(e)
  BY <1>3
<1>6. stage \notin Asking
  BY <1>3 DEF Asking
<1> QED
  BY <1>1, <1>2, <1>3, <1>4, <1>5, <1>6 DEF ReadingInv

LEMMA ValueIs ==
  ASSUME c \in Candidate
  PROVE  /\ Value(Plan, "package") = c.pkg
         /\ Value(Plan, "version") \in Words
         /\ Value(Plan, "revision") = c.build /\ c.build \in Words
<1> DEFINE r == [package     |-> c.pkg,
                 version     |-> c.ver,
                 scope       |-> ScopeOf(c),
                 environment |-> IF c.kind \in {"cargo", "conda"} THEN c.slot
                                 ELSE "",
                 source      |-> IF c.kind \in {"nix", "winget", "asdf", "conda"}
                                 THEN c.src ELSE "",
                 revision    |-> c.build]
<1>1. Intent(c) = Stated(r)
  BY DEF Intent
<1>2. /\ r["package"] = c.pkg /\ r["version"] = c.ver
      /\ r["revision"] = c.build
      /\ {"package", "version", "revision"} \subseteq DOMAIN r
  OBVIOUS
<1>3. /\ c.pkg \in Words /\ c.ver \in Words /\ c.build \in Words
      /\ c.locked \in Words /\ "" \in Words
  BY DEF Candidate, Words
<1> HIDE DEF r
<1>4. \A f \in {"package", "version", "revision"} :
        Value(Intent(c), f) = r[f]
  BY <1>1, <1>2, StatedIs DEF Value
<1>5. CASE Plan = Intent(c)
  BY <1>2, <1>3, <1>4, <1>5
<1>6. CASE Plan # Intent(c)
  <2>1. Plan = [f \in DOMAIN Intent(c) \cup {"version"} |->
                  IF f = "version" THEN c.locked ELSE Intent(c)[f]]
    BY <1>6 DEF Plan, ResolvePlan
  <2>2. /\ Value(Plan, "version") = c.locked
        /\ Value(Plan, "package") = Value(Intent(c), "package")
        /\ Value(Plan, "revision") = Value(Intent(c), "revision")
    BY <2>1 DEF Value
  <2> QED
    BY <1>2, <1>3, <1>4, <2>2
<1> QED
  BY <1>5, <1>6

\* What an installation leaves is again what the manager may list.
LEMMA InstalledSound ==
  ASSUME c \in Candidates, \A e \in host : Sound(e)
  PROVE  LET cmd == InstallCommand(Asked, Plan)
         IN \A e \in Installed([cmd EXCEPT !.slot = Slot(cmd)]) : Sound(e)
<1> DEFINE cmd   == InstallCommand(Asked, Plan)
           asked == [cmd EXCEPT !.slot = Slot(cmd)]
           entry == [name |-> IF c.kind = "go" THEN GoInstallName(c.path)
                              ELSE asked.name, pkg |-> asked.pkg,
                     ver |-> IF asked.ver = "" THEN "v2" ELSE asked.ver,
                     slot |-> asked.slot, src |-> asked.src,
                     build |-> IF asked.build = "" THEN "b1" ELSE asked.build,
                     form |-> "whole"]
<1>0. c \in Candidate /\ (c.kind = "go" => c.path # <<>>)
  BY CandidateIs
<1>1. /\ InventoryName(Asked) = InventoryName(c) /\ Asked.src = c.src
      /\ Asked.kind = c.kind /\ Asked.slot = c.slot
  BY <1>0, AskedIs
<1>2. /\ c.pkg \in Words /\ c.alias \in Words /\ c.src \in Words
      /\ c.slot \in Words /\ c.path \in Seq(Words)
  BY <1>0 DEF Candidate, Words
<1>3. Confined(Asked) \in Words
  BY <1>1, <1>2 DEF Confined, Words
<1>4. /\ cmd.name = InventoryName(c) /\ cmd.pkg = c.pkg /\ cmd.src = c.src
      /\ cmd.ver \in Words /\ cmd.build \in Words /\ cmd.slot \in Words
      /\ DOMAIN cmd = {"name", "pkg", "ver", "slot", "src", "build"}
  BY <1>0, <1>1, <1>2, <1>3, ValueIs DEF InstallCommand
<1>5. /\ Slot(cmd) \in Words
      /\ c.kind = "asdf" => Slot(cmd) = IF c.src = "" THEN "asdf" ELSE "mise"
  BY <1>4 DEF Slot, Words
<1>6. /\ asked.name = InventoryName(c) /\ asked.pkg = c.pkg
      /\ asked.src = c.src /\ asked.ver \in Words /\ asked.build \in Words
      /\ asked.slot = Slot(cmd)
  BY <1>4 DEF InstallCommand
<1>7. c.kind # "go" => InventoryName(c) \in Words
  BY <1>2, Zenon DEF InventoryName
<1>12. c.kind = "go" => GoInstallName(c.path) \in Words
  <2> SUFFICES ASSUME c.kind = "go" PROVE GoInstallName(c.path) \in Words
    OBVIOUS
  <2> HIDE DEF Words
  <2>1. Len(c.path) \in Nat /\ Len(c.path) # 0
    BY <1>0, <1>2
  <2> QED
    BY <1>2, <2>1 DEF GoInstallName
<1> HIDE DEF asked
<1>8. Sound(entry)
  <2>1. entry \in Entry
    BY <1>2, <1>5, <1>6, <1>7, <1>12 DEF Entry, Words
  <2>2. /\ entry.name = IF c.kind = "go" THEN GoInstallName(c.path)
                        ELSE InventoryName(c)
        /\ entry.pkg = c.pkg
        /\ entry.form = "whole" /\ entry.ver # "" /\ entry.src = c.src
        /\ entry.slot = Slot(cmd)
    BY <1>6
  <2> HIDE DEF entry
  <2>3. Plausible(c, entry)
    BY <1>5, <2>2 DEF Plausible, InventoryName, Renaming, RegistryKinds
  <2> QED
    BY <2>1, <2>3 DEF Sound
<1>9. ASSUME NEW e \in host, c.kind = "sdkman"
      PROVE  Sound([e EXCEPT !.slot = ""])
  <2>1. e \in Entry /\ Plausible(c, e)
    BY <1>9 DEF Sound
  <2>2. [e EXCEPT !.slot = ""] \in Entry
    BY <2>1 DEF Entry, Words
  <2>3. Plausible(c, [e EXCEPT !.slot = ""])
    BY <1>9, <2>1 DEF Plausible, Entry
  <2> QED
    BY <2>2, <2>3 DEF Sound
<1>10. ASSUME NEW e \in Installed(asked)
       PROVE  e = entry \/ \E x \in host :
                e = IF c.kind = "sdkman" THEN [x EXCEPT !.slot = ""] ELSE x
  BY <1>10 DEF Installed
<1> HIDE DEF entry
<1>11. \A e \in Installed(asked) : Sound(e)
  BY <1>8, <1>9, <1>10
<1> QED
  BY <1>11 DEF asked

\* Every step leaves the reading what it is.
LEMMA NextReading == ReadingInv /\ [Next]_vars => ReadingInv'
<1> SUFFICES ASSUME ReadingInv, [Next]_vars PROVE ReadingInv'
  OBVIOUS
<1>1. c' = c
  BY DEF Next, vars, StartInstall, StartRemoval, Start, Ask,
     GateAlreadyInstalled, InstallResolved, ConfirmNativeInstall,
     VerifyInstalled, DecideRemoval, RemoveResolved, Outsider
<1>2. /\ \A e : Sound(e)' <=> Sound(e)
      /\ Questions' = Questions
      /\ \A fault : Possible(fault)' <=> Possible(fault)
      /\ \A h, q, f : Answer(h, q, f)' = Answer(h, q, f)
  BY <1>1, ServesStays, AnswersStay
<1>3. /\ c \in Candidates
      /\ \A e \in host : Sound(e)
      /\ answers \in Seq(Reply) /\ seen \in Seq(SUBSET Entry)
      /\ doubt \in Faults \cup {"none"}
      /\ \A i \in 1 .. Len(seen) : \A e \in seen[i] : Sound(e)
      /\ stage \in Asking => Reading /\ verdict = NoVerdict
      /\ stage # "idle" => outcome = ""
  BY DEF ReadingInv
<1>4. /\ <<>> \in Seq(Reply) /\ <<>> \in Seq(SUBSET Entry) /\ Len(<<>>) = 0
      /\ "none" \in Faults \cup {"none"}
  OBVIOUS
<1>5. answers' = <<>> => Reading'
  <2> SUFFICES ASSUME answers' = <<>> PROVE Reading'
    OBVIOUS
  <2>1. Questions' \in {1, 2}
    BY DEF Questions
  <2> QED
    BY <1>4, <2>1 DEF Reading
<1>6. ASSUME NEW first, Start(first) PROVE ReadingInv'
  <2>1. /\ answers' = <<>> /\ seen' = <<>> /\ doubt' = "none" /\ host' = host
        /\ verdict' = NoVerdict /\ outcome' = ""
    BY <1>6 DEF Start, Forget
  <2>2. NoVerdict' = NoVerdict
    BY DEF NoVerdict, Nothing
  <2>3. Reading'
    BY <1>5, <2>1
  <2>4. verdict' = NoVerdict'
    BY <2>1, <2>2
  <2>5. \A i \in 1 .. Len(seen') : \A e \in seen'[i] : Sound(e)
    <3>1. Len(seen') = 0
      BY <2>1
    <3> QED
      BY <3>1
  <2> HIDE DEF NoVerdict
  <2> QED
    BY <1>1, <1>2, <1>3, <1>4, <2>1, <2>3, <2>4, <2>5 DEF ReadingInv
<1>7. ASSUME NEW fault \in Faults \cup {"none"}, Ask(fault) PROVE ReadingInv'
  <2>1. /\ stage \in Asking /\ Len(answers) < Questions
        /\ doubt' = fault /\ host' = host /\ stage' = stage
        /\ verdict' = verdict /\ outcome' = outcome
        /\ answers = <<>> => Possible(fault)
        /\ answers # <<>> => fault = doubt
        /\ seen' = IF answers = <<>> THEN <<host>> ELSE Append(seen, host)
    BY <1>7 DEF Ask
  <2>2. PICK answer \in Answer(host, Len(answers) + 1, fault) :
          answers' = Append(answers, answer)
    BY <1>7 DEF Ask
  <2>3. host \in SUBSET Entry
    BY <1>3 DEF Sound
  <2>4. answer \in Reply
    BY <2>2, <2>3, AnswerTyped
  <2>10. answers \in Seq(Reply)
    BY <1>3
  <2>5. /\ answers' \in Seq(Reply) /\ Len(answers') = Len(answers) + 1
        /\ answers' # <<>>
        /\ \A i \in 1 .. Len(answers) : answers'[i] = answers[i]
        /\ answers'[Len(answers) + 1] = answer
    <3> HIDE DEF Reply
    <3>1. answers' = Append(answers, answer)
      BY <2>2
    <3> QED
      BY <2>4, <2>10, <3>1
  <2>6. Reading
    BY <1>3, <2>1
  <2>7. Questions \in {1, 2} /\ Len(answers) \in Nat
    BY <2>10 DEF Questions
  <2>8. CASE answers = <<>>
    <3>1. /\ seen' \in Seq(SUBSET Entry) /\ Len(seen') = 1 /\ seen'[1] = host
          /\ Len(answers) = 0
      BY <2>1, <2>3, <2>8
    <3>2. \A i \in 1 .. Len(answers') : answers'[i] \in Answer(seen'[i], i, fault)
      BY <2>2, <2>5, <3>1
    <3>3. \A i \in 1 .. Len(seen') : \A e \in seen'[i] : Sound(e)
      <4> SUFFICES ASSUME NEW i \in 1 .. Len(seen'), NEW e \in seen'[i]
                   PROVE  Sound(e)
        OBVIOUS
      <4>1. i = 1
        BY <3>1
      <4> QED
        BY <1>3, <3>1, <4>1
    <3>4. Reading'
      BY <1>2, <2>1, <2>5, <2>7, <2>8, <3>1, <3>2 DEF Reading
    <3> QED
      BY <1>1, <1>2, <1>3, <2>1, <2>5, <3>1, <3>3, <3>4 DEF ReadingInv, NoVerdict
  <2>9. CASE answers # <<>>
    <3>1. /\ fault = doubt /\ Possible(doubt) /\ Len(seen) = Len(answers)
          /\ \A i \in 1 .. Len(answers) : answers[i] \in Answer(seen[i], i, doubt)
      BY <2>1, <2>6, <2>9 DEF Reading
    <3>2. /\ seen' \in Seq(SUBSET Entry) /\ Len(seen') = Len(answers) + 1
          /\ \A i \in 1 .. Len(answers) : seen'[i] = seen[i]
          /\ seen'[Len(answers) + 1] = host
      <4>1. seen \in Seq(SUBSET Entry) /\ seen' = Append(seen, host)
        BY <1>3, <2>1, <2>9
      <4> HIDE DEF Entry
      <4> QED
        BY <2>3, <3>1, <4>1
    <3>3. \A i \in 1 .. Len(answers') : answers'[i] \in Answer(seen'[i], i, fault)
      BY <2>2, <2>5, <2>7, <3>1, <3>2
    <3>4. \A i \in 1 .. Len(seen') : \A e \in seen'[i] : Sound(e)
      <4> SUFFICES ASSUME NEW i \in 1 .. Len(seen'), NEW e \in seen'[i]
                   PROVE  Sound(e)
        OBVIOUS
      <4>1. CASE i = Len(answers) + 1
        BY <1>3, <3>2, <4>1
      <4>2. CASE i # Len(answers) + 1
        <5>1. i \in 1 .. Len(answers) /\ i \in 1 .. Len(seen)
          BY <2>7, <3>1, <3>2, <4>2
        <5> QED
          BY <1>3, <3>2, <5>1
      <4> QED
        BY <4>1, <4>2
    <3>5. Reading'
      BY <1>2, <2>1, <2>5, <2>7, <3>1, <3>2, <3>3 DEF Reading
    <3> QED
      BY <1>1, <1>2, <1>3, <2>1, <2>5, <3>2, <3>4, <3>5 DEF ReadingInv, NoVerdict
  <2> QED
    BY <2>8, <2>9
<1>8. CASE GateAlreadyInstalled
  <2>1. /\ answers' = <<>> /\ host' = host /\ doubt' = doubt /\ seen' = seen
        /\ stage # "idle"
        /\ stage' = "idle" \/ (stage' = "install" /\ outcome' = outcome)
    <3>1. TransitionForVerification(Verdict) \in
            {"none", "install", "upgrade", "refuse"}
      BY DEF TransitionForVerification
    <3> QED
      BY <1>8, <3>1 DEF GateAlreadyInstalled, Forget, End
  <2>2. stage' \notin Asking'
    BY <2>1 DEF Asking
  <2> QED
    BY <1>1, <1>2, <1>3, <1>4, <2>1, <2>2 DEF ReadingInv
<1>9. CASE InstallResolved
  <2> DEFINE cmd  == InstallCommand(Asked, Plan)
             done == Installed([cmd EXCEPT !.slot = Slot(cmd)])
  <2>1. \A e \in done : Sound(e)
    BY <1>3, InstalledSound
  <2>2. /\ host' \in {host, done} /\ answers' = <<>> /\ seen' = <<>>
        /\ verdict' = NoVerdict /\ doubt' = doubt /\ stage = "install"
        /\ \/ stage' \in {"confirm", "verify"} /\ outcome' = outcome
           \/ stage' = "idle"
    BY <1>9 DEF InstallResolved, Forget, End
  <2> HIDE DEF done
  <2>3. \A e \in host' : Sound(e)
    BY <1>3, <2>1, <2>2
  <2>4. verdict' = NoVerdict'
    BY <2>2 DEF NoVerdict, Nothing
  <2>5. \A i \in 1 .. Len(seen') : \A e \in seen'[i] : Sound(e)
    BY <1>4, <2>2
  <2>6. Reading' /\ outcome = ""
    BY <1>3, <1>5, <2>2
  <2> HIDE DEF NoVerdict
  <2> QED
    BY <1>1, <1>2, <1>3, <1>4, <2>2, <2>3, <2>4, <2>5, <2>6 DEF ReadingInv
<1>10. CASE ConfirmNativeInstall
  <2>1. /\ answers' = <<>> /\ host' = host /\ doubt' = doubt /\ seen' = seen
        /\ verdict' = verdict /\ stage = "confirm"
        /\ stage' = "idle" \/ (stage' = "verify" /\ outcome' = outcome)
    BY <1>10 DEF ConfirmNativeInstall, Forget, End
  <2>2. verdict = NoVerdict /\ NoVerdict' = NoVerdict
    BY <1>3, <2>1 DEF Asking, NoVerdict, Nothing
  <2> QED
    BY <1>1, <1>2, <1>3, <1>4, <1>5, <2>1, <2>2 DEF ReadingInv
<1>11. CASE VerifyInstalled
  <2>1. /\ answers' = <<>> /\ host' = host /\ doubt' = doubt /\ seen' = seen
        /\ stage' = "idle"
    BY <1>11 DEF VerifyInstalled, Forget, End
  <2> QED
    BY <1>1, <1>2, <1>3, <1>4, <2>1 DEF ReadingInv, Asking
<1>12. CASE DecideRemoval
  <2>1. /\ answers' = <<>> /\ host' = host /\ doubt' = doubt /\ seen' = seen
        /\ stage = "removal"
        /\ stage' = "idle" \/ (stage' = "uninstall" /\ outcome' = outcome)
    BY <1>12 DEF DecideRemoval, Forget, End
  <2> QED
    BY <1>1, <1>2, <1>3, <1>4, <2>1 DEF ReadingInv, Asking
<1>13. CASE RemoveResolved
  <2>1. /\ answers' = answers /\ host' \subseteq host /\ doubt' = doubt
        /\ seen' = seen /\ stage' = "idle"
    BY <1>13 DEF RemoveResolved, End
  <2> QED
    BY <1>1, <1>2, <1>3, <1>4, <2>1 DEF ReadingInv, Asking
<1>14. CASE Outsider
  <2>1. /\ answers' = answers /\ doubt' = doubt /\ seen' = seen
        /\ stage' = stage /\ verdict' = verdict /\ outcome' = outcome
        /\ host' \subseteq host \cup Universe(c)
    BY <1>14 DEF Outsider
  <2>2. \A e \in host' : Sound(e)
    BY <1>3, <2>1, UniverseSound
  <2>3. Reading => Reading'
    BY <1>2, <2>1 DEF Reading
  <2> QED
    BY <1>1, <1>2, <1>3, <2>1, <2>2, <2>3 DEF ReadingInv, Asking, NoVerdict, Nothing
<1>15. CASE UNCHANGED vars
  <2>1. Reading => Reading'
    BY <1>2, <1>15 DEF Reading, vars
  <2> QED
    BY <1>1, <1>2, <1>3, <1>15, <2>1 DEF ReadingInv, vars, NoVerdict, Nothing
<1> QED
  BY <1>6, <1>7, <1>8, <1>9, <1>10, <1>11, <1>12, <1>13, <1>14, <1>15
  DEF Next, StartInstall, StartRemoval

-------------------------------------------------------------------------------
(* A tool that is reported as installed is installed.                      *)

LEMMA NextReported == ReadingInv /\ ReportedIsMet /\ [Next]_vars => ReportedIsMet'
<1> SUFFICES ASSUME ReadingInv, ReportedIsMet, [Next]_vars
             PROVE  ReportedIsMet'
  OBVIOUS
<1>1. c' = c
  BY DEF Next, vars, StartInstall, StartRemoval, Start, Ask,
     GateAlreadyInstalled, InstallResolved, ConfirmNativeInstall,
     VerifyInstalled, DecideRemoval, RemoveResolved, Outsider
<1>2. (\A e : Meets(e)' <=> Meets(e)) /\ (Lenient' <=> Lenient)
  BY <1>1, ServesStays
<1>3. CASE outcome' \notin {"already", "installed"}
  BY <1>3 DEF ReportedIsMet
<1>4. CASE UNCHANGED <<outcome, seen>>
  BY <1>2, <1>4 DEF ReportedIsMet
<1>5. ASSUME stage \in Asking, Answered, seen' = seen,
             Verdict.state = "satisfied"
      PROVE  ReportedIsMet'
  <2> SUFFICES ASSUME ~Lenient'
               PROVE  \E i \in DOMAIN seen' : \E e \in seen'[i] : Meets(e)'
    BY DEF ReportedIsMet
  <2>1. Read /\ {1, Questions} \subseteq DOMAIN seen
    BY <1>5, AnsweredRead
  <2>2. PICK e \in seen[1] \cup seen[Questions] : Meets(e)
    BY <1>2, <1>5, <2>1, SatisfiedMeets
  <2>3. seen'[1] = seen[1] /\ seen'[Questions] = seen[Questions]
        /\ Meets(e)'
    BY <1>2, <1>5, <2>2
  <2> QED
    BY <1>5, <2>1, <2>2, <2>3
<1>6. stage \in Asking => outcome = ""
  BY DEF ReadingInv, Asking
<1>7. CASE GateAlreadyInstalled
  <2>1. /\ stage = "gate" /\ Answered /\ seen' = seen
        /\ TransitionForVerification(Verdict) = "none" \/
             outcome' \in {"", "drifted", "refused"}
    BY <1>6, <1>7 DEF GateAlreadyInstalled, End, Asking, TransitionForVerification
  <2>2. TransitionForVerification(Verdict) = "none" =>
          Verdict.state = "satisfied"
    BY DEF TransitionForVerification
  <2> QED
    BY <1>3, <1>5, <2>1, <2>2 DEF Asking
<1>8. CASE VerifyInstalled
  <2>1. /\ stage = "verify" /\ Answered /\ seen' = seen
        /\ Verdict.state = "satisfied" \/ outcome' = "failed"
    BY <1>8 DEF VerifyInstalled, End
  <2> QED
    BY <1>3, <1>5, <2>1 DEF Asking
<1>9. CASE \/ StartInstall \/ StartRemoval \/ DecideRemoval \/ InstallResolved
           \/ ConfirmNativeInstall \/ RemoveResolved
  <2>1. stage # "idle" => outcome = ""
    BY DEF ReadingInv
  <2>2. outcome' \notin {"already", "installed"}
    BY <1>9, <2>1 DEF StartInstall, StartRemoval, Start, DecideRemoval,
       InstallResolved, ConfirmNativeInstall, RemoveResolved, End
  <2> QED
    BY <1>3, <2>2
<1>10. CASE \E fault \in Faults \cup {"none"} : Ask(fault)
  <2>1. outcome' = outcome /\ stage \in Asking
    BY <1>10 DEF Ask
  <2> QED
    BY <1>3, <1>6, <2>1
<1>11. CASE Outsider \/ UNCHANGED vars
  BY <1>4, <1>11 DEF Outsider, vars
<1> QED
  BY <1>7, <1>8, <1>9, <1>10, <1>11 DEF Next

THEOREM AlwaysReportedIsMet == Spec => []ReportedIsMet
<1>1. Init => ReportedIsMet
  BY DEF Init, ReportedIsMet
<1>2. ReadingInv /\ ReportedIsMet /\ [Next]_vars => ReadingInv' /\ ReportedIsMet'
  BY NextReading, NextReported
<1> QED
  BY <1>1, <1>2, InitReading, PTL DEF Spec

-------------------------------------------------------------------------------
(* A tool that is taken for absent was absent.                             *)

\* A query reaches the entries that serve the candidate.
LEMMA ServesQueried ==
  ASSUME NEW h, NEW q, NEW e \in h, Plausible(c, e), Serves(e),
         c.kind # "asdf"
  PROVE  e \in Queried(h, q)
<1>1. AskedByName => e.name = InventoryName(c)
  BY DEF AskedByName, InventoryName, Serves, Plausible, Renaming,
         RegistryKinds, NativeKinds, ClanOfManager
<1> QED
  BY <1>1 DEF Queried, Serves

\* An honest manager lists what its query reaches.
LEMMA HonestLists ==
  ASSUME NEW h, NEW q, NEW e \in Queried(h, q),
         ~(c.kind \in NativeKinds /\ HasDatabase(c.kind) /\ q = 2)
  PROVE  /\ Honest(h, q).found /\ Honest(h, q).ran /\ Honest(h, q).whole
         /\ Honest(h, q).exit = 0 /\ Honest(h, q).said = "rows"
         /\ Honest(h, q).rows = Queried(h, q)
  BY HonestAnswer, ListingIs

\* No reading of a version that failed, or was unsure, proves an absence.
LEMMA GoneOnly ==
  /\ Gone.said = "absent" /\ Unsure.said = "unsure" /\ Failed.said = "failed"
  /\ \A r : VersionOf(r).said \in {"version", "unsure"}
  /\ \A r : r.ver # "" => VersionOf(r).said = "version"
  BY DEF Gone, Unsure, Failed, VersionOf, Report

\* An answer with something wrong proves no absence of a version, but for a
\* listing that was cut.
LEMMA FaultProvesNothing ==
  ASSUME Read, doubt # "none", c.kind \in ExactVersionKinds,
         doubt = "cut" => c.kind \notin {"uv", "gem"},
         NEW e \in Queried(seen[1], 1)
  PROVE  InstalledVersion(Asked, A).said # "absent"
<1>1. Asked.kind = c.kind
  BY AskedIs DEF Read
<1>2. /\ c.kind \notin NativeKinds
      /\ Honest(seen[1], 1).exit = 0
  BY HonestLists DEF ExactVersionKinds, NativeKinds, ClanOfManager
<1>3. /\ doubt \in Faults
      /\ doubt \in {"gone", "fails"} => ~A.ran
      /\ doubt \in {"gone", "fails", "refuses", "garbled"} => A.said = "other"
      /\ doubt = "cut" /\ c.kind \in Structured => A.said = "other"
      /\ doubt = "cut" /\ c.kind \notin Structured => A.exit = 0
  BY <1>2, AnswerIs DEF Read, Faults
<1>4. CASE c.kind \in {"pip", "composer"}
  BY <1>1, <1>3, <1>4, GoneOnly
  DEF InstalledVersion, ShownVersion, Faults, Structured, Report
<1>5. CASE c.kind \notin {"pip", "composer"}
  <2>1. A.said = "other"
    BY <1>3, <1>5 DEF Faults, Structured, ExactVersionKinds
  <2>2. CASE c.kind = "pipx"
    BY <1>1, <2>1, <2>2, GoneOnly DEF InstalledVersion, PipxVersion
  <2>3. CASE c.kind = "uv"
    BY <1>1, <2>1, <2>3, GoneOnly DEF InstalledVersion, UVVersion
  <2>4. CASE c.kind = "gem"
    BY <1>1, <2>1, <2>4, GoneOnly DEF InstalledVersion, GemVersion, Pick
  <2>5. CASE c.kind \in {"bun", "yarn"}
    BY <1>1, <2>1, <2>5, GoneOnly DEF InstalledVersion, FramedVersion
  <2>6. CASE c.kind = "pnpm"
    BY <1>1, <2>1, <2>6, GoneOnly DEF InstalledVersion, PNPMVersion
  <2>7. CASE c.kind = "npm"
    BY <1>1, <2>1, <2>7, GoneOnly DEF InstalledVersion, NPMVersion
  <2> QED
    BY <1>5, <2>2, <2>3, <2>4, <2>5, <2>6, <2>7 DEF ExactVersionKinds
<1> QED
  BY <1>4, <1>5

\* A listing that holds the candidate is read as its version, or as one that
\* cannot be told.
LEMMA ListedIsFound ==
  ASSUME Read, doubt = "none", c.kind \in ExactVersionKinds,
         NEW e \in Queried(seen[1], 1), Serves(e)
  PROVE  /\ InstalledVersion(Asked, A).said \in {"version", "unsure"}
         /\ c.kind \in {"uv", "bun"} => InstalledVersion(Asked, A).said = "version"
<1>1. /\ Asked.kind = c.kind /\ Asked.pkg = c.pkg
      /\ InventoryName(Asked) = InventoryName(c)
  BY AskedIs DEF Read
<1>2. /\ c.kind \notin NativeKinds
      /\ A.ran /\ A.exit = 0 /\ A.said = "rows" /\ e \in A.rows
      /\ A.rows \subseteq seen[1]
  <2>1. c.kind \notin NativeKinds
    BY DEF ExactVersionKinds, NativeKinds, ClanOfManager
  <2>2. A = Honest(seen[1], 1)
    BY AnswerIs DEF Read
  <2> QED
    BY <2>1, <2>2, HonestLists, RowsSeen
<1>3. \A r \in A.rows : Plausible(c, r) /\ r.ver # ""
  BY <1>2 DEF Read, Sound, Plausible, ExactVersionKinds
<1>4. c.kind # "pipx" => e \in Rows(Asked, A)
  BY <1>1, <1>2, <1>3
  DEF Rows, InventoryName, Serves, Plausible, Renaming, ExactVersionKinds,
      RegistryKinds
<1>5. Rows(Asked, A) \subseteq A.rows
  BY DEF Rows
<1>6. c.kind # "pipx" => ListedVersion(Asked, A).said = "version"
  <2> SUFFICES ASSUME c.kind # "pipx"
               PROVE  ListedVersion(Asked, A).said = "version"
    OBVIOUS
  <2> DEFINE r == CHOOSE x \in Rows(Asked, A) : TRUE
  <2>1. r \in Rows(Asked, A)
    BY <1>4
  <2>2. ListedVersion(Asked, A) = VersionOf(r)
    BY <1>4 DEF ListedVersion
  <2> HIDE DEF r
  <2> QED
    BY <1>3, <1>5, <2>1, <2>2, GoneOnly
<1>7. Exited0(A)
  BY <1>2 DEF Exited0
<1>8. CASE c.kind \in {"pip", "composer"}
  BY <1>1, <1>2, <1>6, <1>7, <1>8 DEF InstalledVersion, ShownVersion, Report
<1>9. CASE c.kind = "pipx"
  <2>1. e \in {r \in A.rows : r.pkg = Asked.pkg}
    BY <1>1, <1>2 DEF Serves
  <2>2. InstalledVersion(Asked, A) = PipxVersion(Asked, A)
    BY <1>1, <1>9 DEF InstalledVersion
  <2> QED
    BY <1>2, <1>7, <1>9, <2>1, <2>2, GoneOnly DEF PipxVersion
<1>10. CASE c.kind = "uv"
  BY <1>1, <1>2, <1>3, <1>6, <1>7, <1>10 DEF InstalledVersion, UVVersion
<1>11. CASE c.kind = "gem"
  <2>1. InstalledVersion(Asked, A) = Pick(Asked, Rows(Asked, A))
    BY <1>1, <1>4, <1>7, <1>11 DEF InstalledVersion, GemVersion
  <2> QED
    BY <1>11, <2>1, GoneOnly DEF Pick
<1>12. CASE c.kind \in {"bun", "yarn"}
  BY <1>1, <1>2, <1>6, <1>7, <1>12 DEF InstalledVersion, FramedVersion
<1>13. CASE c.kind = "pnpm"
  BY <1>1, <1>2, <1>6, <1>7, <1>13 DEF InstalledVersion, PNPMVersion
<1>14. CASE c.kind = "npm"
  BY <1>1, <1>2, <1>4, <1>6, <1>14 DEF InstalledVersion, NPMVersion
<1> QED
  BY <1>8, <1>9, <1>10, <1>11, <1>12, <1>13, <1>14 DEF ExactVersionKinds

\* Base adapters find what there is, and believe no answer that proves
\* nothing.
LEMMA BaseAbsent ==
  ASSUME Read, Believable, c.kind \notin OwnObserve \cup NativeKinds,
         NEW e \in seen[1], Serves(e)
  PROVE  Observation.presence # "absent" \/ Observation.err
<1>1. /\ Asked.kind = c.kind /\ Asked.pkg = c.pkg /\ Asked.src = c.src
      /\ Asked.ver = "" => c.ver = ""
      /\ InventoryName(Asked) = InventoryName(c)
  BY AskedIs DEF Read
<1>2. c.kind \in ExactVersionKinds \cup {"flatpak", "vscode", "cask"}
  BY DEF Read, Candidate, Kinds
<1>3. Observation = BaseObserve(Asked, A)
  BY DEF Observation
<1>4. Plausible(c, e) /\ e \in Queried(seen[1], 1)
  <2>1. Plausible(c, e)
    BY DEF Read, Sound
  <2> QED
    BY <2>1, ServesQueried DEF OwnObserve
<1> DEFINE report == InstalledVersion(Asked, A)
           there(ver) == Observed("present",
                           Stated([package |-> Asked.pkg, version |-> ver,
                                   scope |-> ScopeOf(Asked)]))
<1>5. \A ver : there(ver).presence = "present"
  BY NotPresent
<1>6. CASE Asked.ver # "" /\ c.kind \in ExactVersionKinds
  <2>1. report.said # "absent"
    <3>1. CASE doubt = "none"
      BY <1>4, <1>6, <3>1, ListedIsFound
    <3>2. CASE doubt # "none"
      <4>1. doubt = "cut" => c.kind \notin {"uv", "gem"}
        BY <3>2 DEF Believable
      <4> QED
        BY <1>4, <1>6, <3>2, <4>1, FaultProvesNothing
    <3> QED
      BY <3>1, <3>2
  <2>2. report.said \in {"version", "unsure", "failed"}
    BY <1>6, <2>1, VersionSaid DEF Read
  <2>3. Observation = CASE report.said = "version" -> there(report.ver)
                        [] report.said = "absent"  -> NotThere(Asked)
                        [] report.said = "unsure"  -> Unclear
                        [] report.said = "failed"  -> ProbeFailed
    BY <1>1, <1>3, <1>6 DEF BaseObserve
  <2> HIDE DEF report, there
  <2> QED
    BY <1>5, <2>2, <2>3, NotPresent
<1>7. CASE ~(Asked.ver # "" /\ c.kind \in ExactVersionKinds)
  <2>1. doubt = "none"
    <3>1. ~Thorough
      BY <1>1, <1>2, <1>7 DEF Thorough, ExactVersionKinds
    <3> QED
      BY <3>1 DEF Believable
  <2>2. A = Honest(seen[1], 1)
    BY <2>1, AnswerIs DEF Read
  <2>3. /\ A.found /\ Exited0(A) /\ e \in A.rows
    BY <1>4, <2>2, HonestLists DEF Exited0
  <2>4. c.kind # "pipx" => e.name = InventoryName(c)
    BY <1>2, <1>4
    DEF Plausible, Serves, Renaming, InventoryName, RegistryKinds,
        ExactVersionKinds
  <2>5. c.kind # "pipx" => e \in Rows(Asked, A)
    BY <1>1, <2>3, <2>4 DEF Rows
  <2>6. Check(Asked, A)
    <3>1. CASE c.kind \in ExactVersionKinds
      <4>1. /\ report.said \in {"version", "unsure"}
            /\ c.kind \in {"uv", "bun"} => report.said = "version"
        BY <1>4, <2>1, <3>1, ListedIsFound
      <4>2. Asked.ver = "" /\ Wanted(Asked, report)
        BY <1>7, <3>1 DEF Wanted
      <4> HIDE DEF report
      <4>3. report = InstalledVersion(Asked, A)
        BY DEF report
      <4> QED
        BY <1>1, <2>3, <2>5, <3>1, <4>1, <4>2, <4>3
        DEF Check, ExactVersionKinds
    <3>2. CASE c.kind = "flatpak"
      <4>1. SameSource(Asked, A)
        BY <1>1, <2>5, <3>2 DEF SameSource, Serves
      <4> QED
        BY <1>1, <2>3, <3>2, <4>1 DEF Check
    <3>3. CASE c.kind \in {"vscode", "cask"}
      BY <1>1, <2>3, <2>5, <3>3 DEF Check
    <3> QED
      BY <1>2, <3>1, <3>2, <3>3
  <2>7. Observation = there(Asked.ver)
    BY <1>1, <1>3, <1>7, <2>6 DEF BaseObserve
  <2> HIDE DEF there
  <2> QED
    BY <1>5, <2>7
<1> QED
  BY <1>6, <1>7

\* So do the adapters of the native managers.
LEMMA NativeAbsent ==
  ASSUME Read, Believable, c.kind \in NativeKinds,
         NEW e \in seen[1], Serves(e)
  PROVE  Observation.presence # "absent" \/ Observation.err
<1>1. Asked.kind = c.kind /\ Asked.pkg = c.pkg /\ Asked.src = c.src
  BY AskedIs DEF Read
<1>2. Observation = NativeObserve(Asked, A, B)
  BY DEF Observation, OwnObserve, NativeKinds, ClanOfManager
<1>3. Plausible(c, e) /\ e \in Queried(seen[1], 1)
  <2>1. Plausible(c, e)
    BY DEF Read, Sound
  <2>2. c.kind # "asdf"
    BY DEF NativeKinds, ClanOfManager
  <2> QED
    BY <2>1, <2>2, ServesQueried
<1>4. e.form = "whole" /\ e.pkg = c.pkg
  BY DEF Serves
<1>5. doubt = "none" => A.exit = 0 /\ A.ran /\ A.whole /\ A.said = "rows"
                          /\ e \in A.rows
  BY <1>3, AnswerIs, HonestLists DEF Read
<1>6. Family(c.kind) \in {"dpkg", "rpm", "port", "winget", "status"}
  BY DEF Family
<1>7. /\ ThisPackage(Asked).presence = "present"
      /\ Unclear.presence = "unknown" /\ ProbeFailed.err
  BY NotPresent DEF ThisPackage
<1>8. /\ doubt \in Faults \cup {"none"}
      /\ doubt \in {"gone", "fails"} => ~A.ran /\ ~B.ran
      /\ doubt = "cut" => ~A.whole /\ ~B.whole
      /\ doubt = "refuses" => A.exit = 1 /\ B.exit = 1
      /\ doubt = "garbled" => A.said = "other" /\ B.said = "other"
  BY AnswerIs DEF Read
<1>9. CASE HasDatabase(c.kind)
  <2>1. Observation = DatabaseObserve(Asked, A, B)
    BY <1>1, <1>2, <1>9 DEF NativeObserve, HasDatabase
  <2> SUFFICES ASSUME Complete(A), Complete(B)
               PROVE  DatabaseReading(Asked, A, B) # "absent"
    BY <1>7, <2>1 DEF DatabaseObserve
  <2>2. CASE doubt = "none"
    <3>1. DpkgReading(Asked, A, B) # "absent"
      <4>1. OneRecord(Asked, A) => A.rows = {e}
        BY <1>5, <2>2 DEF OneRecord
      <4> QED
        BY <1>4, <1>5, <2>2, <4>1 DEF DpkgReading
    <3>2. RpmReading(Asked, A, B) # "absent"
      BY <1>5, <2>2 DEF RpmReading
    <3> QED
      BY <3>1, <3>2 DEF DatabaseReading
  <2>3. CASE doubt # "none"
    <3>1. doubt \in {"refuses", "garbled"}
      BY <1>8, <2>3 DEF Complete, Faults
    <3>2. ~SentinelFound(B)
      BY <1>8, <3>1 DEF SentinelFound
    <3> QED
      <4>1. DpkgReading(Asked, A, B) = "unknown"
        BY <3>2 DEF DpkgReading
      <4>2. RpmReading(Asked, A, B) = "unknown"
        BY <3>2 DEF RpmReading
      <4> QED
        BY <4>1, <4>2 DEF DatabaseReading
  <2> QED
    BY <2>2, <2>3
<1>10. CASE Family(c.kind) = "port"
  <2>1. Observation = PortObserve(Asked, A)
    BY <1>1, <1>2, <1>10 DEF NativeObserve, HasDatabase
  <2>2. doubt = "none" => PortInstalled(A)
    BY <1>4, <1>5 DEF PortInstalled
  <2>3. doubt # "none" =>
          ~A.ran \/ ~A.whole \/ A.exit # 0 \/ A.said = "other"
    BY <1>8 DEF Faults
  <2> QED
    BY <1>7, <2>1, <2>2, <2>3 DEF PortObserve
<1>11. CASE Family(c.kind) \in {"status", "winget"}
  <2>1. doubt = "none"
    <3>1. ~HasDatabase(c.kind) /\ c.kind # "port"
      BY <1>11 DEF HasDatabase, Family, ClanOfManager, IsDpkgClan, IsRpmClan
    <3>2. ~Thorough
      BY <3>1
      DEF Thorough, NativeKinds, ClanOfManager, ExactVersionKinds
    <3> QED
      BY <3>2 DEF Believable
  <2>2. CASE Family(c.kind) = "status"
    <3>1. Observation = StatusObserve(Asked, A)
      BY <1>1, <1>2, <2>2 DEF NativeObserve, HasDatabase
    <3> QED
      BY <1>5, <1>7, <2>1, <3>1 DEF StatusObserve
  <2>3. CASE Family(c.kind) = "winget"
    <3>1. Observation = WingetObserve(Asked, A)
      BY <1>1, <1>2, <2>3 DEF NativeObserve, HasDatabase
    <3>2. c.kind = "winget"
      BY <2>3 DEF Family, NativeKinds, ClanOfManager, IsDpkgClan, IsRpmClan
    <3>3. e \in {r \in A.rows : r.pkg = Asked.pkg /\ Asked.src \in {"", r.src}}
      BY <1>1, <1>4, <1>5, <2>1, <3>2 DEF Serves
    <3> QED
      BY <1>5, <2>1, <3>1, <3>3, NotPresent DEF WingetObserve
  <2> QED
    BY <1>11, <2>2, <2>3
<1> QED
  BY <1>6, <1>9, <1>10, <1>11 DEF HasDatabase

\* So do the adapters of the tool chains.
LEMMA ToolchainAbsent ==
  ASSUME Read, Believable, ~Misnamed(c), c.kind \in OwnObserve,
         NEW e \in seen[1], e \in seen[Questions], Serves(e)
  PROVE  Observation.presence # "absent" \/ Observation.err
<1>1. /\ Asked.kind = c.kind /\ Asked.pkg = c.pkg /\ Asked.alias = c.alias
      /\ Asked.src = c.src /\ Asked.slot = c.slot
      /\ c.kind \notin LockedKinds => Asked.ver = c.ver
      /\ InventoryName(Asked) = InventoryName(c)
  BY AskedIs DEF Read
<1>2. c.kind \notin LockedKinds \cup NativeKinds \cup ExactVersionKinds
  BY DEF OwnObserve, LockedKinds, NativeKinds, ClanOfManager, ExactVersionKinds
<1>3. Observation = ToolchainObserve(Asked, A, B)
  BY DEF Observation, OwnObserve, NativeKinds, ClanOfManager
<1>4. Plausible(c, e) /\ e.pkg = c.pkg /\ e.form = "whole"
  BY DEF Read, Sound, Serves
<1>5. c.kind # "asdf" =>
        e \in Queried(seen[1], 1) /\ e \in Queried(seen[Questions], Questions)
  BY <1>4, ServesQueried
<1>6. ASSUME doubt = "none", e \in Queried(seen[1], 1)
      PROVE  /\ A.found /\ A.ran /\ A.whole /\ A.exit = 0 /\ A.said = "rows"
             /\ Exited0(A) /\ e \in A.rows
  BY <1>2, <1>6, AnswerIs, HonestLists DEF Read, Exited0
<1>7. ASSUME doubt = "none", e \in Queried(seen[Questions], Questions)
      PROVE  /\ B.found /\ B.ran /\ B.exit = 0 /\ B.said = "rows"
             /\ Exited0(B) /\ e \in B.rows
  BY <1>2, <1>7, AnswerIs, HonestLists DEF Read, Exited0
<1>8. /\ doubt \in Faults \cup {"none"}
      /\ doubt \in {"gone", "fails"} => ~A.ran /\ ~B.ran
      /\ doubt = "cut" => ~A.whole /\ ~B.whole
      /\ doubt = "refuses" => A.exit = 1 /\ B.exit = 1
      /\ doubt \in {"gone", "fails", "refuses", "garbled"} => A.said = "other"
      /\ doubt = "cut" /\ c.kind \in Structured => A.said = "other"
  BY AnswerIs DEF Read
<1>9. \A known : Present(known).presence = "present"
  BY NotPresent DEF Present
<1>10. CASE c.kind \in {"cargo", "asdf", "aur", "pacstall", "yarn-berry"}
  <2>1. doubt = "none"
    <3>1. ~Thorough
      BY <1>2, <1>10 DEF Thorough
    <3> QED
      BY <3>1 DEF Believable
  <2>2. CASE c.kind = "cargo"
    <3>1. e \in {r \in A.rows : /\ r.pkg = Asked.pkg /\ r.src = ""
                                /\ r.form = "whole"}
      BY <1>1, <1>4, <1>5, <1>6, <2>1, <2>2 DEF Serves
    <3> QED
      BY <1>1, <1>3, <1>5, <1>6, <1>9, <2>1, <2>2, <3>1
      DEF ToolchainObserve, CargoObserve
  <2>3. CASE c.kind = "aur"
    <3>1. Observation = AurObserve(Asked, A)
      BY <1>1, <1>3, <2>3 DEF ToolchainObserve
    <3> QED
      BY <1>5, <1>6, <1>9, <2>1, <2>3, <3>1 DEF AurObserve
  <2>4. CASE c.kind \in {"pacstall", "yarn-berry"}
    <3>1. Observation = QuietObserve(Asked, A)
      BY <1>1, <1>3, <2>4 DEF ToolchainObserve
    <3> QED
      BY <1>5, <1>6, <1>9, <2>1, <2>4, <3>1 DEF QuietObserve
  <2>5. CASE c.kind = "asdf"
    <3>1. Observation = AsdfObserve(Asked, A, B)
      BY <1>1, <1>3, <2>5 DEF ToolchainObserve
    <3>2. e.src = c.src /\ e.slot \in {"asdf", "mise"}
      BY <1>4, <2>5 DEF Plausible, Serves
    <3>3. Questions = 2
      BY <2>5 DEF Questions
    <3>4. /\ "asdf" \in {"asdf", "mise"} /\ "mise" \in {"asdf", "mise"}
          /\ "asdf" # "mise" /\ "asdf" # "" /\ "mise" # ""
      OBVIOUS
    <3>5. Holding(Asked, A, B) \in {"asdf", "mise"}
      <4>1. CASE e.slot = "asdf"
        <5>1. e \in Queried(seen[1], 1)
          BY <2>5, <4>1 DEF Queried, AskedByName, NativeKinds, ClanOfManager
        <5>2. A.found /\ Exited0(A) /\ e \in A.rows /\ c.src = ""
          BY <1>4, <1>6, <2>1, <2>5, <3>2, <4>1, <5>1 DEF Plausible
        <5>3. /\ "asdf" \in Backends(Asked, A, B)
              /\ AsdfAnswered("asdf", A, B)
              /\ AsdfVersions(Asked, "asdf", A, B) # {}
          BY <1>1, <1>4, <3>2, <5>2
          DEF Backends, AsdfAnswered, AsdfAnswer, AsdfVersions
        <5> QED
          BY <5>3 DEF Holding
      <4>2. CASE e.slot = "mise"
        <5>1. e \in Queried(seen[Questions], Questions)
          BY <2>5, <3>3, <4>2
          DEF Queried, AskedByName, NativeKinds, ClanOfManager
        <5>2. B.found /\ Exited0(B) /\ B.said = "rows" /\ e \in B.rows
          BY <1>7, <2>1, <5>1
        <5>3. /\ "mise" \in Backends(Asked, A, B)
              /\ AsdfAnswered("mise", A, B)
              /\ AsdfVersions(Asked, "mise", A, B) # {}
          BY <1>1, <1>4, <3>2, <5>2
          DEF Backends, AsdfAnswered, AsdfAnswer, AsdfVersions
        <5> QED
          BY <5>3 DEF Holding
      <4> QED
        BY <3>2, <4>1, <4>2
    <3> QED
      BY <1>9, <3>1, <3>4, <3>5 DEF AsdfObserve
  <2> QED
    BY <1>10, <2>2, <2>3, <2>4, <2>5
<1>11. CASE c.kind = "go"
  <2>1. Questions = 2
    BY <1>11 DEF Questions
  <2>2. A.rows = Queried(seen[1], 1)
    BY <1>2, <1>5, <1>11, AnswerIs, HonestLists DEF Read
  <2>3. GoPresent(Asked, A)
    <3>1. e.slot = "gobin" /\ e.name = GoInstallName(c.path)
      BY <1>4, <1>11 DEF Plausible, Serves
    <3>2. InventoryName(c) = GoInstallName(c.path)
      BY <1>11 DEF Misnamed, InventoryName, RegistryKinds
    <3> QED
      BY <1>1, <1>5, <1>11, <2>2, <3>1, <3>2 DEF GoPresent
  <2>4. Observation = GoObserve(Asked, A, B)
    BY <1>1, <1>3, <1>11 DEF ToolchainObserve
  <2> QED
    BY <1>9, <2>3, <2>4, NotPresent DEF GoObserve
<1>12. CASE c.kind = "nix"
  <2> DEFINE active == {r \in NixMatches(Asked, A) : r.form = "whole"}
             target == Stated([package |-> Asked.pkg, source |-> Asked.src])
  <2>1. Observation = NixObserve(Asked, A)
    BY <1>1, <1>3, <1>12 DEF ToolchainObserve
  <2>2. doubt # "none" =>
          ~A.found \/ ~Exited0(A) \/ ~A.whole \/ A.said # "rows"
    BY <1>8 DEF Faults, Exited0
  <2>3. doubt = "none" => active # {}
    <3>1. doubt = "none" => e \in A.rows
      BY <1>5, <1>6, <1>12
    <3>2. doubt = "none" => e \in NixMatches(Asked, A)
      BY <1>1, <1>4, <1>12, <3>1 DEF NixMatches, Serves
    <3> QED
      BY <1>4, <3>2
  <2>4. CASE ~A.found \/ ~Exited0(A) \/ ~A.whole \/ A.said # "rows"
    BY <2>1, <2>4, NotPresent DEF NixObserve
  <2>5. CASE ~(~A.found \/ ~Exited0(A) \/ ~A.whole \/ A.said # "rows")
    <3>1. active # {}
      BY <2>2, <2>3, <2>5
    <3>2. Observation \in {Observed("present", target),
                           [Observed("broken", target) EXCEPT !.detail = TRUE]}
      <4>1. Observation =
              CASE active = {}             -> Observed("absent", target)
                [] Cardinality(active) = 1 -> Observed("present", target)
                [] OTHER -> [Observed("broken", target) EXCEPT !.detail = TRUE]
        BY <2>1, <2>5 DEF NixObserve
      <4> HIDE DEF active, target
      <4> QED
        BY <3>1, <4>1
    <3> HIDE DEF target
    <3> QED
      BY <3>2, NotPresent
  <2> QED
    BY <2>4, <2>5
<1>13. CASE c.kind = "conda"
  <2>1. Observation = CondaObserve(Asked, A)
    BY <1>1, <1>3, <1>13 DEF ToolchainObserve
  <2>2. doubt # "none" => A.said = "other"
    BY <1>8, <1>13 DEF Faults, Structured
  <2>3. doubt = "none" => e \in {r \in A.rows : r.pkg = Asked.pkg}
    BY <1>1, <1>4, <1>5, <1>6, <1>13
  <2> QED
    BY <1>9, <2>1, <2>2, <2>3, NotPresent DEF CondaObserve
<1>14. CASE c.kind = "sdkman"
  <2> DEFINE versions == {r \in A.rows : r.pkg = Asked.pkg}
             current  == {r \in versions : r.slot = "current"}
             asked    == {r \in versions : r.ver = Asked.ver}
  <2>1. Observation = SdkmanObserve(Asked, A)
    BY <1>1, <1>3, <1>14 DEF ToolchainObserve
  <2>2. doubt = "none"
    BY <1>14 DEF Read, Possible
  <2>3. e \in versions /\ e.ver # ""
    BY <1>1, <1>4, <1>5, <1>6, <1>14, <2>2 DEF Plausible
  <2>4. e \in current \/ (Asked.ver # "" /\ e \in asked)
    BY <1>1, <1>2, <1>14, <2>3 DEF Serves
  <2> QED
    BY <1>9, <2>1, <2>4 DEF SdkmanObserve
<1>15. CASE c.kind = "steamcmd"
  BY <1>1, <1>3, <1>15, NotPresent DEF ToolchainObserve
<1>16. e.name = InventoryName(c) \/ c.kind \notin {"scoop", "choco"}
  BY <1>4 DEF Plausible, Renaming, InventoryName, RegistryKinds
<1>17. \A a, known : e \in a.rows /\ c.kind \in {"scoop", "choco"} =>
         ListedOnWindows(Asked, a, known).presence # "absent"
  <2> SUFFICES ASSUME NEW a, NEW known, e \in a.rows,
                      c.kind \in {"scoop", "choco"}
               PROVE  ListedOnWindows(Asked, a, known).presence # "absent"
    OBVIOUS
  <2>1. Rows(Asked, a) # {}
    BY <1>1, <1>16 DEF Rows
  <2> QED
    BY <1>9, <2>1, NotPresent DEF ListedOnWindows
<1>18. CASE c.kind = "scoop"
  <2>1. Observation = ScoopObserve(Asked, A)
    BY <1>1, <1>3, <1>18 DEF ToolchainObserve
  <2>2. doubt # "none" => ~Exited0(A) \/ ~A.whole
    BY <1>8, <1>18 DEF Faults, Exited0, Believable
  <2>3. doubt = "none" => e \in A.rows
    BY <1>5, <1>6, <1>18
  <2> QED
    BY <1>17, <1>18, <2>1, <2>2, <2>3, NotPresent DEF ScoopObserve
<1>19. CASE c.kind = "choco"
  <2> DEFINE listed == Exited0(A) /\ \E r \in Rows(Asked, A) : r.ver # ""
             answer == IF listed THEN A ELSE B
             known  == [row \in Rows(Asked, answer) |->
                          [package |-> Asked.pkg, version |-> row.ver]]
  <2>1. Observation = ChocoObserve(Asked, A, B)
    BY <1>1, <1>3, <1>19 DEF ToolchainObserve
  <2>2. Observation = IF ~Exited0(answer) THEN Unclear
                      ELSE ListedOnWindows(Asked, answer, known)
    BY <2>1 DEF ChocoObserve
  <2>3. doubt # "none" => ~Exited0(A) /\ ~Exited0(B)
    BY <1>8, <1>19 DEF Faults, Exited0, Believable
  <2>4. doubt = "none" => e \in A.rows /\ e \in B.rows
    BY <1>5, <1>6, <1>7, <1>19
  <2>5. doubt = "none" => e \in answer.rows
    BY <2>4
  <2>6. doubt # "none" => ~Exited0(answer)
    BY <2>3
  <2> HIDE DEF answer, known
  <2> QED
    BY <1>17, <1>19, <2>2, <2>5, <2>6, NotPresent
<1> QED
  BY <1>10, <1>11, <1>12, <1>13, <1>14, <1>15, <1>18, <1>19 DEF OwnObserve

\* A target is found absent only if no entry served it all the while.
LEMMA AbsentProves ==
  ASSUME Read, Believable, ~Misnamed(c), Verdict.state = "absent",
         NEW e \in seen[1], Serves(e)
  PROVE  e \notin seen[Questions]
<1> DEFINE answer == ObserveResolvedCandidate(Observation)
<1>1. answer.presence = "absent"
  BY AbsentWasSaid DEF Verdict, VerifyResolvedCandidate
<1>2. ~Observation.err /\ Observation.presence = "absent"
  BY <1>1 DEF ObserveResolvedCandidate
<1>3. CASE c.kind \in OwnObserve
  BY <1>2, <1>3, ToolchainAbsent
<1>4. CASE c.kind \in NativeKinds
  BY <1>2, <1>4, NativeAbsent
<1>5. CASE c.kind \notin OwnObserve \cup NativeKinds
  BY <1>2, <1>5, BaseAbsent
<1> QED
  BY <1>3, <1>4, <1>5

LEMMA NextAbsent == ReadingInv /\ AbsenceProven /\ [Next]_vars => AbsenceProven'
<1> SUFFICES ASSUME ReadingInv, AbsenceProven, [Next]_vars
             PROVE  AbsenceProven'
  OBVIOUS
<1>1. c' = c
  BY DEF Next, vars, StartInstall, StartRemoval, Start, Ask,
     GateAlreadyInstalled, InstallResolved, ConfirmNativeInstall,
     VerifyInstalled, DecideRemoval, RemoveResolved, Outsider
<1>2. \A e : Serves(e)' <=> Serves(e)
  BY <1>1, ServesStays
<1>3. doubt' = doubt => (Believable' <=> Believable)
  BY <1>1 DEF Believable, Thorough
<1>4. CASE verdict'.state # "absent"
  BY <1>4 DEF AbsenceProven
<1>5. CASE UNCHANGED <<verdict, seen, doubt>>
  BY <1>1, <1>2, <1>3, <1>5 DEF AbsenceProven, Misnamed
<1>6. NoVerdict.state = "none"
  BY DEF NoVerdict
<1>7. CASE GateAlreadyInstalled \/ VerifyInstalled \/ DecideRemoval
  <2> SUFFICES ASSUME verdict'.state = "absent", Believable', ~Misnamed(c)',
                      NEW e \in seen'[1], Serves(e)'
               PROVE  \E i \in DOMAIN seen' : e \notin seen'[i]
    BY DEF AbsenceProven
  <2>1. /\ stage \in Asking /\ Answered /\ verdict' = Verdict
        /\ seen' = seen /\ doubt' = doubt
    BY <1>7 DEF GateAlreadyInstalled, VerifyInstalled, DecideRemoval, Asking
  <2>2. Read /\ {1, Questions} \subseteq DOMAIN seen
    BY <2>1, AnsweredRead
  <2>3. /\ Believable /\ Serves(e) /\ e \in seen[1] /\ Verdict.state = "absent"
        /\ ~Misnamed(c)
    BY <1>1, <1>2, <1>3, <2>1 DEF Misnamed
  <2>4. e \notin seen[Questions]
    BY <2>2, <2>3, AbsentProves
  <2> QED
    BY <2>1, <2>2, <2>4
<1>8. CASE StartInstall \/ StartRemoval \/ InstallResolved
  <2>1. verdict' = NoVerdict
    BY <1>8 DEF StartInstall, StartRemoval, Start, InstallResolved
  <2> QED
    BY <1>4, <1>6, <2>1
<1>9. CASE \E fault \in Faults \cup {"none"} : Ask(fault)
  <2>1. stage \in Asking /\ verdict' = verdict
    BY <1>9 DEF Ask
  <2>2. verdict = NoVerdict
    BY <2>1 DEF ReadingInv
  <2> QED
    BY <1>4, <1>6, <2>1, <2>2
<1>10. CASE ConfirmNativeInstall \/ RemoveResolved \/ Outsider \/ UNCHANGED vars
  BY <1>5, <1>10 DEF ConfirmNativeInstall, RemoveResolved, Outsider, vars
<1> QED
  BY <1>7, <1>8, <1>9, <1>10 DEF Next

THEOREM AlwaysAbsenceProven == Spec => []AbsenceProven
<1>1. Init => AbsenceProven
  <2>1. NoVerdict.state # "absent"
    BY DEF NoVerdict
  <2> QED
    BY <2>1 DEF Init, AbsenceProven
<1>2. ReadingInv /\ AbsenceProven /\ [Next]_vars => ReadingInv' /\ AbsenceProven'
  BY NextReading, NextAbsent
<1> QED
  BY <1>1, <1>2, InitReading, PTL DEF Spec

-------------------------------------------------------------------------------
(* A removal takes what the candidate asks for, and nothing else.          *)

\* What an observation that found the candidate has seen: an entry that serves
\* it and, where a removal goes by a name that another package may bear or
\* that part of one may be listed under, nothing else of that name.
Found ==
  /\ \E e \in seen[1] \cup seen[Questions] : Serves(e)
  /\ c.kind = "pipx" =>
       \A e \in Queried(seen[1], 1) : e.name = c.pkg => e.pkg = c.pkg
  /\ c.kind = "go" =>
       \A e \in seen[Questions] :
         e.name = InventoryName(c) /\ e.slot = "gobin" => e.pkg = c.pkg
  /\ c.kind = "apt" => \A e \in Queried(seen[1], 1) : e.form = "whole"

\* What a removal in progress rests on: whatever holds a place holds it alone,
\* and the observation that allowed the removal found the candidate.
RemovalInv ==
  /\ WellPlaced(host)
  /\ stage = "uninstall" =>
       /\ Removable(c.kind)
       /\ {1, Questions} \subseteq DOMAIN seen
       /\ ~Lenient => Found

\* The observation that a verdict of "drifted" rests on.
LEMMA DriftedObservation ==
  ASSUME Verdict.state = "drifted"
  PROVE  /\ Observation.presence = "present" /\ ~Observation.err
         /\ \E f \in DOMAIN Demanded \cap DOMAIN Observation.known :
              Observation.known[f] # Demanded[f]
<1> DEFINE answer == ObserveResolvedCandidate(Observation)
<1>1. Verdict = Reconcile(Demanded, answer)
  BY DEF Verdict, VerifyResolvedCandidate, Demanded
<1>2. /\ answer.presence = "present"
      /\ \E f \in DOMAIN Demanded \cap DOMAIN answer.known :
           answer.known[f] # Demanded[f]
  BY <1>1, DriftedDiffers
<1>3. ~Observation.err /\ answer.presence = Observation.presence
  BY <1>2 DEF ObserveResolvedCandidate
<1>4. answer.known = Observation.known
  BY <1>3 DEF ObserveResolvedCandidate
<1> HIDE DEF answer
<1> QED
  BY <1>2, <1>3, <1>4

\* What is known of a binary that go built once it was found: its package, and
\* its version if its build information tells one, which is then the
\* candidate's.
LEMMA GoKnows ==
  ASSUME Read, c.kind = "go", Observation.presence = "present",
         ~Observation.err
  PROVE  /\ DOMAIN Observation.known \subseteq {"package", "version"}
         /\ "package" \in DOMAIN Observation.known =>
              Observation.known["package"] = c.pkg
         /\ "version" \in DOMAIN Observation.known =>
              \A e \in B.rows :
                e.name = InventoryName(c) /\ e.slot = "gobin" => e.pkg = c.pkg
<1> DEFINE built == {x \in B.rows : /\ x.name = InventoryName(Asked)
                                    /\ x.slot = "gobin"}
           e     == CHOOSE x \in built : TRUE
           r     == [package |-> Asked.pkg, version |-> Respelled(Asked, e.ver)]
           only  == [package |-> Asked.pkg]
<1>1. /\ Asked.kind = c.kind /\ Asked.pkg = c.pkg
      /\ InventoryName(Asked) = InventoryName(c)
  BY AskedIs DEF Read
<1>2. Observation = GoObserve(Asked, A, B)
  <2>1. Observation = ToolchainObserve(Asked, A, B)
    BY DEF Observation, OwnObserve, NativeKinds, ClanOfManager
  <2> QED
    BY <1>1, <2>1 DEF ToolchainObserve
<1>3. \/ Observation = Present(only)
      \/ /\ \A x \in built : x.pkg = Asked.pkg
         /\ Observation = Present(r)
  BY <1>2, NotPresent DEF GoObserve
<1>4. /\ DOMAIN only = {"package"} /\ only["package"] = c.pkg
      /\ DOMAIN r = {"package", "version"} /\ r["package"] = c.pkg
  BY <1>1
<1>5. /\ Present(only).known = Stated(only)
      /\ Present(r).known = Stated(r)
  BY DEF Present, Observed
<1> HIDE DEF r, only
<1>6. CASE Observation = Present(only)
  <2>1. Observation.known = Stated(only)
    BY <1>5, <1>6
  <2>2. /\ DOMAIN Stated(only) \subseteq {"package"}
        /\ "package" \in DOMAIN Stated(only) =>
             Stated(only)["package"] = c.pkg
    BY <1>4, StatedIs
  <2> QED
    BY <2>1, <2>2
<1>7. CASE /\ \A x \in built : x.pkg = Asked.pkg
           /\ Observation = Present(r)
  <2>1. /\ DOMAIN Observation.known \subseteq {"package", "version"}
        /\ "package" \in DOMAIN Observation.known =>
             Observation.known["package"] = c.pkg
    <3>1. Observation.known = Stated(r)
      BY <1>5, <1>7
    <3>2. /\ DOMAIN Stated(r) \subseteq {"package", "version"}
          /\ "package" \in DOMAIN Stated(r) => Stated(r)["package"] = c.pkg
      BY <1>4, StatedIs
    <3> QED
      BY <3>1, <3>2
  <2> QED
    BY <1>1, <1>7, <2>1
<1> QED
  BY <1>3, <1>6, <1>7

\* A version that is demanded of go was read, whatever it was: a binary whose
\* version nobody knows cannot have drifted.
LEMMA GoVersionRead ==
  ASSUME Read, c.kind = "go", ~Lenient,
         Verdict.state \in {"satisfied", "drifted"}
  PROVE  "version" \in DOMAIN Observation.known
<1>1. DOMAIN Demanded = DOMAIN Plan \cap Verifies(c.kind)
  BY DEF Demanded, Project
<1>2. CASE Verdict.state = "satisfied"
  <2>1. c.ver # "" /\ Plan = Intent(c)
    BY DEF Lenient, Plan, ResolvePlan, LockedKinds
  <2>2. "version" \in DOMAIN Plan
    BY <2>1 DEF Intent, Stated
  <2> QED
    BY <1>1, <1>2, <2>2, SatisfiedObservation DEF Verifies
<1>3. CASE Verdict.state = "drifted"
  <2>1. PICK f \in DOMAIN Demanded \cap DOMAIN Observation.known :
          Observation.known[f] # Demanded[f]
    BY <1>3, DriftedObservation
  <2>2. /\ DOMAIN Observation.known \subseteq {"package", "version"}
        /\ "package" \in DOMAIN Observation.known =>
             Observation.known["package"] = c.pkg
    BY <1>3, DriftedObservation, GoKnows
  <2>3. f # "package"
    <3>1. "package" \in DOMAIN Demanded => Demanded["package"] = Plan["package"]
      BY DEF Demanded, Project
    <3>2. "package" \in DOMAIN Plan => Plan["package"] = c.pkg
      BY ValueIs DEF Value, Read
    <3> QED
      BY <1>1, <2>1, <2>2, <3>1, <3>2
  <2> QED
    BY <2>1, <2>2, <2>3
<1> QED
  BY <1>2, <1>3

\* An environment of pipx that bears the name of the package holds it, when a
\* version is read from the listing.
LEMMA PipxHolds ==
  ASSUME Read, c.kind = "pipx", ~Lenient,
         Observation.presence = "present", ~Observation.err,
         NEW e \in Queried(seen[1], 1), e.name = c.pkg
  PROVE  e.pkg = c.pkg
<1> DEFINE report == InstalledVersion(Asked, A)
<1>1. /\ Asked.kind = c.kind /\ Asked.pkg = c.pkg
      /\ Asked.ver = "" => c.ver = ""
      /\ InventoryName(Asked) = c.pkg
  BY AskedIs DEF Read, InventoryName, RegistryKinds
<1>2. Asked.ver # "" /\ Asked.kind \in ExactVersionKinds
  BY <1>1 DEF Lenient, ExactVersionKinds
<1>3. Observation = BaseObserve(Asked, A)
  BY DEF Observation, OwnObserve, NativeKinds, ClanOfManager
<1>4. report.said \in {"version", "absent", "unsure", "failed"}
  BY <1>1, <1>2, VersionSaid DEF Read
<1>5. report.said = "version"
  BY <1>2, <1>3, <1>4, NotPresent DEF BaseObserve
<1>6. report = PipxVersion(Asked, A)
  BY <1>1 DEF InstalledVersion
<1> HIDE DEF report
<1>7. A.said = "rows" /\ \A r \in Rows(Asked, A) : r.pkg = Asked.pkg
  BY <1>5, <1>6, GoneOnly DEF PipxVersion
<1>8. doubt = "none"
  BY <1>7, AnswerIs DEF Read, Faults, Structured
<1>9. A.rows = Queried(seen[1], 1)
  BY <1>8, AnswerIs, HonestLists
  DEF Read, NativeKinds, ClanOfManager
<1> QED
  BY <1>1, <1>7, <1>9 DEF Rows

\* A record of the database that is read as present is the only one of its
\* package, and all of it is there.
LEMMA AptHolds ==
  ASSUME Read, c.kind = "apt",
         Observation.presence = "present", ~Observation.err,
         NEW e \in Queried(seen[1], 1)
  PROVE  e.form = "whole"
<1>1. Asked.kind = c.kind
  BY AskedIs DEF Read
<1>2. c.kind \in NativeKinds /\ Family(c.kind) = "dpkg" /\ HasDatabase(c.kind)
  <2>1. "apt" \in DOMAIN ClanOfManager /\ ClanOfManager["apt"] = "debian"
    BY DEF ClanOfManager
  <2>2. Family("apt") = "dpkg"
    BY <2>1 DEF Family, IsDpkgClan, IsRpmClan
  <2> QED
    BY <2>1, <2>2 DEF NativeKinds, HasDatabase
<1>3. Observation = NativeObserve(Asked, A, B)
  BY <1>2 DEF Observation, OwnObserve
<1>4. Observation = DatabaseObserve(Asked, A, B)
  BY <1>1, <1>2, <1>3 DEF NativeObserve, HasDatabase
<1>5. Complete(A) /\ DatabaseReading(Asked, A, B) = "present"
  BY <1>4, NotPresent DEF DatabaseObserve
<1>6. DpkgReading(Asked, A, B) = "present"
  BY <1>1, <1>2, <1>5 DEF DatabaseReading
<1>7. /\ A.exit # 1 /\ OneRecord(Asked, A)
      /\ \E r \in A.rows : r.form = "whole"
  BY <1>6 DEF DpkgReading
<1>8. A.said = "rows" /\ A.ran /\ A.whole
  BY <1>5, <1>7 DEF OneRecord, Complete
<1>9. doubt = "none"
  BY <1>8, AnswerIs DEF Read, Faults
<1>10. e \in A.rows
  BY <1>9, AnswerIs, HonestLists DEF Read
<1> QED
  BY <1>7, <1>10 DEF OneRecord

\* A removal is decided on an observation that found the candidate.
LEMMA VerdictFinds ==
  ASSUME Read, ~Lenient, Verdict.state \in {"satisfied", "drifted"}
  PROVE  Found
<1>1. Observation.presence = "present" /\ ~Observation.err
  BY SatisfiedObservation, DriftedObservation
<1>2. c.kind = "go" => "version" \in DOMAIN Observation.known
  BY GoVersionRead
<1>3. \E e \in seen[1] \cup seen[Questions] : Serves(e)
  <2>1. PICK e \in seen[1] \cup seen[Questions] : Fits(e)
    <3>1. CASE c.kind \in OwnObserve
      BY <1>1, <1>2, <3>1, ToolchainPresent
    <3>2. CASE c.kind \in NativeKinds
      BY <1>1, <3>2, NativePresent
    <3>3. CASE c.kind \notin OwnObserve \cup NativeKinds
      BY <1>1, <3>3, BasePresent
    <3> QED
      BY <3>1, <3>2, <3>3
  <2> QED
    BY <2>1 DEF Fits
<1>4. ASSUME c.kind = "go", NEW e \in seen[Questions],
             e.name = InventoryName(c), e.slot = "gobin"
      PROVE  e.pkg = c.pkg
  <2>1. e \in Queried(seen[Questions], Questions)
    BY <1>4 DEF Queried, AskedByName, NativeKinds, ClanOfManager
  <2>2. B.rows = Honest(seen[Questions], Questions).rows
    BY <1>4, AnswerIs DEF Read
  <2>3. e \in B.rows
    BY <1>4, <2>1, <2>2, HonestLists DEF NativeKinds, ClanOfManager
  <2> QED
    BY <1>1, <1>2, <1>4, <2>3, GoKnows
<1> QED
  BY <1>1, <1>3, <1>4, PipxHolds, AptHolds DEF Found

\* What an installation leaves holds its places alone: the package takes its
\* own, whoever held it, and sdkman's current version is none.
LEMMA InstalledPlaced ==
  ASSUME WellPlaced(host), host \subseteq Entry, NEW cmd
  PROVE  WellPlaced(Installed(cmd))
<1> DEFINE entry  == [name |-> IF c.kind = "go" THEN GoInstallName(c.path)
                               ELSE cmd.name,
                      pkg |-> cmd.pkg,
                      ver |-> IF cmd.ver = "" THEN "v2" ELSE cmd.ver,
                      slot |-> cmd.slot, src |-> cmd.src,
                      build |-> IF cmd.build = "" THEN "b1" ELSE cmd.build,
                      form |-> "whole"]
           others == {x \in host : Place(x) # Place(entry)}
           kept(x) == IF c.kind = "sdkman" THEN [x EXCEPT !.slot = ""] ELSE x
<1>1. Installed(cmd) = {entry} \cup {kept(x) : x \in others}
  BY Zenon DEF Installed
<1>2. ASSUME NEW x \in host
      PROVE  Place(kept(x)) = Place(x)
  <2>1. "sdkman" \notin Slotted
    BY DEF Slotted, NativeKinds, ClanOfManager
  <2>2. x \in Entry /\ kept(x).name = x.name /\ kept(x).ver = x.ver
    BY <1>2 DEF Entry
  <2>3. c.kind # "sdkman" => kept(x) = x
    OBVIOUS
  <2> HIDE DEF kept
  <2> QED
    BY <2>1, <2>2, <2>3 DEF Place
<1> HIDE DEF entry, kept
<1>3. ASSUME NEW e \in Installed(cmd), NEW f \in Installed(cmd),
             Place(e) = Place(f)
      PROVE  e = f
  <2>1. CASE e = entry /\ f = entry
    BY <2>1
  <2>2. ASSUME NEW x \in others, NEW g,
               Place(kept(x)) = Place(g), g = entry
        PROVE  FALSE
    BY <1>2, <2>2
  <2>3. ASSUME NEW x \in others, NEW y \in others,
               e = kept(x), f = kept(y)
        PROVE  e = f
    <3>1. Place(x) = Place(y)
      BY <1>2, <1>3, <2>3
    <3> QED
      BY <2>3, <3>1 DEF WellPlaced
  <2> QED
    BY <1>1, <1>3, <2>1, <2>2, <2>3
<1> QED
  BY <1>3 DEF WellPlaced

\* The command that removes: the package's name in the listing, a version
\* where versions lie side by side, and the slot that was looked at.
LEMMA CommandIs ==
  ASSUME c \in Candidate
  PROVE  /\ RemovalCommand.name = InventoryName(c)
         /\ c.kind \in {"gem", "asdf"} => RemovalCommand.ver = c.ver
         /\ c.kind = "go" => RemovalCommand.slot = "gobin"
         /\ c.kind \notin {"go", "asdf"} => RemovalCommand.slot = Confined(c)
<1>1. /\ Asked.kind = c.kind /\ Asked.slot = c.slot
      /\ InventoryName(Asked) = InventoryName(c)
      /\ c.kind \notin LockedKinds => Asked.ver = c.ver
  BY AskedIs
<1>2. Confined(Asked) = Confined(c)
  BY <1>1 DEF Confined
<1>3. /\ RemoveCommand(Asked).name = InventoryName(c)
      /\ c.kind \in {"gem", "asdf"} => RemoveCommand(Asked).ver = c.ver
      /\ RemoveCommand(Asked).slot = Confined(c)
  BY <1>1, <1>2 DEF RemoveCommand, RemovedVersion, LockedKinds
<1>4. CASE c.kind \notin OwnObserve
  BY <1>3, <1>4 DEF RemovalCommand, OwnObserve
<1>5. CASE c.kind \in OwnObserve
  <2> DEFINE from == RemovedFrom(c, Honest(host, 1), Honest(host, Questions))
  <2>1. RemovalCommand = [RemoveCommand(Asked) EXCEPT !.slot = from]
    BY <1>5 DEF RemovalCommand
  <2>2. /\ c.kind = "go" => from = "gobin"
        /\ c.kind \notin {"go", "asdf"} => from = Confined(c)
    BY DEF RemovedFrom
  <2> HIDE DEF from
  <2> QED
    BY <1>3, <2>1, <2>2 DEF RemoveCommand
<1> QED
  BY <1>4, <1>5

\* Where a package has one place, whatever bears its name is the entry found.
LEMMA OnePlace ==
  ASSUME WellPlaced(host), NEW e \in host, NEW f \in host,
         e.name = f.name,
         c.kind \in Slotted => e.slot = f.slot,
         c.kind \notin SideBySide \cup {"nix"}
  PROVE  e = f
<1>1. Place(e) = Place(f)
  BY DEF Place, SideBySide
<1> QED
  BY <1>1 DEF WellPlaced

\* What a removal takes serves the candidate, if the host still is what the
\* removal was decided on.
LEMMA TakenServes ==
  ASSUME c \in Candidate, \A x \in host : Sound(x),
         WellPlaced(host), Found, seen[1] = host, seen[Questions] = host,
         Removable(c.kind), ~Lenient, ~OfAnyRemote,
         c.kind = "nix" =>
           ~ToolchainRefuses(c, Honest(host, 1), Honest(host, Questions)),
         NEW e \in Removed(RemovalCommand)
  PROVE  /\ Serves(e)
         /\ c.kind \in SideBySide => c.ver \in {"", e.ver}
<1>1. /\ e \in host /\ e \in Entry /\ Plausible(c, e)
      /\ IF c.kind = "nix" THEN e.pkg = c.pkg ELSE e.name = InventoryName(c)
      /\ c.kind \in {"gem", "asdf"} => c.ver \in {"", e.ver}
      /\ c.kind \in {"nix", "asdf"} => e.src = c.src
      /\ c.kind = "go" => e.slot = "gobin"
      /\ c.kind \notin {"go", "asdf"} =>
           e.slot = Confined(c) \/ (Confined(c) = "" /\ c.kind # "cargo")
  BY CommandIs DEF Removed, Sound
<1>2. c.kind \in SideBySide => c.ver \in {"", e.ver}
  BY <1>1 DEF SideBySide, Removable
<1>3. PICK f \in host : Serves(f)
  BY DEF Found
<1>4. f \in Entry /\ Plausible(c, f) /\ f.pkg = c.pkg /\ f.form = "whole"
  BY <1>3 DEF Sound, Serves
<1>5. c.kind \in Kinds
  BY DEF Candidate
<1>6. e.pkg = c.pkg
  <2>1. CASE c.kind = "pipx"
    <3>1. e.slot = Confined(c)
      BY <1>1, <2>1 DEF Confined
    <3>2. e \in Queried(host, 1)
      BY <1>1, <2>1, <3>1 DEF Queried, AskedByName, NativeKinds, ClanOfManager
    <3> QED
      BY <1>1, <2>1, <3>2 DEF Found, InventoryName, RegistryKinds
  <2>2. CASE c.kind = "go"
    BY <1>1, <2>2 DEF Found
  <2>3. CASE c.kind = "nix"
    BY <1>1, <2>3
  <2>4. CASE c.kind \in RegistryKinds
    BY <1>1, <2>4 DEF Plausible, InventoryName, RegistryKinds
  <2>5. CASE c.kind \notin Renaming
    BY <1>1, <2>5 DEF Plausible, InventoryName, Renaming
  <2> QED
    BY <2>1, <2>2, <2>3, <2>4, <2>5 DEF Renaming
<1>7. ASSUME c.kind \in (KnowsPartial \ {"apt", "nix"}) \cup {"winget"}
      PROVE  e = f
  <2>1. e.name = f.name
    BY <1>1, <1>4, <1>6, <1>7
    DEF Plausible, KnowsPartial, Renaming, RegistryKinds
  <2>2. c.kind \in Slotted => c.kind = "cargo"
    <3>1. c.kind \in NativeKinds /\ HasDatabase(c.kind) =>
            c.kind \in {"apt", "dnf", "dnf5", "yum", "zypper"}
      BY DatabaseKinds
    <3> QED
      BY <1>7, <3>1 DEF Slotted, KnowsPartial
  <2>3. c.kind = "cargo" => e.slot = f.slot
    BY <1>1, <1>3 DEF Serves
  <2>4. c.kind \notin SideBySide \cup {"nix"}
    BY <1>7 DEF SideBySide, KnowsPartial
  <2> QED
    BY <1>1, <2>1, <2>2, <2>3, <2>4, OnePlace
<1>8. c.kind = "nix" => e = f
  <2> SUFFICES ASSUME c.kind = "nix" PROVE e = f
    OBVIOUS
  <2>1. Honest(host, 1).rows = host
    <3>1. Queried(host, 1) = host /\ ~AskedByName
      BY DEF Queried, AskedByName, NativeKinds, ClanOfManager
    <3> QED
      BY <3>1, HonestAnswer, ListingIs DEF NativeKinds, ClanOfManager
  <2>2. f.src = c.src /\ e.src = c.src
    BY <1>1, <1>3 DEF Serves
  <2>3. {e, f} \subseteq NixMatches(c, Honest(host, 1))
    BY <1>1, <1>4, <1>6, <2>1, <2>2 DEF NixMatches
  <2> QED
    BY <2>3 DEF ToolchainRefuses
<1>9. ASSUME c.kind = "flatpak"
      PROVE  c.slot \in {"", e.slot} /\ c.src \in {"", e.src}
  <2>1. Confined(c) = c.slot
    BY <1>9 DEF Confined
  <2>2. c.slot \in {"", e.slot}
    BY <1>1, <1>9, <2>1
  <2>3. CASE c.src = ""
    BY <2>2, <2>3
  <2>4. CASE c.src # ""
    <3>1. c.slot # ""
      BY <1>9, <2>4 DEF OfAnyRemote
    <3>2. e.slot = f.slot
      BY <1>3, <1>9, <2>2, <3>1 DEF Serves
    <3>3. e.name = f.name
      BY <1>1, <1>4, <1>6, <1>9 DEF Plausible, Renaming, RegistryKinds
    <3>4. e = f
      BY <1>1, <1>9, <3>2, <3>3, OnePlace DEF SideBySide
    <3> QED
      BY <1>3, <1>9, <2>2, <3>4 DEF Serves
  <2> QED
    BY <2>3, <2>4
<1>10. e.form = "whole"
  <2>1. CASE c.kind \notin KnowsPartial
    BY <1>1, <2>1 DEF Plausible
  <2>2. CASE c.kind = "apt"
    <3>1. AskedByName
      BY <2>2 DEF AskedByName, NativeKinds, ClanOfManager
    <3>2. e \in Queried(host, 1)
      BY <1>1, <2>2, <3>1 DEF Queried
    <3> QED
      BY <2>2, <3>2 DEF Found
  <2>3. CASE c.kind \in KnowsPartial \ {"apt"}
    BY <1>4, <1>7, <1>8, <2>3
  <2> QED
    BY <2>1, <2>2, <2>3
<1>11. CASE e = f
  BY <1>2, <1>3, <1>11
<1>12. CASE c.kind \notin KnowsPartial \cup {"winget"} \/ c.kind = "apt"
  <2>1. c.kind \in RegistryKinds => e.name = c.alias
    BY <1>1 DEF InventoryName, RegistryKinds
  <2>2. c.kind \in {"pipx", "conda", "cargo"} => e.slot = Confined(c)
    BY <1>1, <1>12 DEF Confined, KnowsPartial
  <2>3. c.kind \in {"scoop", "flatpak"} => c.slot \in {"", e.slot}
    BY <1>1, <1>9 DEF Confined, Lenient
  <2>4. /\ c.kind # "cargo" /\ c.kind # "winget" /\ c.kind # "sdkman"
        /\ c.kind = "go" => e.slot = "gobin"
    BY <1>1, <1>12 DEF KnowsPartial, Removable
  <2>5. c.kind \in {"nix", "asdf"} => e.src = c.src
    BY <1>1
  <2> QED
    BY <1>2, <1>6, <1>9, <1>10, <2>1, <2>2, <2>3, <2>4, <2>5 DEF Serves
<1> QED
  BY <1>7, <1>8, <1>11, <1>12

LEMMA InitRemoval == Init => RemovalInv
  BY DEF Init, RemovalInv

\* What was found stays found while no question is asked, for the candidate
\* and the hosts that were seen are the same; and so do the places.
LEMMA FoundStays ==
  ASSUME c' = c
  PROVE  /\ seen' = seen /\ Found => Found'
         /\ Questions' = Questions /\ (Lenient' <=> Lenient)
         /\ \A e : Place(e)' = Place(e)
<1>1. /\ \A e : Serves(e)' <=> Serves(e)
      /\ Questions' = Questions /\ (Lenient' <=> Lenient)
  BY ServesStays, AnswersStay
<1>2. \A h, q : Queried(h, q)' = Queried(h, q)
  <2> SUFFICES ASSUME NEW h, NEW q
               PROVE  Queried(h, q)' = Queried(h, q)
    OBVIOUS
  <2>1. AskedByName' = AskedByName
    BY Zenon DEF AskedByName
  <2> QED
    BY <2>1, Zenon DEF Queried
<1>3. \A e : Place(e)' = Place(e)
  BY DEF Place
<1>4. ASSUME seen' = seen, Found
      PROVE  Found'
  <2>1. \E e \in seen'[1] \cup seen'[Questions'] : Serves(e)'
    BY <1>1, <1>4 DEF Found
  <2>2. c.kind = "pipx" =>
          \A e \in Queried(seen[1], 1) : e.name = c.pkg => e.pkg = c.pkg
    BY <1>4 DEF Found
  <2>3. c.kind = "go" =>
          \A e \in seen[Questions] :
            e.name = InventoryName(c) /\ e.slot = "gobin" => e.pkg = c.pkg
    BY <1>4 DEF Found
  <2>4. c.kind = "apt" => \A e \in Queried(seen[1], 1) : e.form = "whole"
    BY <1>4 DEF Found
  <2>5. Queried(seen[1], 1)' = Queried(seen[1], 1)
    BY <1>4, Zenon DEF Queried, AskedByName
  <2> QED
    BY <1>1, <1>4, <2>1, <2>2, <2>3, <2>4, <2>5 DEF Found
<1> QED
  BY <1>1, <1>3, <1>4

LEMMA NextRemoval ==
  ReadingInv /\ RemovalInv /\ [Next]_vars => RemovalInv'
<1> SUFFICES ASSUME ReadingInv, RemovalInv, [Next]_vars
             PROVE  RemovalInv'
  OBVIOUS
<1>1. c' = c
  BY DEF Next, vars, StartInstall, StartRemoval, Start, Ask,
     GateAlreadyInstalled, InstallResolved, ConfirmNativeInstall,
     VerifyInstalled, DecideRemoval, RemoveResolved, Outsider
<1>2. /\ seen' = seen /\ Found => Found'
      /\ Questions' = Questions /\ (Lenient' <=> Lenient)
      /\ \A e : Place(e)' = Place(e)
  BY <1>1, FoundStays
<1>3. WellPlaced(host) /\ host \subseteq Entry
  BY DEF RemovalInv, ReadingInv, Sound
<1>4. WellPlaced(host') => WellPlaced(host)'
  BY <1>2 DEF WellPlaced
<1>5. host' \subseteq host => WellPlaced(host)'
  BY <1>2, <1>3 DEF WellPlaced
<1>6. ASSUME WellPlaced(host)', stage' # "uninstall"
      PROVE  RemovalInv'
  BY <1>6 DEF RemovalInv
<1>7. ASSUME WellPlaced(host)', stage' = stage, seen' = seen
      PROVE  RemovalInv'
  BY <1>1, <1>2, <1>7 DEF RemovalInv
<1>8. CASE \/ StartInstall \/ StartRemoval \/ GateAlreadyInstalled
           \/ ConfirmNativeInstall \/ VerifyInstalled \/ RemoveResolved
  <2>1. host' \subseteq host /\ stage' # "uninstall"
    <3>1. CASE GateAlreadyInstalled
      <4>1. TransitionForVerification(Verdict) \in
              {"none", "install", "upgrade", "refuse"}
        BY DEF TransitionForVerification
      <4> QED
        BY <3>1, <4>1 DEF GateAlreadyInstalled, End
    <3>2. CASE ~GateAlreadyInstalled
      BY <1>8, <3>2 DEF StartInstall, StartRemoval, Start,
         ConfirmNativeInstall, VerifyInstalled, RemoveResolved, End
    <3> QED
      BY <3>1, <3>2
  <2> QED
    BY <1>5, <1>6, <2>1
<1>9. ASSUME NEW fault \in Faults \cup {"none"}, Ask(fault)
      PROVE  RemovalInv'
  <2>1. host' = host /\ stage' # "uninstall"
    BY <1>9 DEF Ask, Asking
  <2> QED
    BY <1>5, <1>6, <2>1
<1>10. CASE InstallResolved
  <2> DEFINE cmd  == InstallCommand(Asked, Plan)
             done == Installed([cmd EXCEPT !.slot = Slot(cmd)])
  <2>1. WellPlaced(done)
    BY <1>3, InstalledPlaced
  <2>2. host' \in {host, done} /\ stage' # "uninstall"
    BY <1>10 DEF InstallResolved, End
  <2> HIDE DEF done
  <2> QED
    BY <1>3, <1>4, <1>6, <2>1, <2>2
<1>11. CASE DecideRemoval
  <2>1. /\ host' = host /\ seen' = seen /\ stage \in Asking /\ Answered
        /\ stage' = "uninstall" => /\ Removable(c.kind)
                                   /\ Verdict.state \in {"satisfied", "drifted"}
    BY <1>11 DEF DecideRemoval, End, Asking
  <2>2. Read /\ {1, Questions} \subseteq DOMAIN seen
    BY <2>1, AnsweredRead
  <2>3. stage' = "uninstall" /\ ~Lenient => Found
    BY <2>1, <2>2, VerdictFinds
  <2> QED
    BY <1>1, <1>2, <1>5, <2>1, <2>2, <2>3 DEF RemovalInv
<1>12. CASE Outsider
  BY <1>4, <1>7, <1>12 DEF Outsider
<1>13. CASE UNCHANGED vars
  BY <1>5, <1>7, <1>13 DEF vars
<1> QED
  BY <1>8, <1>9, <1>10, <1>11, <1>12, <1>13 DEF Next

\* Whatever was answered, whoever else changed the host and whenever: unless
\* the host has changed since the removal was decided on, a removal takes only
\* entries that serve the candidate, all of them the package and all of it,
\* and of versions that lie side by side only the one it pins.
THEOREM AlwaysTakesItsOwn == Spec => TakesOnlyItsOwn
<1>1. ReadingInv /\ RemovalInv /\ [Next]_vars =>
        (stage = "uninstall" /\ stage' # stage /\ ~Lenient /\ ~OfAnyRemote
           /\ (\A i \in DOMAIN seen : seen[i] = host) =>
           \A e \in host \ host' :
             /\ Serves(e)
             /\ c.kind \in SideBySide => c.ver \in {"", e.ver})
  <2> SUFFICES ASSUME ReadingInv, RemovalInv, [Next]_vars,
                      stage = "uninstall", stage' # stage,
                      ~Lenient, ~OfAnyRemote,
                      \A i \in DOMAIN seen : seen[i] = host,
                      NEW e \in host \ host'
               PROVE  /\ Serves(e)
                      /\ c.kind \in SideBySide => c.ver \in {"", e.ver}
    OBVIOUS
  <2>1. RemoveResolved
    <3>1. "uninstall" \notin Asking
      BY DEF Asking
    <3> QED
      BY <3>1 DEF Next, vars, StartInstall, StartRemoval, Start, Ask,
         GateAlreadyInstalled, InstallResolved, ConfirmNativeInstall,
         VerifyInstalled, DecideRemoval, Outsider, Asking
  <2>2. /\ e \in Removed(RemovalCommand)
        /\ c.kind \in OwnObserve =>
             ~ToolchainRefuses(c, Honest(host, 1), Honest(host, Questions))
    BY <2>1 DEF RemoveResolved
  <2>3. c.kind = "nix" => c.kind \in OwnObserve
    BY DEF OwnObserve
  <2>4. /\ seen[1] = host /\ seen[Questions] = host
        /\ WellPlaced(host) /\ Removable(c.kind) /\ Found
    BY DEF RemovalInv
  <2>5. c \in Candidate /\ \A x \in host : Sound(x)
    BY CandidateIs DEF ReadingInv
  <2> QED
    BY <2>2, <2>3, <2>4, <2>5, TakenServes
<1>2. ReadingInv /\ RemovalInv /\ [Next]_vars =>
        [stage = "uninstall" /\ stage' # stage /\ ~Lenient /\ ~OfAnyRemote
           /\ (\A i \in DOMAIN seen : seen[i] = host) =>
           \A e \in host \ host' :
             /\ Serves(e)
             /\ c.kind \in SideBySide => c.ver \in {"", e.ver}]_vars
  BY <1>1
<1>3. ReadingInv /\ RemovalInv /\ [Next]_vars => ReadingInv' /\ RemovalInv'
  BY NextReading, NextRemoval
<1> QED
  BY <1>2, <1>3, InitReading, InitRemoval, PTL DEF Spec, TakesOnlyItsOwn

-------------------------------------------------------------------------------
(* What an honest manager lists after an installation satisfies the plan.  *)

\* What the adapter makes of an honest manager's answers on this host, and
\* what the executor makes of that.
Observing(h) ==
  CASE c.kind \in OwnObserve  -> ToolchainObserve(Asked, Honest(h, 1), Honest(h, Questions))
    [] c.kind \in NativeKinds -> NativeObserve(Asked, Honest(h, 1), Honest(h, Questions))
    [] OTHER                  -> BaseObserve(Asked, Honest(h, 1))

Judged(h) == VerifyResolvedCandidate(Verifies(c.kind), Plan, Observing(h))

Confirmed(h) ==
  LooksUpInstall(c.kind) => VerifyNativeInstall(c, Honest(h, 1), Honest(h, Questions))

\* What the plan wants of each field.
Want ==
  [package     |-> c.pkg,
   version     |-> Value(Plan, "version"),
   scope       |-> ScopeOf(c),
   environment |-> IF c.kind \in {"cargo", "conda"} THEN c.slot ELSE "",
   source      |-> IF c.kind \in {"nix", "winget", "asdf", "conda"} THEN c.src ELSE "",
   revision    |-> c.build]

SixFields == {"package", "version", "scope", "environment", "source", "revision"}

\* What an adapter may make of an entry that an installation leaves.
Told == {"", "v2", "b1", c.pkg, c.ver, c.locked, c.slot, c.src, c.build}

\* The observation shows what the plan wants.
Shows(obs) ==
  /\ obs.presence = "present" /\ obs.err = FALSE
  /\ \E r : /\ obs.known = Stated(r)
            /\ DOMAIN r \subseteq SixFields
            /\ \A f \in DOMAIN r : r[f] \in Told
            /\ \A f \in Verifies(c.kind) : Want[f] # "" => f \in DOMAIN r /\ r[f] = Want[f]

LEMMA WantIs ==
  ASSUME c \in Candidate
  PROVE  /\ DOMAIN Demanded \subseteq SixFields \cap Verifies(c.kind)
         /\ \A f \in DOMAIN Demanded : Demanded[f] = Want[f] /\ Want[f] # ""
         /\ Want["version"] \in Told
         /\ Verifies(c.kind) \subseteq SixFields
<1> DEFINE r == [package     |-> c.pkg,
                 version     |-> c.ver,
                 scope       |-> ScopeOf(c),
                 environment |-> IF c.kind \in {"cargo", "conda"} THEN c.slot
                                 ELSE "",
                 source      |-> IF c.kind \in {"nix", "winget", "asdf", "conda"}
                                 THEN c.src ELSE "",
                 revision    |-> c.build]
<1>1. Intent(c) = Stated(r)
  BY DEF Intent
<1>2. DOMAIN r = SixFields /\ r["version"] = c.ver
      /\ \A f \in SixFields : f # "version" => r[f] = Want[f]
  BY DEF SixFields, Want
<1> HIDE DEF r
<1>3. /\ DOMAIN Intent(c) = {f \in SixFields : r[f] # ""}
      /\ \A f \in DOMAIN Intent(c) : Intent(c)[f] = r[f]
  BY <1>1, <1>2, StatedIs
<1>4. /\ DOMAIN Plan \subseteq SixFields
      /\ \A f \in DOMAIN Plan : Plan[f] = Want[f] /\ Want[f] # ""
  <2>1. Want["version"] = Value(Plan, "version")
    BY DEF Want
  <2>2. CASE c.kind \in LockedKinds /\ c.locked # ""
    <3>1. Plan = [f \in DOMAIN Intent(c) \cup {"version"} |->
                    IF f = "version" THEN c.locked ELSE Intent(c)[f]]
      BY <2>2 DEF Plan, ResolvePlan
    <3>2. Value(Plan, "version") = c.locked /\ "version" \in SixFields
      BY <3>1 DEF Value, SixFields
    <3> QED BY <1>2, <1>3, <2>1, <2>2, <3>1, <3>2
  <2>3. CASE ~(c.kind \in LockedKinds /\ c.locked # "")
    <3>1. Plan = Intent(c)
      BY <2>3 DEF Plan, ResolvePlan
    <3>2. "version" \in DOMAIN Plan => Value(Plan, "version") = Plan["version"]
      BY DEF Value
    <3> QED BY <1>2, <1>3, <2>1, <3>1, <3>2
  <2> QED BY <2>2, <2>3
<1>5. Demanded = [f \in DOMAIN Plan \cap Verifies(c.kind) |-> Plan[f]]
  BY DEF Demanded, Project
<1>6. Want["version"] \in Told
  <2>1. Value(Plan, "version") \in {"", c.ver, c.locked}
    <3>1. CASE c.kind \in LockedKinds /\ c.locked # ""
      <4>1. Plan = [f \in DOMAIN Intent(c) \cup {"version"} |->
                      IF f = "version" THEN c.locked ELSE Intent(c)[f]]
        BY <3>1 DEF Plan, ResolvePlan
      <4> QED BY <4>1 DEF Value
    <3>2. CASE ~(c.kind \in LockedKinds /\ c.locked # "")
      <4>1. Plan = Intent(c)
        BY <3>2 DEF Plan, ResolvePlan
      <4> QED BY <1>2, <1>3, <4>1 DEF Value
    <3> QED BY <3>1, <3>2
  <2> QED BY <2>1 DEF Want, Told
<1>7. Verifies(c.kind) \subseteq SixFields
  BY DEF Verifies, SixFields
<1> QED BY <1>4, <1>5, <1>6, <1>7

\* What shows all the plan wants is a verdict that satisfies it.
LEMMA ShownSatisfies ==
  ASSUME c \in Candidates, NEW h, Shows(Observing(h))
  PROVE  Judged(h).state = "satisfied"
<1>1. c \in Candidate
  BY CandidateIs
<1> DEFINE obs == Observing(h)
<1>2. obs.presence = "present" /\ obs.err = FALSE
  BY DEF Shows
<1>3. PICK r : /\ obs.known = Stated(r)
               /\ DOMAIN r \subseteq SixFields
               /\ \A f \in DOMAIN r : r[f] \in Told
               /\ \A f \in Verifies(c.kind) : Want[f] # "" => f \in DOMAIN r /\ r[f] = Want[f]
  BY Zenon DEF Shows
<1> HIDE DEF obs
<1>4. /\ DOMAIN obs.known = {f \in DOMAIN r : r[f] # ""}
      /\ \A f \in DOMAIN obs.known : obs.known[f] = r[f]
  BY <1>3, StatedIs
<1>5. \A v \in Told : v # "" => v \notin Malformed
  BY ValuesAssumption DEF Told
<1>6. SixFields \subseteq Fields
  BY ValuesAssumption DEF SixFields
<1>7. Readable(obs.known)
  BY <1>3, <1>4, <1>5, <1>6 DEF Readable
<1>8. \A f \in DOMAIN Demanded : /\ f \in DOMAIN obs.known /\ Demanded[f] = obs.known[f]
  <2> TAKE f \in DOMAIN Demanded
  <2>1. f \in Verifies(c.kind) /\ Demanded[f] = Want[f] /\ Want[f] # ""
    BY <1>1, WantIs
  <2> QED BY <1>3, <1>4, <2>1
<1>9. Readable(Demanded)
  BY <1>3, <1>4, <1>5, <1>6, <1>8 DEF Readable
<1> DEFINE answer == ObserveResolvedCandidate(obs)
<1>10. /\ answer.presence = "present" /\ answer.known = obs.known
  BY <1>2 DEF ObserveResolvedCandidate, Presences
<1>11. Judged(h) = Reconcile(Demanded, answer)
  BY DEF Judged, VerifyResolvedCandidate, Demanded, obs
<1> HIDE DEF answer
<1>12. Judged(h) = Compare(Demanded, answer)
  BY <1>7, <1>9, <1>10, <1>11 DEF Reconcile
<1>13. DOMAIN Drift(Demanded, answer.known) = {}
  BY <1>8, <1>10 DEF Drift
<1>14. Unseen(Demanded, answer.known) = {}
  BY <1>8, <1>10 DEF Unseen
<1> QED BY <1>12, <1>13, <1>14 DEF Compare

\* The adapter is asked about the version that the plan wants.
LEMMA AskedVersion ==
  ASSUME c \in Candidate
  PROVE  Asked.ver = Want["version"]
<1>1. Want["version"] = Value(Plan, "version")
  BY DEF Want
<1>2. Asked.ver = IF c.kind \in LockedKinds /\ Value(Plan, "version") # ""
                  THEN Value(Plan, "version") ELSE c.ver
  BY DEF Asked, MethodForResolvedTarget, Candidate
<1>3. CASE c.kind \in LockedKinds /\ c.locked # ""
  <2>1. Value(Plan, "version") = c.locked
    BY <1>3 DEF Plan, ResolvePlan, Value
  <2> QED
    BY <1>1, <1>2, <1>3, <2>1
<1>4. CASE ~(c.kind \in LockedKinds /\ c.locked # "")
  <2>1. Plan = Intent(c)
    BY <1>4 DEF Plan, ResolvePlan
  <2>2. Value(Intent(c), "version") = c.ver
    BY DEF Intent, Stated, Value
  <2> QED
    BY <1>1, <1>2, <2>1, <2>2
<1> QED
  BY <1>3, <1>4

\* The entry that an installation makes.
Made == InstallCommand(Asked, Plan)

NewEntry ==
  [name |-> IF c.kind = "go" THEN GoInstallName(c.path) ELSE InventoryName(c),
   pkg |-> c.pkg,
   ver |-> IF Want["version"] = "" THEN "v2" ELSE Want["version"],
   slot |-> Slot(Made), src |-> c.src,
   build |-> IF c.build = "" THEN "b1" ELSE c.build, form |-> "whole"]

Done == Installed([Made EXCEPT !.slot = Slot(Made)])

\* What an installation leaves: its own entry, alone in its place, and no
\* other that was not there, but for sdkman's versions that are current no
\* more.
After(h) ==
  /\ NewEntry \in h
  /\ \A e \in h : Sound(e)
  /\ \A e \in h : e = NewEntry \/ Place(e) # Place(NewEntry)
  /\ c.kind # "sdkman" => h \subseteq host \cup {NewEntry}

LEMMA DoneAfter ==
  ASSUME c \in Candidates, \A e \in host : Sound(e)
  PROVE  /\ After(Done)
         /\ c.kind # "sdkman" =>
              \A e \in host : Place(e) # Place(NewEntry) => e \in Done
<1> DEFINE asked == [Made EXCEPT !.slot = Slot(Made)]
<1>0. c \in Candidate
  BY CandidateIs
<1>1. /\ InventoryName(Asked) = InventoryName(c) /\ Asked.src = c.src
      /\ Value(Plan, "package") = c.pkg /\ Value(Plan, "revision") = c.build
      /\ Value(Plan, "version") = Want["version"]
  BY <1>0, AskedIs, ValueIs DEF Want
<1>2. Made = [name |-> InventoryName(c), pkg |-> c.pkg,
              ver |-> Want["version"], slot |-> Confined(Asked), src |-> c.src,
              build |-> c.build]
  BY <1>1 DEF Made, InstallCommand
<1>3. asked = [name |-> InventoryName(c), pkg |-> c.pkg,
              ver |-> Want["version"], slot |-> Slot(Made), src |-> c.src,
              build |-> c.build]
  BY <1>2
<1> HIDE DEF asked
<1>4. /\ asked.name = InventoryName(c) /\ asked.pkg = c.pkg
      /\ asked.ver = Want["version"] /\ asked.slot = Slot(Made)
      /\ asked.src = c.src /\ asked.build = c.build
  BY <1>3
<1> DEFINE entry == [name |-> IF c.kind = "go" THEN GoInstallName(c.path)
                              ELSE asked.name,
                     pkg |-> asked.pkg,
                     ver |-> IF asked.ver = "" THEN "v2" ELSE asked.ver,
                     slot |-> asked.slot, src |-> asked.src,
                     build |-> IF asked.build = "" THEN "b1" ELSE asked.build,
                     form |-> "whole"]
           others == {x \in host : Place(x) # Place(entry)}
           kept(x) == IF c.kind = "sdkman" THEN [x EXCEPT !.slot = ""] ELSE x
<1>5. entry = NewEntry
  BY <1>4 DEF NewEntry
<1>6. Installed(asked) = {entry} \cup {kept(x) : x \in others}
  BY Zenon DEF Installed
<1>7. Done = Installed(asked)
  BY DEF Done, asked
<1>8. ASSUME NEW x \in host
      PROVE  Place(kept(x)) = Place(x)
  <2>1. "sdkman" \notin Slotted
    BY DEF Slotted, NativeKinds, ClanOfManager
  <2>2. x \in Entry /\ kept(x).name = x.name /\ kept(x).ver = x.ver
    BY <1>8 DEF Entry, Sound
  <2>3. c.kind # "sdkman" => kept(x) = x
    OBVIOUS
  <2> HIDE DEF kept
  <2> QED
    BY <2>1, <2>2, <2>3 DEF Place
<1>9. \A e \in Done : Sound(e)
  BY InstalledSound DEF Done, Made
<1>10. c.kind # "sdkman" => \A x : kept(x) = x
  OBVIOUS
<1> HIDE DEF entry, kept
<1>11. \A e \in Done : e = NewEntry \/ Place(e) # Place(NewEntry)
  BY <1>5, <1>6, <1>7, <1>8
<1>12. NewEntry \in Done
  BY <1>5, <1>6, <1>7
<1>13. c.kind # "sdkman" => Done \subseteq host \cup {NewEntry}
  BY <1>5, <1>6, <1>7, <1>10
<1>14. c.kind # "sdkman" =>
         \A e \in host : Place(e) # Place(NewEntry) => e \in Done
  BY <1>5, <1>6, <1>7, <1>10
<1> QED
  BY <1>9, <1>11, <1>12, <1>13, <1>14 DEF After

\* The entry says what the plan wants, and lies where it is looked for.
LEMMA EntryIs ==
  ASSUME c \in Candidate
  PROVE  /\ Recognisable(c) => NewEntry.name = InventoryName(c)
         /\ NewEntry.pkg = c.pkg
         /\ NewEntry.src = c.src /\ NewEntry.form = "whole"
         /\ NewEntry.ver # "" /\ NewEntry.ver \in Told
         /\ Want["version"] # "" => NewEntry.ver = Want["version"]
         /\ NewEntry.build # "" /\ NewEntry.build \in Told
         /\ c.build # "" => NewEntry.build = c.build
         /\ c.kind = "go" => NewEntry.slot = "gobin"
         /\ c.kind = "asdf" =>
              NewEntry.slot = IF c.src = "" THEN "asdf" ELSE "mise"
         /\ c.kind = "sdkman" => NewEntry.slot = "current"
         /\ c.kind \notin {"go", "asdf", "sdkman"} => NewEntry.slot = Confined(c)
<1>1. Asked.kind = c.kind /\ Asked.slot = c.slot
  BY AskedIs
<1>2. Confined(Asked) = Confined(c)
  BY <1>1 DEF Confined
<1>3. Made.slot = Confined(c)
  BY <1>2 DEF Made, InstallCommand
<1>4. /\ c.kind = "go" => Slot(Made) = "gobin"
      /\ c.kind = "asdf" => Slot(Made) = IF c.src = "" THEN "asdf" ELSE "mise"
      /\ c.kind = "sdkman" => Slot(Made) = "current"
      /\ c.kind \notin {"go", "asdf", "sdkman"} => Slot(Made) = Confined(c)
  BY <1>3 DEF Slot
<1>5. Want["version"] \in Told
  BY WantIs
<1>6. "v2" \in Told /\ "b1" \in Told /\ c.build \in Told
  BY DEF Told
<1>7. ASSUME Recognisable(c)
      PROVE  NewEntry.name = InventoryName(c)
  <2>1. c.kind = "go" => InventoryName(c) = GoInstallName(c.path)
    BY <1>7 DEF Recognisable, Misnamed, InventoryName, RegistryKinds
  <2> QED
    BY <2>1 DEF NewEntry
<1> QED
  BY <1>4, <1>5, <1>6, <1>7 DEF NewEntry

\* An honest manager that is asked about the package lists the entry.
LEMMA EntryListed ==
  ASSUME c \in Candidate, Recognisable(c), NEW h, After(h), NEW q,
         c.kind = "asdf" /\ c.src = "" => q = 1,
         c.kind = "asdf" /\ c.src # "" => q # 1,
         ~(c.kind \in NativeKinds /\ HasDatabase(c.kind) /\ q = 2)
  PROVE  /\ NewEntry \in Queried(h, q)
         /\ Honest(h, q).found /\ Honest(h, q).ran /\ Honest(h, q).whole
         /\ Honest(h, q).exit = 0 /\ Honest(h, q).said = "rows"
         /\ Honest(h, q).rows = Queried(h, q)
         /\ Queried(h, q) \subseteq h
<1>1. NewEntry \in h
  BY DEF After
<1>2. /\ c.kind \in {"pipx", "conda", "cargo"} => NewEntry.slot = Confined(c)
      /\ c.kind = "scoop" /\ c.slot = "global" => NewEntry.slot = "global"
      /\ c.kind = "flatpak" => c.slot \in {"", NewEntry.slot}
      /\ c.kind = "asdf" => NewEntry.slot = IF q = 1 THEN "asdf" ELSE "mise"
      /\ NewEntry.name = InventoryName(c)
      /\ NewEntry.form = "whole"
  <2>1. /\ c.kind \in {"pipx", "conda", "cargo", "scoop", "flatpak"} =>
             NewEntry.slot = Confined(c)
        /\ c.kind = "asdf" =>
             NewEntry.slot = IF c.src = "" THEN "asdf" ELSE "mise"
        /\ NewEntry.name = InventoryName(c) /\ NewEntry.form = "whole"
    BY EntryIs
  <2>2. c.kind = "scoop" /\ c.slot = "global" => Confined(c) = "global"
    BY DEF Confined
  <2>3. c.kind = "flatpak" => Confined(c) = c.slot
    BY DEF Confined
  <2>4. c.kind = "asdf" => NewEntry.slot = IF q = 1 THEN "asdf" ELSE "mise"
    <3>1. CASE c.src = ""
      BY <2>1, <3>1
    <3>2. CASE c.src # ""
      <4>1. c.kind = "asdf" => q # 1
        BY <3>2
      <4> QED
        BY <2>1, <3>2, <4>1
    <3> QED
      BY <3>1, <3>2
  <2> QED
    BY <2>1, <2>2, <2>3, <2>4
<1>3. NewEntry \in Queried(h, q)
  BY <1>1, <1>2 DEF Queried
<1>4. Queried(h, q) \subseteq h
  BY DEF Queried
<1> QED
  BY <1>3, <1>4, HonestLists

\* Where a package has one place, nothing else bears its name there.
LEMMA OnlyEntry ==
  ASSUME c \in Candidate, NEW h, After(h), NEW e \in h,
         e.name = NewEntry.name,
         c.kind \in Slotted => e.slot = NewEntry.slot,
         c.kind \notin SideBySide \cup {"nix"}
  PROVE  e = NewEntry
<1>1. Place(e) = Place(NewEntry)
  BY DEF Place, SideBySide
<1> QED
  BY <1>1 DEF After

\* The version that a listing gives is the one asked for.
LEMMA VersionListed ==
  ASSUME c \in Candidate, c.kind \in ExactVersionKinds, Recognisable(c),
         NEW h, After(h)
  PROVE  LET report == InstalledVersion(Asked, Honest(h, 1))
         IN /\ report.said = "version"
            /\ Asked.ver # "" => report.ver = Asked.ver
<1> DEFINE a      == Honest(h, 1)
           rows   == Rows(Asked, a)
           report == InstalledVersion(Asked, a)
<1> SUFFICES /\ report.said = "version"
             /\ Asked.ver # "" => report.ver = Asked.ver
  OBVIOUS
<1>1. /\ c.kind \notin OwnObserve \cup NativeKinds
      /\ c.kind \notin {"asdf", "nix"}
      /\ c.kind \in Slotted => c.kind = "pipx"
  BY DEF ExactVersionKinds, OwnObserve, NativeKinds, ClanOfManager, Slotted
<1>2. /\ NewEntry \in Queried(h, 1)
      /\ a.found /\ a.ran /\ a.whole /\ a.exit = 0 /\ a.said = "rows"
      /\ a.rows = Queried(h, 1) /\ a.rows \subseteq h
  <2> HIDE DEF report, a
  <2>1. /\ NewEntry \in Queried(h, 1)
        /\ Honest(h, 1).found /\ Honest(h, 1).ran /\ Honest(h, 1).whole
        /\ Honest(h, 1).exit = 0 /\ Honest(h, 1).said = "rows"
        /\ Honest(h, 1).rows = Queried(h, 1)
        /\ Queried(h, 1) \subseteq h
    BY <1>1, EntryListed
  <2> QED
    BY <2>1 DEF a
<1>3. /\ Asked.kind = c.kind /\ Asked.pkg = c.pkg
      /\ InventoryName(Asked) = InventoryName(c)
      /\ Asked.ver = Want["version"]
  BY AskedIs, AskedVersion
<1>4. /\ NewEntry.name = InventoryName(c) /\ NewEntry.pkg = c.pkg
      /\ NewEntry.ver # "" /\ (Asked.ver # "" => NewEntry.ver = Asked.ver)
      /\ c.kind = "pipx" => NewEntry.slot = Confined(c)
  BY <1>3, EntryIs
<1>5. \A e \in a.rows : /\ e.ver # ""
                        /\ c.kind = "pipx" => e.slot = Confined(c)
  <2> TAKE e \in a.rows
  <2>1. Plausible(c, e)
    BY <1>2 DEF After, Sound
  <2>2. c.kind \notin {"scoop", "choco", "go"}
    BY <1>1 DEF OwnObserve
  <2> QED
    BY <1>2, <2>1, <2>2 DEF Plausible, Queried
<1> HIDE DEF a
<1>6. NewEntry \in rows /\ rows \subseteq a.rows
  BY <1>2, <1>3, <1>4 DEF Rows
<1>7. c.kind # "gem" => rows = {NewEntry}
  <2> SUFFICES ASSUME c.kind # "gem", NEW e \in rows PROVE e = NewEntry
    BY <1>6
  <2>1. e \in h /\ e.name = InventoryName(c)
    BY <1>2, <1>3, <1>6 DEF Rows
  <2>2. c.kind \notin SideBySide \cup {"nix"}
    BY <1>1 DEF SideBySide, ExactVersionKinds
  <2> QED
    BY <1>1, <1>4, <1>5, <1>6, <2>1, <2>2, OnlyEntry
<1>8. \A r : r.ver # "" => /\ VersionOf(r).said = "version"
                           /\ VersionOf(r).ver = r.ver
  BY DEF VersionOf, Report
<1> HIDE DEF rows
<1>9. CASE c.kind = "gem"
  <2>1. report = Pick(Asked, rows)
    BY <1>2, <1>3, <1>6, <1>9 DEF InstalledVersion, GemVersion, Exited0, rows
  <2>2. CASE \E r \in rows : r.ver = Asked.ver
    <3>1. (CHOOSE r \in rows : r.ver = Asked.ver).ver = Asked.ver
          /\ (CHOOSE r \in rows : r.ver = Asked.ver) \in rows
      BY <2>2
    <3>2. report = VersionOf(CHOOSE r \in rows : r.ver = Asked.ver)
      BY <2>1, <2>2 DEF Pick
    <3> QED
      BY <1>5, <1>6, <1>8, <3>1, <3>2
  <2>3. CASE ~\E r \in rows : r.ver = Asked.ver
    <3>1. Asked.ver = ""
      BY <1>4, <1>6, <2>3
    <3>2. report = VersionOf(CHOOSE r \in rows : TRUE)
      BY <2>1, <2>3 DEF Pick
    <3>3. (CHOOSE r \in rows : TRUE) \in rows
      BY <1>6
    <3> QED
      BY <1>5, <1>6, <1>8, <3>1, <3>2, <3>3
  <2> QED
    BY <2>2, <2>3
<1>10. CASE c.kind # "gem"
  <2>1. ListedVersion(Asked, a) = VersionOf(NewEntry)
    BY <1>7, <1>10 DEF ListedVersion, rows
  <2>2. VersionOf(NewEntry).said = "version"
        /\ VersionOf(NewEntry).ver = NewEntry.ver
    BY <1>4, <1>8
  <2>3. c.kind # "composer" => report = VersionOf(NewEntry)
    <3>1. CASE c.kind = "pip"
      <4>1. report = ShownVersion(Asked, a)
        BY <1>3, <3>1 DEF InstalledVersion
      <4> QED
        BY <1>2, <1>3, <2>1, <2>2, <3>1, <4>1 DEF ShownVersion, Exited0
    <3>2. CASE c.kind = "pipx"
      <4>1. report = PipxVersion(Asked, a)
        BY <1>3, <3>2 DEF InstalledVersion
      <4>2. ~\E r \in rows : r.pkg # Asked.pkg
        BY <1>3, <1>4, <1>7, <1>10
      <4>3. report = VersionOf(CHOOSE r \in rows : TRUE)
        BY <1>2, <1>6, <4>1, <4>2, Zenon DEF PipxVersion, Exited0, rows
      <4> QED
        BY <1>7, <1>10, <4>3
    <3>3. CASE c.kind = "uv"
      <4>1. report = UVVersion(Asked, a)
        BY <1>3, <3>3 DEF InstalledVersion
      <4> QED
        BY <1>2, <1>5, <2>1, <4>1 DEF UVVersion, Exited0
    <3>4. CASE c.kind \in {"bun", "yarn"}
      <4>1. report = FramedVersion(Asked, a)
        BY <1>3, <3>4 DEF InstalledVersion
      <4> QED
        BY <1>2, <2>1, <4>1 DEF FramedVersion, Exited0
    <3>5. CASE c.kind = "pnpm"
      <4>1. report = PNPMVersion(Asked, a)
        BY <1>3, <3>5 DEF InstalledVersion
      <4> QED
        BY <1>2, <2>1, <4>1 DEF PNPMVersion, Exited0
    <3>6. CASE c.kind = "npm"
      <4>1. report = NPMVersion(Asked, a)
        BY <1>3, <3>6 DEF InstalledVersion
      <4> QED
        BY <1>2, <1>6, <2>1, <4>1 DEF NPMVersion, rows
    <3> QED
      BY <1>10, <3>1, <3>2, <3>3, <3>4, <3>5, <3>6 DEF ExactVersionKinds
  <2>4. ASSUME c.kind = "composer"
        PROVE  report = Report("version", Bare(NewEntry.ver))
    <3>1. report = ShownVersion(Asked, a)
      BY <1>3, <2>4 DEF InstalledVersion
    <3> QED
      BY <1>2, <1>3, <2>1, <2>2, <2>4, <3>1 DEF ShownVersion, Exited0
  <2>5. c.kind = "composer" => Asked.ver = c.ver /\ Bare(c.ver) = c.ver
    BY AskedIs DEF Recognisable, LockedKinds
  <2> HIDE DEF report
  <2>6. CASE c.kind = "composer"
    <3>1. report.said = "version" /\ report.ver = Bare(NewEntry.ver)
      BY <2>4, <2>6 DEF Report
    <3> QED
      BY <1>4, <2>5, <2>6, <3>1
  <2> QED
    BY <1>4, <2>2, <2>3, <2>6
<1> QED
  BY <1>9, <1>10

\* What the plan wants is what the observation shows.
LEMMA ShowsWanted ==
  ASSUME c \in Candidate, NEW obs, NEW r,
         obs.presence = "present", obs.err = FALSE, obs.known = Stated(r),
         DOMAIN r \subseteq SixFields,
         \A f \in DOMAIN r : r[f] \in Told,
         \A f \in Verifies(c.kind) : Want[f] # "" => f \in DOMAIN r /\ r[f] = Want[f]
  PROVE  Shows(obs)
  BY Zenon DEF Shows

LEMMA BaseShows ==
  ASSUME c \in Candidate, c.kind \notin OwnObserve \cup NativeKinds,
         Recognisable(c), NEW h, After(h)
  PROVE  Shows(Observing(h))
<1> DEFINE a      == Honest(h, 1)
           report == InstalledVersion(Asked, a)
           r      == [package |-> c.pkg, version |-> Want["version"],
                      scope |-> ScopeOf(c)]
<1>1. /\ c.kind \in ExactVersionKinds \cup {"flatpak", "vscode", "cask"}
      /\ c.kind \notin {"asdf", "nix", "cargo", "conda"}
  BY DEF Candidate, Kinds, OwnObserve
<1>2. /\ NewEntry \in Queried(h, 1)
      /\ a.found /\ a.ran /\ a.whole /\ a.exit = 0 /\ a.said = "rows"
      /\ a.rows = Queried(h, 1) /\ a.rows \subseteq h
  <2> HIDE DEF report, a
  <2>1. /\ NewEntry \in Queried(h, 1)
        /\ Honest(h, 1).found /\ Honest(h, 1).ran /\ Honest(h, 1).whole
        /\ Honest(h, 1).exit = 0 /\ Honest(h, 1).said = "rows"
        /\ Honest(h, 1).rows = Queried(h, 1)
        /\ Queried(h, 1) \subseteq h
    BY <1>1, EntryListed
  <2> QED
    BY <2>1 DEF a
<1>3. /\ Asked.kind = c.kind /\ Asked.pkg = c.pkg /\ Asked.src = c.src
      /\ InventoryName(Asked) = InventoryName(c) /\ ScopeOf(Asked) = ScopeOf(c)
      /\ Asked.ver = Want["version"]
  BY AskedIs, AskedVersion DEF ScopeOf
<1>4. /\ NewEntry.name = InventoryName(c) /\ NewEntry.src = c.src
      /\ NewEntry.ver # "" /\ (Asked.ver # "" => NewEntry.ver = Asked.ver)
  BY <1>3, EntryIs
<1>5. c.kind \in ExactVersionKinds =>
        /\ report.said = "version"
        /\ Asked.ver # "" => report.ver = Asked.ver
  BY VersionListed
<1>6. NewEntry \in Rows(Asked, a)
  BY <1>2, <1>3, <1>4 DEF Rows
<1>7. Observing(h) = BaseObserve(Asked, a)
  BY DEF Observing
<1>8. /\ DOMAIN r \subseteq SixFields
      /\ \A f \in DOMAIN r : r[f] \in Told
      /\ \A f \in Verifies(c.kind) : Want[f] # "" => f \in DOMAIN r /\ r[f] = Want[f]
  <2>1. Want["version"] \in Told
    BY WantIs
  <2>2. ScopeOf(c) \in Told /\ c.pkg \in Told
    BY DEF ScopeOf, Told
  <2>3. Verifies(c.kind) \subseteq {"package", "version", "scope"}
    BY <1>1 DEF Verifies, ExactVersionKinds
  <2>4. Want["package"] = c.pkg /\ Want["scope"] = ScopeOf(c)
    BY DEF Want
  <2>5. /\ DOMAIN r = {"package", "version", "scope"}
        /\ r["package"] = c.pkg /\ r["version"] = Want["version"]
        /\ r["scope"] = ScopeOf(c)
    OBVIOUS
  <2> HIDE DEF r
  <2> QED
    BY <2>1, <2>2, <2>3, <2>4, <2>5 DEF SixFields
<1>9. BaseObserve(Asked, a) = Observed("present", Stated(r))
  <2> DEFINE there(ver) == Observed("present",
                      Stated([package |-> Asked.pkg, version |-> ver,
                              scope |-> ScopeOf(Asked)]))
  <2>1. there(Asked.ver) = Observed("present", Stated(r))
    BY <1>3
  <2>2. BaseObserve(Asked, a) =
          IF Asked.ver # "" /\ Asked.kind \in ExactVersionKinds
          THEN CASE report.said = "version" -> there(report.ver)
                 [] report.said = "absent"  -> NotThere(Asked)
                 [] report.said = "unsure"  -> Unclear
                 [] report.said = "failed"  -> ProbeFailed
          ELSE IF Check(Asked, a) THEN there(Asked.ver) ELSE NotThere(Asked)
    BY Zenon DEF BaseObserve
  <2> HIDE DEF there, report, r, a
  <2>3. CASE Asked.ver # "" /\ Asked.kind \in ExactVersionKinds
    <3>1. BaseObserve(Asked, a) = there(report.ver)
      BY <1>3, <1>5, <2>2, <2>3
    <3> QED
      BY <1>3, <1>5, <2>1, <2>3, <3>1
  <2>4. CASE ~(Asked.ver # "" /\ Asked.kind \in ExactVersionKinds)
    <3>1. Check(Asked, a)
      <4>1. Exited0(a) /\ a.found
        BY <1>2 DEF Exited0
      <4>2. SameSource(Asked, a)
        BY <1>3, <1>4, <1>6 DEF SameSource
      <4>3. Asked.kind \in ExactVersionKinds =>
              /\ report.said = "version" /\ Asked.ver = ""
              /\ Wanted(Asked, report)
        BY <1>3, <1>5, <2>4 DEF Wanted
      <4>4. Check(Asked, a) <=>
              CASE Asked.kind \in {"uv", "bun"} ->
                     report.said = "version" /\ Wanted(Asked, report)
                [] Asked.kind \in {"pipx", "npm", "pnpm", "yarn", "composer"} ->
                     report.said \in {"version", "unsure"} /\ Wanted(Asked, report)
                [] Asked.kind = "pip" -> Exited0(a) /\ Wanted(Asked, report)
                [] Asked.kind = "gem" ->
                     Exited0(a) /\ \E x \in Rows(Asked, a) : Asked.ver \in {"", x.ver}
                [] Asked.kind \in {"flatpak", "snap"} -> Exited0(a) /\ SameSource(Asked, a)
                [] Asked.kind \in {"vscode", "mas"} -> Exited0(a) /\ Rows(Asked, a) # {}
                [] Asked.kind = "appman" -> Rows(Asked, a) # {}
                [] OTHER -> Exited0(a)
        BY <4>1, Zenon DEF Check, report
      <4>5. CASE c.kind \in {"uv", "bun"}
        BY <1>3, <4>3, <4>4, <4>5 DEF ExactVersionKinds
      <4>6. CASE c.kind \in {"pipx", "npm", "pnpm", "yarn", "composer"}
        BY <1>3, <4>3, <4>4, <4>6 DEF ExactVersionKinds
      <4>7. CASE c.kind = "pip"
        BY <1>3, <4>1, <4>3, <4>4, <4>7 DEF ExactVersionKinds
      <4>8. CASE c.kind = "gem"
        BY <1>3, <1>6, <4>1, <4>3, <4>4, <4>8 DEF ExactVersionKinds
      <4>9. CASE c.kind = "flatpak"
        BY <1>3, <4>1, <4>2, <4>4, <4>9
      <4>10. CASE c.kind = "vscode"
        BY <1>3, <1>6, <4>1, <4>4, <4>10
      <4>11. CASE c.kind = "cask"
        BY <1>3, <4>1, <4>4, <4>11
      <4> QED
        BY <1>1, <4>5, <4>6, <4>7, <4>8, <4>9, <4>10, <4>11 DEF ExactVersionKinds
    <3> QED
      BY <2>1, <2>2, <2>4, <3>1
  <2> QED
    BY <2>3, <2>4
<1>10. /\ Observed("present", Stated(r)).presence = "present"
       /\ Observed("present", Stated(r)).err = FALSE
       /\ Observed("present", Stated(r)).known = Stated(r)
  BY DEF Observed
<1> HIDE DEF r
<1> QED
  BY <1>7, <1>8, <1>9, <1>10, ShowsWanted

\* What a host holds on which the candidate was found absent: nothing of nix
\* that is active and matches, nothing that scoop lists, and of a database
\* only what the package left behind where it is looked for.
Vacant(h) ==
  /\ c.kind # "steamcmd"
  /\ c.kind = "nix" =>
       \A e \in Queried(h, 1) :
         ~(e.pkg = c.pkg /\ e.src = c.src /\ e.form = "whole")
  /\ c.kind = "scoop" => \A e \in Queried(h, 1) : e.name # InventoryName(c)
  /\ c.kind \in NativeKinds /\ HasDatabase(c.kind) =>
       \A e \in Queried(h, 1) : e.slot = Confined(c)

\* What is listed after an installation is its entry, or was listed before.
LEMMA ListedBefore ==
  ASSUME NEW h, After(h), c.kind # "sdkman", NEW q, NEW e \in Queried(h, q)
  PROVE  e = NewEntry \/ e \in Queried(host, q)
<1>1. e \in h
  BY DEF Queried
<1>2. e = NewEntry \/ e \in host
  BY <1>1 DEF After
<1> QED
  BY <1>2 DEF Queried

LEMMA ToolchainShows ==
  ASSUME c \in Candidate, c.kind \in OwnObserve, Recognisable(c), Vacant(host),
         NEW h, After(h)
  PROVE  Shows(Observing(h))
<1> DEFINE a == Honest(h, 1)
           b == Honest(h, Questions)
           Goal(r) == /\ Observing(h) = Present(r)
                      /\ DOMAIN r \subseteq SixFields
                      /\ \A f \in DOMAIN r : r[f] \in Told
                      /\ \A f \in Verifies(c.kind) :
                           Want[f] # "" => f \in DOMAIN r /\ r[f] = Want[f]
<1>1. c.kind \notin NativeKinds /\ c.kind \notin LockedKinds
  BY DEF OwnObserve, NativeKinds, ClanOfManager, LockedKinds
<1>2. c.kind \in {"go", "asdf", "choco"} => Questions = 2
  BY DEF Questions
<1>3. ASSUME NEW r, Goal(r) PROVE Shows(Observing(h))
  <2>1. /\ Present(r).presence = "present" /\ Present(r).err = FALSE
        /\ Present(r).known = Stated(r)
    BY DEF Present, Observed
  <2> QED
    BY <1>3, <2>1, ShowsWanted
<1>4. /\ Asked.kind = c.kind /\ Asked.pkg = c.pkg /\ Asked.src = c.src
      /\ Asked.slot = c.slot /\ Asked.alias = c.alias
      /\ InventoryName(Asked) = InventoryName(c)
      /\ Asked.ver = c.ver /\ Want["version"] = c.ver
  BY <1>1, AskedIs, AskedVersion
<1>5. Observing(h) = ToolchainObserve(Asked, a, b)
  BY <1>1 DEF Observing
<1>6. c.kind # "asdf" =>
        /\ NewEntry \in Queried(h, 1)
        /\ a.found /\ a.ran /\ a.whole /\ a.exit = 0 /\ a.said = "rows"
        /\ a.rows = Queried(h, 1) /\ a.rows \subseteq h
  <2> HIDE DEF a, b
  <2>1. c.kind # "asdf" =>
        /\ NewEntry \in Queried(h, 1)
        /\ Honest(h, 1).found /\ Honest(h, 1).ran /\ Honest(h, 1).whole
        /\ Honest(h, 1).exit = 0 /\ Honest(h, 1).said = "rows"
        /\ Honest(h, 1).rows = Queried(h, 1)
        /\ Queried(h, 1) \subseteq h
    BY <1>1, EntryListed
  <2> QED
    BY <2>1 DEF a
<1>7. /\ NewEntry.name = InventoryName(c) /\ NewEntry.pkg = c.pkg
      /\ NewEntry.src = c.src /\ NewEntry.form = "whole"
      /\ NewEntry.ver # "" /\ NewEntry.ver \in Told
      /\ c.ver # "" => NewEntry.ver = c.ver
      /\ NewEntry.build # "" /\ NewEntry.build \in Told
      /\ c.build # "" => NewEntry.build = c.build
      /\ c.kind = "go" => NewEntry.slot = "gobin"
      /\ c.kind = "asdf" =>
           NewEntry.slot = IF c.src = "" THEN "asdf" ELSE "mise"
      /\ c.kind = "sdkman" => NewEntry.slot = "current"
      /\ c.kind \notin {"go", "asdf", "sdkman"} => NewEntry.slot = Confined(c)
  BY <1>4, EntryIs
<1>8. \A e \in h : Sound(e)
  BY DEF After
<1>9. ASSUME NEW e \in h, e.name = NewEntry.name,
             c.kind \in Slotted => e.slot = NewEntry.slot,
             c.kind \notin {"sdkman", "asdf", "nix"}
      PROVE  e = NewEntry
  <2>1. c.kind \notin SideBySide \cup {"nix"}
    BY <1>9 DEF SideBySide, OwnObserve
  <2> QED
    BY <1>9, <2>1, OnlyEntry
<1>10. /\ c.pkg \in Told /\ c.ver \in Told /\ c.slot \in Told /\ c.src \in Told
       /\ "" \in Told
  BY DEF Told
<1>11. /\ Want["package"] = c.pkg /\ Want["version"] = c.ver
       /\ Want["scope"] = ScopeOf(c) /\ Want["revision"] = c.build
       /\ c.kind \in {"cargo", "conda"} => Want["environment"] = c.slot
       /\ c.kind \in {"nix", "winget", "asdf", "conda"} => Want["source"] = c.src
  BY <1>4 DEF Want
<1>12. \A e \in h : Plausible(c, e)
  BY <1>8 DEF Sound
<1> HIDE DEF a, b
<1>21. Respelled(Asked, NewEntry.ver) = NewEntry.ver
  BY <1>4, <1>7 DEF Respelled
<1>13. CASE c.kind = "cargo"
  <2> DEFINE rows == {x \in a.rows : x.pkg = Asked.pkg /\ x.src = "" /\ x.form = "whole"}
             r == [package |-> c.pkg, version |-> NewEntry.ver,
                   environment |-> c.slot]
  <2>1. NewEntry \in rows
    BY <1>4, <1>6, <1>7, <1>13 DEF Recognisable
  <2>2. ASSUME NEW e \in rows PROVE e = NewEntry
    <3>1. e \in h /\ e \in Queried(h, 1) /\ e.pkg = c.pkg
      BY <1>4, <1>6, <1>13
    <3>2. e.slot = Confined(c)
      BY <1>13, <3>1 DEF Queried
    <3>3. e.name = c.pkg /\ InventoryName(c) = c.pkg
      BY <1>12, <1>13, <3>1 DEF Plausible, Renaming, RegistryKinds, InventoryName
    <3> QED
      BY <1>7, <1>9, <1>13, <3>1, <3>2, <3>3
  <2>3. rows = {NewEntry}
    BY <2>1, <2>2
  <2>4. Observing(h) = CargoObserve(Asked, a)
    BY <1>4, <1>5, <1>13 DEF ToolchainObserve
  <2> HIDE DEF rows
  <2>5. CargoObserve(Asked, a) =
          Present([package |-> Asked.pkg,
                   version |-> Respelled(Asked, (CHOOSE x \in rows : TRUE).ver),
                   environment |-> Asked.slot])
    BY <1>6, <1>13, <2>1 DEF CargoObserve, Exited0, rows
  <2>6. Observing(h) = Present(r)
    BY <1>4, <1>21, <2>3, <2>4, <2>5
  <2>7. Verifies(c.kind) \subseteq {"package", "version", "environment"}
    BY <1>13 DEF Verifies, ExactVersionKinds
  <2>8. /\ DOMAIN r = {"package", "version", "environment"}
        /\ r["package"] = c.pkg /\ r["version"] = NewEntry.ver
        /\ r["environment"] = c.slot
    OBVIOUS
  <2> HIDE DEF r
  <2>9. Goal(r)
    BY <1>7, <1>10, <1>11, <1>13, <2>6, <2>7, <2>8 DEF SixFields
  <2> QED
    BY <1>3, <2>9
<1>14. CASE c.kind = "go"
  <2> DEFINE built == {x \in b.rows : /\ x.name = InventoryName(Asked)
                                      /\ x.slot = "gobin"}
             r == [package |-> c.pkg, version |-> NewEntry.ver]
  <2>1. /\ NewEntry \in b.rows
        /\ b.ran /\ b.whole /\ b.exit = 0 /\ b.said = "rows"
        /\ b.rows \subseteq h
    BY <1>1, <1>2, <1>14, EntryListed DEF b
  <2>3. NewEntry \in built
    BY <1>4, <1>7, <1>14, <2>1
  <2>4. ASSUME NEW e \in built PROVE e = NewEntry
    <3>1. e \in h /\ e.name = InventoryName(c) /\ e.slot = "gobin"
      BY <1>4, <2>1
    <3> QED
      BY <1>7, <1>9, <1>14, <3>1
  <2>5. built = {NewEntry}
    BY <2>3, <2>4
  <2>6. GoPresent(Asked, a)
    BY <1>4, <1>6, <1>7, <1>14 DEF GoPresent
  <2>7. Observing(h) = GoObserve(Asked, a, b)
    BY <1>4, <1>5, <1>14 DEF ToolchainObserve
  <2> HIDE DEF built
  <2>8. ~\E x \in built : x.pkg # Asked.pkg
    BY <1>4, <1>7, <2>5
  <2>9. GoObserve(Asked, a, b) =
          Present([package |-> Asked.pkg,
                   version |-> Respelled(Asked, (CHOOSE x \in built : TRUE).ver)])
    BY <2>1, <2>3, <2>6, <2>8, Zenon DEF GoObserve, Exited0, built
  <2>10. Observing(h) = Present(r)
    BY <1>4, <1>21, <2>5, <2>7, <2>9
  <2>11. Verifies(c.kind) \subseteq {"package", "version"}
    BY <1>14 DEF Verifies, ExactVersionKinds
  <2>12. /\ DOMAIN r = {"package", "version"}
         /\ r["package"] = c.pkg /\ r["version"] = NewEntry.ver
    OBVIOUS
  <2> HIDE DEF r
  <2>13. Goal(r)
    BY <1>7, <1>10, <1>11, <1>14, <2>10, <2>11, <2>12 DEF SixFields
  <2> QED
    BY <1>3, <2>13
<1>15. CASE c.kind = "nix"
  <2> DEFINE active == {x \in NixMatches(Asked, a) : x.form = "whole"}
             target == Stated([package |-> Asked.pkg, source |-> Asked.src])
             r == [package |-> c.pkg, source |-> c.src]
  <2>1. NewEntry \in active
    BY <1>4, <1>6, <1>7, <1>15 DEF NixMatches
  <2>2. ASSUME NEW e \in active PROVE e = NewEntry
    <3>1. e \in Queried(h, 1) /\ e.pkg = c.pkg /\ e.src = c.src /\ e.form = "whole"
      BY <1>4, <1>6, <1>15 DEF NixMatches
    <3>2. e = NewEntry \/ e \in Queried(host, 1)
      BY <1>15, <3>1, ListedBefore
    <3> QED
      BY <1>15, <3>1, <3>2 DEF Vacant
  <2>3. active = {NewEntry}
    BY <2>1, <2>2
  <2>4. Cardinality(active) = 1 /\ active # {}
    BY <2>3, FS_Singleton
  <2>5. Observing(h) = NixObserve(Asked, a)
    BY <1>4, <1>5, <1>15 DEF ToolchainObserve
  <2> HIDE DEF active
  <2>6. NixObserve(Asked, a) =
          CASE active = {}             -> Observed("absent", target)
            [] Cardinality(active) = 1 -> Observed("present", target)
            [] OTHER -> [Observed("broken", target) EXCEPT !.detail = TRUE]
    BY <1>6, <1>15, Zenon DEF NixObserve, Exited0, active
  <2>7. NixObserve(Asked, a) = Observed("present", Stated(r))
    BY <1>4, <2>4, <2>6
  <2>8. Observing(h) = Present(r)
    BY <2>5, <2>7 DEF Present
  <2>9. Verifies(c.kind) \subseteq {"package", "source"}
    BY <1>15 DEF Verifies, ExactVersionKinds
  <2>10. /\ DOMAIN r = {"package", "source"}
         /\ r["package"] = c.pkg /\ r["source"] = c.src
    OBVIOUS
  <2> HIDE DEF r
  <2>11. Goal(r)
    BY <1>10, <1>11, <1>15, <2>8, <2>9, <2>10 DEF SixFields
  <2> QED
    BY <1>3, <2>11
<1>16. CASE c.kind = "conda"
  <2> DEFINE rows == {x \in a.rows : x.pkg = Asked.pkg}
             r == [package |-> c.pkg, version |-> NewEntry.ver,
                   revision |-> NewEntry.build, source |-> c.src,
                   environment |-> c.slot]
  <2>1. NewEntry \in rows
    BY <1>4, <1>6, <1>7, <1>16
  <2>2. ASSUME NEW e \in rows PROVE e = NewEntry
    <3>1. e \in h /\ e \in Queried(h, 1) /\ e.pkg = c.pkg
      BY <1>4, <1>6, <1>16
    <3>2. e.slot = Confined(c)
      BY <1>16, <3>1 DEF Queried
    <3>3. e.name = c.pkg /\ InventoryName(c) = c.pkg
      BY <1>12, <1>16, <3>1 DEF Plausible, Renaming, RegistryKinds, InventoryName
    <3> QED
      BY <1>7, <1>9, <1>16, <3>1, <3>2, <3>3
  <2>3. rows = {NewEntry}
    BY <2>1, <2>2
  <2>4. Observing(h) = CondaObserve(Asked, a)
    BY <1>4, <1>5, <1>16 DEF ToolchainObserve
  <2> HIDE DEF rows
  <2>5. CondaObserve(Asked, a) =
          LET row == CHOOSE x \in rows : TRUE
          IN Present([package |-> row.pkg, version |-> row.ver,
                      revision |-> row.build, source |-> row.src,
                      environment |-> Asked.slot])
    BY <1>6, <1>16, <2>1, Zenon DEF CondaObserve, Exited0, rows
  <2>6. (CHOOSE x \in rows : TRUE) = NewEntry
    BY <2>3
  <2>7. Observing(h) = Present(r)
    BY <1>4, <1>7, <2>4, <2>5, <2>6
  <2>8. Verifies(c.kind) \subseteq {"package", "version", "environment", "revision"}
    BY <1>16 DEF Verifies, ExactVersionKinds
  <2>9. /\ DOMAIN r = {"package", "version", "revision", "source", "environment"}
        /\ r["package"] = c.pkg /\ r["version"] = NewEntry.ver
        /\ r["revision"] = NewEntry.build /\ r["source"] = c.src
        /\ r["environment"] = c.slot
    OBVIOUS
  <2> HIDE DEF r
  <2>10. Goal(r)
    BY <1>7, <1>10, <1>11, <1>16, <2>7, <2>8, <2>9 DEF SixFields
  <2> QED
    BY <1>3, <2>10
<1>17. CASE c.kind = "sdkman"
  <2> DEFINE r == [package |-> c.pkg, version |-> c.ver]
             versions == {x \in a.rows : x.pkg = Asked.pkg}
             current  == {x \in versions : x.slot = "current"}
             asked    == {x \in versions : x.ver = Asked.ver}
  <2>1. Observing(h) = SdkmanObserve(Asked, a)
    BY <1>4, <1>5, <1>17 DEF ToolchainObserve
  <2>2. NewEntry \in current /\ (c.ver # "" => NewEntry \in asked)
    BY <1>4, <1>6, <1>7, <1>17
  <2>3. SdkmanObserve(Asked, a) =
          IF Asked.ver # "" /\ asked # {}
          THEN Present([package |-> Asked.pkg, version |-> Asked.ver])
          ELSE IF current = {} THEN NothingKnown
          ELSE Present([package |-> Asked.pkg,
                        version |-> IF Asked.ver = "" THEN ""
                                    ELSE (CHOOSE x \in current : TRUE).ver])
    BY Zenon DEF SdkmanObserve
  <2> HIDE DEF versions, current, asked
  <2>6. Observing(h) = Present(r)
    <3>1. CASE c.ver # ""
      BY <1>4, <2>1, <2>2, <2>3, <3>1
    <3>2. CASE c.ver = ""
      BY <1>4, <2>1, <2>2, <2>3, <3>2
    <3> QED
      BY <3>1, <3>2
  <2>7. Verifies(c.kind) \subseteq {"package", "version"}
    BY <1>17 DEF Verifies, ExactVersionKinds
  <2>8. /\ DOMAIN r = {"package", "version"}
        /\ r["package"] = c.pkg /\ r["version"] = c.ver
    OBVIOUS
  <2> HIDE DEF r
  <2>9. Goal(r)
    BY <1>10, <1>11, <1>17, <2>6, <2>7, <2>8 DEF SixFields
  <2> QED
    BY <1>3, <2>9
<1>18. CASE c.kind = "asdf"
  <2> DEFINE r == [package |-> c.pkg, source |-> c.src, version |-> c.ver]
             backend == Holding(Asked, a, b)
  <2>1. /\ c.src = "" => /\ NewEntry \in a.rows /\ a.found /\ Exited0(a)
        /\ c.src # "" => /\ NewEntry \in b.rows /\ b.found /\ Exited0(b)
                         /\ b.said = "rows"
    <3>1. CASE c.src = ""
      <4>1. /\ NewEntry \in Queried(h, 1) /\ Honest(h, 1).rows = Queried(h, 1)
            /\ Honest(h, 1).found /\ Honest(h, 1).ran /\ Honest(h, 1).exit = 0
        <5> DEFINE q == 1
        <5>1. /\ c.kind = "asdf" /\ c.src = "" => q = 1
              /\ c.kind = "asdf" /\ c.src # "" => q # 1
          BY <3>1
        <5> HIDE DEF q
        <5>2. /\ NewEntry \in Queried(h, q) /\ Honest(h, q).rows = Queried(h, q)
              /\ Honest(h, q).found /\ Honest(h, q).ran /\ Honest(h, q).exit = 0
          BY <1>1, <5>1, EntryListed
        <5> QED
          BY <5>2 DEF q
      <4> QED
        BY <3>1, <4>1 DEF a, Exited0
    <3>2. CASE c.src # ""
      <4>1. Questions # 1
        BY <1>2, <1>18
      <4>2. /\ NewEntry \in Queried(h, Questions)
            /\ Honest(h, Questions).rows = Queried(h, Questions)
            /\ Honest(h, Questions).found /\ Honest(h, Questions).ran
            /\ Honest(h, Questions).exit = 0 /\ Honest(h, Questions).said = "rows"
        BY <1>1, <3>2, <4>1, EntryListed
      <4> QED
        BY <3>2, <4>2 DEF b, Exited0
    <3> QED
      BY <3>1, <3>2
  <2>2. /\ c.src = "" => backend = "asdf" /\ NewEntry \in AsdfVersions(Asked, backend, a, b)
        /\ c.src # "" => backend = "mise" /\ NewEntry \in AsdfVersions(Asked, backend, a, b)
    <3> DEFINE holds(n) == /\ n \in Backends(Asked, a, b)
                           /\ AsdfAnswered(n, a, b)
                           /\ AsdfVersions(Asked, n, a, b) # {}
    <3>1. CASE c.src = ""
      <4>1. /\ "asdf" \in Backends(Asked, a, b) /\ AsdfAnswered("asdf", a, b)
            /\ NewEntry \in AsdfVersions(Asked, "asdf", a, b)
        BY <1>4, <1>7, <2>1, <3>1 DEF Backends, AsdfAnswered, AsdfAnswer, AsdfVersions
      <4>2. holds("asdf")
        BY <4>1
      <4>3. backend = "asdf"
        BY <4>2, Zenon DEF Holding
      <4> QED
        BY <3>1, <4>1, <4>3
    <3>2. CASE c.src # ""
      <4>1. /\ "mise" \in Backends(Asked, a, b) /\ AsdfAnswered("mise", a, b)
            /\ NewEntry \in AsdfVersions(Asked, "mise", a, b)
        BY <1>4, <1>7, <2>1, <3>2 DEF Backends, AsdfAnswered, AsdfAnswer, AsdfVersions
      <4>2. holds("mise")
        BY <4>1
      <4>3. ~holds("asdf")
        BY <1>4, <3>2 DEF Backends
      <4>4. backend = "mise"
        BY <4>2, <4>3, Zenon DEF Holding
      <4> QED
        BY <3>2, <4>1, <4>4
    <3> QED
      BY <3>1, <3>2
  <2>3. backend # "" /\ NewEntry \in AsdfVersions(Asked, backend, a, b)
    BY <2>2
  <2>4. Observing(h) = AsdfObserve(Asked, a, b)
    BY <1>4, <1>5, <1>18 DEF ToolchainObserve
  <2> DEFINE versions == {x.ver : x \in AsdfVersions(Asked, backend, a, b)}
             observed == IF Asked.ver \in versions THEN Asked.ver
                         ELSE CHOOSE v \in versions : TRUE
  <2>5. AsdfObserve(Asked, a, b) =
          Present([package |-> Asked.pkg, source |-> Asked.src,
                   version |-> IF Asked.ver = "" THEN "" ELSE observed])
    BY <2>3, Zenon DEF AsdfObserve
  <2>6. c.ver # "" => observed = c.ver
    BY <1>4, <1>7, <2>3
  <2> HIDE DEF observed
  <2>7. (IF Asked.ver = "" THEN "" ELSE observed) = c.ver
    BY <1>4, <2>6
  <2>8. Observing(h) = Present(r)
    BY <1>4, <2>4, <2>5, <2>7
  <2>9. Verifies(c.kind) \subseteq {"package", "version", "source"}
    BY <1>18 DEF Verifies, ExactVersionKinds
  <2>10. /\ DOMAIN r = {"package", "version", "source"}
         /\ r["package"] = c.pkg /\ r["version"] = c.ver /\ r["source"] = c.src
    OBVIOUS
  <2> HIDE DEF r
  <2>11. Goal(r)
    BY <1>10, <1>11, <1>18, <2>8, <2>9, <2>10 DEF SixFields
  <2> QED
    BY <1>3, <2>11
<1>19. CASE c.kind \in {"aur", "pacstall", "yarn-berry"}
  <2> DEFINE r == [package |-> c.pkg]
  <2>1. Observing(h) = Present(r)
    BY <1>4, <1>5, <1>6, <1>19
    DEF ToolchainObserve, AurObserve, QuietObserve, Exited0
  <2>2. Verifies(c.kind) \subseteq {"package"}
    BY <1>19 DEF Verifies, ExactVersionKinds
  <2>3. DOMAIN r = {"package"} /\ r["package"] = c.pkg
    OBVIOUS
  <2> HIDE DEF r
  <2>4. Goal(r)
    BY <1>10, <1>11, <2>1, <2>2, <2>3 DEF SixFields
  <2> QED
    BY <1>3, <2>4
<1>20. CASE c.kind \in {"scoop", "choco"}
  <2> DEFINE r == [package |-> c.pkg, version |-> NewEntry.ver,
                   source |-> c.src, scope |-> c.slot]
             s == [package |-> c.pkg, version |-> NewEntry.ver]
             rows == Rows(Asked, a)
             knownS == [row \in Rows(Asked, a) |->
                  [package |-> Asked.pkg, version |-> row.ver,
                   source |-> row.src, scope |-> Asked.slot]]
             knownC == [row \in Rows(Asked, a) |->
                      [package |-> Asked.pkg, version |-> row.ver]]
  <2>1. NewEntry \in rows
    BY <1>4, <1>6, <1>7, <1>20 DEF Rows
  <2>2. ASSUME NEW e \in rows PROVE e = NewEntry
    <3>1. e \in h /\ e \in Queried(h, 1) /\ e.name = InventoryName(c)
      BY <1>4, <1>6, <1>20 DEF Rows
    <3>2. CASE c.kind = "choco"
      <4>1. c.kind \notin Slotted
        BY <3>2 DEF Slotted, NativeKinds, ClanOfManager
      <4> QED
        BY <1>7, <1>9, <3>1, <3>2, <4>1
    <3>3. CASE c.kind = "scoop"
      <4>1. e = NewEntry \/ e \in Queried(host, 1)
        BY <3>1, <3>3, ListedBefore
      <4> QED
        BY <3>1, <3>3, <4>1 DEF Vacant
    <3> QED
      BY <1>20, <3>2, <3>3
  <2>3. rows = {NewEntry}
    BY <2>1, <2>2
  <2> HIDE DEF rows
  <2>4. (CHOOSE x \in rows : TRUE) = NewEntry /\ rows # {}
    BY <2>3
  <2>5. /\ ScoopObserve(Asked, a) = ListedOnWindows(Asked, a, knownS)
        /\ ChocoObserve(Asked, a, b) = ListedOnWindows(Asked, a, knownC)
    <3>1. ScoopObserve(Asked, a) = ListedOnWindows(Asked, a, knownS)
      BY <1>6, <1>20, Zenon DEF ScoopObserve, Exited0
    <3>2. Exited0(a) /\ \E x \in Rows(Asked, a) : x.ver # ""
      BY <1>6, <1>7, <1>20, <2>1 DEF Exited0, rows
    <3>3. ChocoObserve(Asked, a, b) = ListedOnWindows(Asked, a, knownC)
      BY <3>2, Zenon DEF ChocoObserve
    <3> QED
      BY <3>1, <3>3
  <2>6. NewEntry \in Rows(Asked, a)
    BY <2>1 DEF rows
  <2>7. /\ knownS[NewEntry] = r
        /\ knownC[NewEntry] = s
    BY <1>4, <1>7, <2>6
  <2> HIDE DEF knownS, knownC, r, s
  <2>8. \A known : ListedOnWindows(Asked, a, known) = Present(known[NewEntry])
    <3> TAKE known
    <3>1. ListedOnWindows(Asked, a, known) =
            IF rows = {} THEN NothingKnown
            ELSE IF (CHOOSE x \in rows : TRUE).ver = ""
                   THEN [Observed("broken", Nothing) EXCEPT !.detail = TRUE]
            ELSE Present(known[CHOOSE x \in rows : TRUE])
      BY Zenon DEF ListedOnWindows, rows
    <3> QED
      BY <1>7, <2>4, <3>1
  <2>9. CASE c.kind = "scoop"
    <3>1. Observing(h) = Present(r)
      BY <1>4, <1>5, <2>5, <2>7, <2>8, <2>9 DEF ToolchainObserve
    <3>2. Verifies(c.kind) \subseteq {"package", "version", "scope"}
      BY <2>9 DEF Verifies, ExactVersionKinds
    <3>3. /\ DOMAIN r = {"package", "version", "source", "scope"}
          /\ r["package"] = c.pkg /\ r["version"] = NewEntry.ver
          /\ r["source"] = c.src /\ r["scope"] = c.slot
      BY DEF r
    <3>4. ScopeOf(c) = c.slot
      BY <2>9 DEF ScopeOf
    <3>5. Goal(r)
      BY <1>7, <1>10, <1>11, <2>9, <3>1, <3>2, <3>3, <3>4 DEF SixFields
    <3> QED
      BY <1>3, <3>5
  <2>10. CASE c.kind = "choco"
    <3>1. Observing(h) = Present(s)
      BY <1>4, <1>5, <2>5, <2>7, <2>8, <2>10 DEF ToolchainObserve
    <3>2. Verifies(c.kind) \subseteq {"package", "version"}
      BY <2>10 DEF Verifies, ExactVersionKinds
    <3>3. /\ DOMAIN s = {"package", "version"}
          /\ s["package"] = c.pkg /\ s["version"] = NewEntry.ver
      BY DEF s
    <3>4. Goal(s)
      BY <1>7, <1>10, <1>11, <2>10, <3>1, <3>2, <3>3 DEF SixFields
    <3> QED
      BY <1>3, <3>4
  <2> QED
    BY <1>20, <2>9, <2>10
<1> QED
  BY <1>13, <1>14, <1>15, <1>16, <1>17, <1>18, <1>19, <1>20
  DEF OwnObserve, Vacant

LEMMA NativeShows ==
  ASSUME c \in Candidate, c.kind \in NativeKinds, Recognisable(c),
         Vacant(host), NEW h, After(h)
  PROVE  Shows(Observing(h)) /\ Confirmed(h)
<1> DEFINE a == Honest(h, 1)
           b == Honest(h, Questions)
           only == [package |-> c.pkg]
<1>1. /\ Asked.kind = c.kind /\ Asked.pkg = c.pkg /\ Asked.src = c.src
      /\ InventoryName(c) = c.pkg /\ Want["version"] = c.ver
      /\ c.kind \notin OwnObserve \cup {"asdf", "sdkman", "go", "nix", "gem"}
  BY AskedIs, AskedVersion
  DEF InventoryName, NativeKinds, ClanOfManager, RegistryKinds, LockedKinds,
      OwnObserve
<1>2. Observing(h) = NativeObserve(Asked, a, b)
  BY <1>1 DEF Observing
<1>3. /\ NewEntry \in Queried(h, 1)
      /\ a.found /\ a.ran /\ a.whole /\ a.exit = 0 /\ a.said = "rows"
      /\ a.rows = Queried(h, 1) /\ a.rows \subseteq h
  <2> HIDE DEF b
  <2> DEFINE q == 1
  <2>1. q # 2 /\ (c.kind = "asdf" => q = 1)
    OBVIOUS
  <2> HIDE DEF q, a
  <2>2. /\ NewEntry \in Queried(h, q)
        /\ Honest(h, q).found /\ Honest(h, q).ran /\ Honest(h, q).whole
        /\ Honest(h, q).exit = 0 /\ Honest(h, q).said = "rows"
        /\ Honest(h, q).rows = Queried(h, q)
        /\ Queried(h, q) \subseteq h
    BY <1>1, <2>1, EntryListed
  <2> QED
    BY <2>2 DEF q, a
<1>4. /\ NewEntry.name = c.pkg /\ NewEntry.pkg = c.pkg
      /\ NewEntry.src = c.src /\ NewEntry.form = "whole"
      /\ NewEntry.ver # "" /\ NewEntry.ver \in Told
      /\ c.ver # "" => NewEntry.ver = c.ver
      /\ NewEntry.slot = Confined(c)
  BY <1>1, EntryIs
<1>5. AskedByName /\ \A e \in a.rows : e.name = c.pkg
  <2>1. AskedByName
    BY DEF AskedByName
  <2> QED
    BY <1>1, <1>3, <2>1 DEF Queried
<1>6. ASSUME NEW e \in a.rows, c.kind \in Slotted => e.slot = Confined(c)
      PROVE  e = NewEntry
  <2>1. c.kind \notin SideBySide \cup {"nix"}
    BY <1>1 DEF SideBySide
  <2> QED
    BY <1>3, <1>4, <1>5, <1>6, <2>1, OnlyEntry
<1>7. Family(c.kind) \in {"dpkg", "rpm", "port", "winget", "status"}
  BY DEF Family
<1>8. /\ only["package"] = c.pkg /\ DOMAIN only = {"package"}
      /\ ThisPackage(Asked) = Observed("present", Stated(only))
  BY <1>1 DEF ThisPackage
<1>9. \A known : /\ Observed("present", known).presence = "present"
                 /\ Observed("present", known).err = FALSE
                 /\ Observed("present", known).known = known
  BY DEF Observed
<1>10. /\ Want["package"] = c.pkg /\ Want["version"] = c.ver
       /\ c.kind = "winget" => Want["source"] = c.src
       /\ {c.pkg, c.src} \subseteq Told
  BY <1>1 DEF Want, Told
<1> HIDE DEF a, b, only
<1>11. ASSUME Observing(h) = ThisPackage(Asked), c.kind # "winget"
       PROVE  Shows(Observing(h))
  <2>1. Verifies(c.kind) \subseteq {"package"}
    BY <1>1, <1>11 DEF Verifies, ExactVersionKinds, NativeKinds, ClanOfManager
  <2>2. Observing(h).known = Stated(only)
    BY <1>8, <1>9, <1>11
  <2>3. Observing(h).presence = "present" /\ Observing(h).err = FALSE
    BY <1>8, <1>9, <1>11
  <2>4. /\ DOMAIN only \subseteq SixFields
        /\ \A f \in DOMAIN only : only[f] \in Told
        /\ \A f \in Verifies(c.kind) : Want[f] # "" => f \in DOMAIN only /\ only[f] = Want[f]
    BY <1>8, <1>10, <2>1 DEF SixFields
  <2> QED
    BY <2>2, <2>3, <2>4, ShowsWanted
<1>12. CASE HasDatabase(c.kind)
  <2>1. \/ c.kind = "apt" /\ Family(c.kind) = "dpkg"
        \/ /\ c.kind \in {"dnf", "dnf5", "yum", "zypper"}
           /\ Family(c.kind) = "rpm"
    BY <1>12, DatabaseKinds
  <2>2. Questions = 2
    BY <1>12 DEF Questions
  <2>3. b = Listing({})
    BY <1>12, <2>2, HonestAnswer DEF b
  <2>4. b.ran /\ b.whole /\ SentinelFound(b)
    BY <2>3, ListingIs DEF SentinelFound
  <2>5. a.rows = {NewEntry}
    <3> SUFFICES ASSUME NEW e \in a.rows PROVE e = NewEntry
      BY <1>3
    <3>1. e = NewEntry \/ e \in Queried(host, 1)
      <4>1. e \in Queried(h, 1) /\ c.kind # "sdkman"
        BY <1>1, <1>3
      <4> QED
        BY <4>1, ListedBefore
    <3>2. CASE e \in Queried(host, 1)
      <4>1. e.slot = Confined(c)
        BY <1>12, <3>2 DEF Vacant
      <4> QED
        BY <1>6, <4>1
    <3> QED
      BY <3>1, <3>2
  <2>6. OneRecord(Asked, a) /\ OneRecord(c, a)
    BY <1>1, <1>3, <1>4, <2>5 DEF OneRecord
  <2>7. /\ DatabaseReading(Asked, a, b) = "present"
        /\ DatabaseReading(c, a, b) = "present"
    <3>1. CASE Family(c.kind) = "dpkg"
      <4>1. \A x : OneRecord(x, a) => DpkgReading(x, a, b) = "present"
        <5>1. /\ \E x \in a.rows : x.form = "whole"
              /\ ~\E x \in a.rows : x.form = "leftover"
          BY <1>4, <2>5
        <5> QED
          BY <1>3, <2>4, <5>1 DEF DpkgReading
      <4> QED
        BY <1>1, <2>6, <3>1, <4>1 DEF DatabaseReading
    <3>2. CASE Family(c.kind) = "rpm"
      <4>1. \A x : OneRecord(x, a) => RpmReading(x, a, b) = "present"
        BY <1>3, <2>4 DEF RpmReading
      <4> QED
        BY <1>1, <2>6, <3>2, <4>1 DEF DatabaseReading
    <3> QED
      BY <2>1, <3>1, <3>2
  <2>8. Complete(a) /\ Complete(b)
    BY <1>3, <2>4 DEF Complete
  <2>9. Observing(h) = ThisPackage(Asked)
    BY <1>1, <1>2, <1>12, <2>7, <2>8 DEF NativeObserve, HasDatabase, DatabaseObserve
  <2>10. VerifyNativeInstall(c, a, b)
    BY <1>12, <2>7, <2>8 DEF VerifyNativeInstall, HasDatabase
  <2>11. c.kind # "winget"
    BY <2>1
  <2> QED
    BY <1>11, <2>9, <2>10, <2>11 DEF Confirmed, a, b
<1>13. CASE Family(c.kind) = "port"
  <2>1. PortInstalled(a) /\ Complete(a) /\ a.ran /\ a.whole
    BY <1>3, <1>4 DEF PortInstalled, Complete
  <2>2. c.kind # "winget"
    BY <1>13 DEF Family, ClanOfManager, IsDpkgClan, IsRpmClan
  <2>3. Observing(h) = ThisPackage(Asked)
    BY <1>1, <1>2, <1>3, <1>13, <2>1 DEF NativeObserve, HasDatabase, PortObserve
  <2>4. VerifyNativeInstall(c, a, b)
    BY <1>3, <1>13, <2>1 DEF VerifyNativeInstall, HasDatabase
  <2> QED
    BY <1>11, <2>2, <2>3, <2>4 DEF Confirmed, a, b
<1>14. CASE Family(c.kind) = "status"
  <2>1. c.kind # "winget"
    BY <1>14 DEF Family, ClanOfManager, IsDpkgClan, IsRpmClan
  <2>2. Observing(h) = ThisPackage(Asked)
    BY <1>1, <1>2, <1>3, <1>14 DEF NativeObserve, HasDatabase, StatusObserve
  <2>3. VerifyNativeInstall(c, a, b)
    BY <1>3, <1>14 DEF VerifyNativeInstall, HasDatabase
  <2> QED
    BY <1>11, <2>1, <2>2, <2>3 DEF Confirmed, a, b
<1>15. CASE Family(c.kind) = "winget"
  <2> DEFINE rows == {x \in a.rows : x.pkg = Asked.pkg
                                      /\ Asked.src \in {"", x.src}}
             r == [package |-> c.pkg, version |-> NewEntry.ver,
                   source |-> c.src]
  <2>1. c.kind = "winget"
    BY <1>15 DEF Family, NativeKinds, ClanOfManager, IsDpkgClan, IsRpmClan
  <2>2. c.kind \notin Slotted
    BY <1>15, <2>1 DEF Slotted, HasDatabase
  <2>3. rows = {NewEntry}
    BY <1>1, <1>3, <1>4, <1>6, <2>2
  <2> HIDE DEF rows
  <2>4. (CHOOSE x \in rows : TRUE) = NewEntry
    BY <2>3
  <2>5. Observing(h) = WingetObserve(Asked, a)
    BY <1>1, <1>2, <1>15 DEF NativeObserve, HasDatabase
  <2>6. WingetObserve(Asked, a) =
          Observed("present", Stated([package |-> Asked.pkg,
                    version |-> (CHOOSE x \in rows : TRUE).ver,
                    source |-> (CHOOSE x \in rows : TRUE).src]))
    BY <1>3, <2>3, Zenon DEF WingetObserve, rows
  <2>7. Observing(h) = Observed("present", Stated(r))
    BY <1>1, <1>4, <2>4, <2>5, <2>6
  <2>8. Verifies(c.kind) \subseteq {"package", "version", "source"}
    BY <2>1 DEF Verifies, ExactVersionKinds
  <2>9. /\ DOMAIN r = {"package", "version", "source"}
        /\ r["package"] = c.pkg /\ r["version"] = NewEntry.ver
        /\ r["source"] = c.src
    OBVIOUS
  <2> HIDE DEF r
  <2>10. /\ DOMAIN r \subseteq SixFields
         /\ \A f \in DOMAIN r : r[f] \in Told
         /\ \A f \in Verifies(c.kind) : Want[f] # "" => f \in DOMAIN r /\ r[f] = Want[f]
    BY <1>4, <1>10, <2>1, <2>8, <2>9 DEF SixFields
  <2>11. Shows(Observing(h))
    BY <1>9, <2>7, <2>10, ShowsWanted
  <2>12. ~LooksUpInstall(c.kind)
    BY <1>15 DEF LooksUpInstall
  <2> QED
    BY <2>11, <2>12 DEF Confirmed
<1> QED
  BY <1>7, <1>12, <1>13, <1>14, <1>15 DEF HasDatabase

\* A host on which the candidate was found absent holds nothing that makes
\* what an installation leaves ambiguous.
LEMMA AbsentIsVacant ==
  ASSUME c \in Candidate, \A e \in host : Neat(c, e),
         Judged(host).state = "absent"
  PROVE  Vacant(host)
<1> DEFINE a   == Honest(host, 1)
           b   == Honest(host, Questions)
           obs == Observing(host)
<1>1. /\ Asked.kind = c.kind /\ Asked.pkg = c.pkg /\ Asked.src = c.src
      /\ InventoryName(Asked) = InventoryName(c)
  BY AskedIs
<1>2. obs.presence = "absent" /\ ~obs.err
  <2>1. ObserveResolvedCandidate(obs).presence = "absent"
    BY AbsentWasSaid DEF Judged, VerifyResolvedCandidate
  <2> HIDE DEF obs
  <2> QED
    BY <2>1 DEF ObserveResolvedCandidate
<1>3. c.kind \in OwnObserve => c.kind \notin NativeKinds
  BY DEF OwnObserve, NativeKinds, ClanOfManager
<1>4. c.kind \in OwnObserve => obs = ToolchainObserve(Asked, a, b)
  BY <1>3 DEF Observing
<1>5. c.kind # "steamcmd"
  <2> SUFFICES ASSUME c.kind = "steamcmd" PROVE FALSE
    OBVIOUS
  <2>1. obs = Unclear
    BY <1>1, <1>4 DEF OwnObserve, ToolchainObserve
  <2> QED
    BY <1>2, <2>1, NotPresent
<1>6. ASSUME NEW e \in Queried(host, 1)
      PROVE  /\ a.found /\ a.ran /\ a.whole /\ a.exit = 0 /\ a.said = "rows"
             /\ a.rows = Queried(host, 1)
  <2> DEFINE q == 1
  <2>1. q # 2
    OBVIOUS
  <2> HIDE DEF q, a, b, obs
  <2>2. q = 1
    BY DEF q
  <2>3. /\ Honest(host, q).found /\ Honest(host, q).ran /\ Honest(host, q).whole
        /\ Honest(host, q).exit = 0 /\ Honest(host, q).said = "rows"
        /\ Honest(host, q).rows = Queried(host, q)
    BY <1>6, <2>1, <2>2, HonestLists
  <2> QED
    BY <2>3 DEF q, a
<1> HIDE DEF a, b, obs
<1>7. ASSUME c.kind = "nix", NEW e \in Queried(host, 1),
             e.pkg = c.pkg, e.src = c.src, e.form = "whole"
      PROVE  FALSE
  <2> DEFINE active == {x \in NixMatches(Asked, a) : x.form = "whole"}
             target == Stated([package |-> Asked.pkg, source |-> Asked.src])
  <2>1. /\ a.found /\ a.ran /\ a.whole /\ a.exit = 0 /\ a.said = "rows"
        /\ a.rows = Queried(host, 1)
    BY <1>6, <1>7
  <2>2. e \in active
    BY <1>1, <1>7, <2>1 DEF NixMatches
  <2>3. obs = NixObserve(Asked, a)
    BY <1>1, <1>4, <1>7 DEF OwnObserve, ToolchainObserve
  <2> HIDE DEF active
  <2>4. NixObserve(Asked, a) =
          CASE active = {}             -> Observed("absent", target)
            [] Cardinality(active) = 1 -> Observed("present", target)
            [] OTHER -> [Observed("broken", target) EXCEPT !.detail = TRUE]
    BY <2>1, Zenon DEF NixObserve, Exited0, active
  <2> HIDE DEF target
  <2>5. obs \in {Observed("present", target),
                 [Observed("broken", target) EXCEPT !.detail = TRUE]}
    BY <2>2, <2>3, <2>4
  <2> QED
    BY <1>2, <2>5, NotPresent
<1>8. ASSUME c.kind = "scoop", NEW e \in Queried(host, 1),
             e.name = InventoryName(c)
      PROVE  FALSE
  <2> DEFINE rows == Rows(Asked, a)
  <2>1. /\ a.found /\ a.ran /\ a.whole /\ a.exit = 0 /\ a.said = "rows"
        /\ a.rows = Queried(host, 1)
    BY <1>6, <1>8
  <2>2. e \in rows
    BY <1>1, <1>8, <2>1 DEF Rows
  <2>3. obs = ScoopObserve(Asked, a)
    BY <1>1, <1>4, <1>8 DEF OwnObserve, ToolchainObserve
  <2>4. PICK known : ScoopObserve(Asked, a) = ListedOnWindows(Asked, a, known)
    BY <2>1 DEF ScoopObserve, Exited0
  <2>5. ListedOnWindows(Asked, a, known) =
          IF rows = {} THEN NothingKnown
          ELSE IF (CHOOSE x \in rows : TRUE).ver = ""
                 THEN [Observed("broken", Nothing) EXCEPT !.detail = TRUE]
          ELSE Present(known[CHOOSE x \in rows : TRUE])
    BY Zenon DEF ListedOnWindows
  <2> HIDE DEF rows
  <2>6. \/ obs = [Observed("broken", Nothing) EXCEPT !.detail = TRUE]
        \/ obs = Present(known[CHOOSE x \in rows : TRUE])
    BY <2>2, <2>3, <2>4, <2>5
  <2> QED
    BY <1>2, <2>6, NotPresent DEF Present
<1>9. ASSUME c.kind \in NativeKinds, HasDatabase(c.kind),
             NEW e \in Queried(host, 1)
      PROVE  e.slot = Confined(c)
  <2>1. /\ a.exit = 0 /\ a.said = "rows" /\ a.rows = Queried(host, 1)
    BY <1>6, <1>9
  <2>2. obs = NativeObserve(Asked, a, b)
    BY <1>3, <1>9 DEF Observing, obs, a, b
  <2>3. obs = DatabaseObserve(Asked, a, b)
    BY <1>1, <1>9, <2>2 DEF NativeObserve, HasDatabase
  <2>4. DatabaseReading(Asked, a, b) = "absent"
    <3>1. ThisPackage(Asked).presence = "present"
      BY NotPresent DEF ThisPackage
    <3> QED
      BY <1>2, <2>3, <3>1, NotPresent DEF DatabaseObserve
  <2>5. Family(c.kind) \in {"dpkg", "rpm"}
    BY <1>9 DEF HasDatabase
  <2>6. CASE Family(c.kind) = "rpm"
    <3>1. RpmReading(Asked, a, b) = "absent"
      BY <1>1, <2>4, <2>6 DEF DatabaseReading
    <3>2. a.exit = 1
      BY <3>1 DEF RpmReading
    <3> QED
      BY <2>1, <3>2
  <2>7. CASE Family(c.kind) = "dpkg"
    <3>1. DpkgReading(Asked, a, b) = "absent"
      BY <1>1, <2>4, <2>7 DEF DatabaseReading
    <3>2. OneRecord(Asked, a) /\ \E r \in a.rows : r.form = "leftover"
      BY <2>1, <3>1 DEF DpkgReading
    <3>3. e.form = "leftover"
      BY <1>9, <2>1, <3>2 DEF OneRecord
    <3>4. e \in host
      BY <1>9 DEF Queried
    <3> QED
      BY <1>9, <3>3, <3>4 DEF Neat
  <2> QED
    BY <2>5, <2>6, <2>7
<1> QED
  BY <1>5, <1>7, <1>8, <1>9 DEF Vacant

\* An installation that began on an absence leaves what the plan wants, and
\* what the manager is looked up for.
LEMMA InstallationShows ==
  ASSUME c \in Candidates, Recognisable(c), \A e \in host : Sound(e),
         \A e \in host : Neat(c, e), Judged(host).state = "absent"
  PROVE  Judged(Done).state = "satisfied" /\ Confirmed(Done)
<1>1. c \in Candidate
  BY CandidateIs
<1>2. After(Done) /\ Vacant(host)
  BY <1>1, DoneAfter, AbsentIsVacant
<1>3. c.kind \in OwnObserve => c.kind \notin NativeKinds
  BY DEF OwnObserve, NativeKinds, ClanOfManager
<1>4. c.kind \notin NativeKinds => Confirmed(Done)
  BY DEF Confirmed, LooksUpInstall
<1>5. Shows(Observing(Done)) /\ Confirmed(Done)
  <2>1. CASE c.kind \in OwnObserve
    BY <1>1, <1>2, <1>3, <1>4, <2>1, ToolchainShows
  <2>2. CASE c.kind \in NativeKinds
    BY <1>1, <1>2, <2>2, NativeShows
  <2>3. CASE c.kind \notin OwnObserve \cup NativeKinds
    BY <1>1, <1>2, <1>4, <2>3, BaseShows
  <2> QED
    BY <2>1, <2>2, <2>3
<1> QED
  BY <1>5, ShownSatisfies

\* What the adapter is told, and what is made of it, is a matter of the
\* candidate and of the host alone.
LEMMA JudgedStays ==
  ASSUME c' = c
  PROVE  /\ \A h : Judged(h)' = Judged(h)
         /\ \A h : Confirmed(h)' <=> Confirmed(h)
<1>1. AskedByName' = AskedByName
  BY Zenon DEF AskedByName
<1>2. \A h, q : Queried(h, q)' = Queried(h, q)
  <2> SUFFICES ASSUME NEW h, NEW q
               PROVE  Queried(h, q)' = Queried(h, q)
    OBVIOUS
  <2> QED
    BY <1>1, Zenon DEF Queried
<1>3. \A h, q : Honest(h, q)' = Honest(h, q)
  BY <1>1, <1>2 DEF Honest
<1>4. Questions' = Questions
  BY DEF Questions
<1>5. Plan' = Plan
  BY DEF Plan
<1>6. Asked' = Asked
  BY <1>5 DEF Asked
<1>7. \A h : Observing(h)' = Observing(h)
  <2> SUFFICES ASSUME NEW h PROVE Observing(h)' = Observing(h)
    OBVIOUS
  <2>1. Honest(h, 1)' = Honest(h, 1) /\ Honest(h, Questions)' = Honest(h, Questions)
    BY <1>3, <1>4
  <2> QED
    BY <1>6, <2>1 DEF Observing
<1>8. \A h : Judged(h)' = Judged(h)
  BY <1>5, <1>7 DEF Judged
<1>9. \A h : Confirmed(h)' <=> Confirmed(h)
  <2> SUFFICES ASSUME NEW h PROVE Confirmed(h)' <=> Confirmed(h)
    OBVIOUS
  <2>1. Honest(h, 1)' = Honest(h, 1) /\ Honest(h, Questions)' = Honest(h, Questions)
    BY <1>3, <1>4
  <2> QED
    BY <2>1 DEF Confirmed
<1> QED
  BY <1>8, <1>9

\* Nothing has gone wrong so far, and nobody else was about.
Clean == left.faults = MaxFaults /\ left.outsiders = MaxOutsiders

Budget ==
  /\ left \in [{"commands", "faults", "outsiders"} -> Nat]
  /\ left.faults <= MaxFaults /\ left.outsiders <= MaxOutsiders

\* What an honest manager has told so far is what its host still holds: an
\* installation goes ahead on an absence, and leaves what is asked for next, of
\* a candidate and on a host that can be confirmed.
HonestSoFar ==
  Clean =>
    /\ doubt = "none"
    /\ stage \in Asking => \A i \in 1 .. Len(seen) : seen[i] = host
    /\ stage = "install" => Judged(host).state = "absent"
    /\ stage = "confirm" => LooksUpInstall(c.kind)
    /\ Confirmable =>
         /\ outcome # "failed"
         /\ stage \in {"confirm", "verify"} =>
              Judged(host).state = "satisfied" /\ Confirmed(host)

\* An answer in which nothing is wrong is the manager's own.
LEMMA HonestVerdict ==
  ASSUME ReadingInv, HonestSoFar, Clean, stage \in Asking, Answered
  PROVE  /\ A = Honest(host, 1) /\ B = Honest(host, Questions)
         /\ Verdict = Judged(host)
<1>1. Read /\ {1, Questions} \subseteq DOMAIN seen
  BY AnsweredRead
<1>2. doubt = "none" /\ \A i \in 1 .. Len(seen) : seen[i] = host
  BY DEF HonestSoFar
<1>3. DOMAIN seen = 1 .. Len(seen)
  <2>1. seen \in Seq(SUBSET Entry)
    BY DEF ReadingInv
  <2> QED
    BY <2>1
<1>4. seen[1] = host /\ seen[Questions] = host
  BY <1>1, <1>2, <1>3
<1>5. A \in Answer(host, 1, "none") /\ B \in Answer(host, Questions, "none")
  BY <1>1, <1>2, <1>4 DEF Read
<1>6. A = Honest(host, 1) /\ B = Honest(host, Questions)
  BY <1>5, AnswerIs
<1>7. Observation = Observing(host)
  BY <1>6 DEF Observation, Observing
<1> QED
  BY <1>6, <1>7 DEF Verdict, Judged

LEMMA InitHonest == Init => Budget /\ HonestSoFar
<1> SUFFICES ASSUME Init PROVE Budget /\ HonestSoFar
  OBVIOUS
<1>1. left = [commands |-> MaxCommands, faults |-> MaxFaults,
              outsiders |-> MaxOutsiders]
  BY DEF Init
<1>2. Budget
  BY <1>1, BoundsAssumption DEF Budget
<1>3. stage = "idle" /\ outcome = "" /\ doubt = "none"
  BY DEF Init
<1>4. HonestSoFar
  BY <1>3 DEF HonestSoFar, Asking
<1> QED
  BY <1>2, <1>4

\* An entry that is in the way of another architecture's package stays there
\* when the package is installed.
LEMMA NeatBefore ==
  ASSUME c \in Candidates, \A e \in host : Sound(e),
         \A e \in Done : Neat(c, e)
  PROVE  \A e \in host : Neat(c, e)
<1> SUFFICES ASSUME NEW e \in host, c.kind \in NativeKinds,
                    HasDatabase(c.kind), e.form = "leftover"
             PROVE  e.slot = Confined(c)
  BY DEF Neat
<1>1. c.kind \notin {"sdkman", "go", "asdf"} /\ c.kind \in Slotted
  BY DEF Slotted, NativeKinds, ClanOfManager
<1>2. CASE Place(e) = Place(NewEntry)
  <2>1. NewEntry.slot = Confined(c)
    BY <1>1, CandidateIs, EntryIs
  <2>2. e.slot = NewEntry.slot
    BY <1>1, <1>2 DEF Place
  <2> QED
    BY <2>1, <2>2
<1>3. CASE Place(e) # Place(NewEntry)
  <2>1. e \in Done
    BY <1>1, <1>3, DoneAfter
  <2> QED
    BY <2>1 DEF Neat
<1> QED
  BY <1>2, <1>3

\* The bounds only shrink, and what goes wrong shows in them.
LEMMA NextBudget ==
  ASSUME Budget, [Next]_vars
  PROVE  /\ Budget'
         /\ Clean' => /\ Clean
                      /\ left.faults = left'.faults
                      /\ left.outsiders = left'.outsiders
<1>1. ASSUME NEW what \in {"commands", "faults", "outsiders"}, Spend(what)
      PROVE  /\ Budget'
             /\ what = "commands" => left'.faults = left.faults
                                     /\ left'.outsiders = left.outsiders
             /\ what \in {"faults", "outsiders"} => ~Clean'
  BY <1>1, BoundsAssumption DEF Spend, Budget, Clean
<1>2. \/ left' = left
      \/ \E what \in {"commands", "faults", "outsiders"} : Spend(what)
  BY DEF Next, vars, StartInstall, StartRemoval, Start, Ask,
     GateAlreadyInstalled, InstallResolved, ConfirmNativeInstall,
     VerifyInstalled, DecideRemoval, RemoveResolved, Outsider
<1>3. CASE left' = left
  BY <1>3 DEF Budget, Clean
<1> QED
  BY <1>1, <1>2, <1>3 DEF Clean

LEMMA NextHonest ==
  ASSUME ReadingInv, Budget, HonestSoFar, [Next]_vars
  PROVE  HonestSoFar'
<1>1. c' = c
  BY CandidateStays
<1>2. /\ \A h : Judged(h)' = Judged(h)
      /\ \A h : Confirmed(h)' <=> Confirmed(h)
  BY <1>1, JudgedStays
<1>3. c \in Candidates /\ \A e \in host : Sound(e)
  BY DEF ReadingInv
<1>4. Clean' => Clean /\ left.faults = left'.faults /\ left.outsiders = left'.outsiders
  BY NextBudget
<1>5. ~Clean' \/ /\ ~Spend("faults") /\ ~Spend("outsiders")
  <2>1. /\ Spend("faults") => left'.faults # left.faults
        /\ Spend("outsiders") => left'.outsiders # left.outsiders
    BY DEF Spend, Budget
  <2> QED
    BY <1>4, <2>1
<1>6. Clean =>
        /\ doubt = "none"
        /\ stage \in Asking => \A i \in 1 .. Len(seen) : seen[i] = host
        /\ stage = "install" => Judged(host).state = "absent"
        /\ stage = "confirm" => LooksUpInstall(c.kind)
        /\ Confirmable =>
             /\ outcome # "failed"
             /\ stage \in {"confirm", "verify"} =>
                  Judged(host).state = "satisfied" /\ Confirmed(host)
  BY DEF HonestSoFar
<1>7. /\ seen \in Seq(SUBSET Entry) /\ answers \in Seq(Reply)
      /\ stage \in Asking => Reading
      /\ stage # "idle" => outcome = ""
  BY DEF ReadingInv
<1>19. host' = host => (Confirmable' <=> Confirmable)
  BY <1>1 DEF Confirmable, Recognisable, Misnamed, Neat
\* The steps that ask nothing end the command, or go on to the removal.
<1>8. ASSUME doubt' \in {doubt, "none"}, outcome' # "failed",
             stage' \in {"idle", "uninstall"}
      PROVE  HonestSoFar'
  BY <1>4, <1>6, <1>8 DEF HonestSoFar, Asking
<1>9. ASSUME NEW first \in {"gate", "removal"}, Start(first)
      PROVE  HonestSoFar'
  <2>1. /\ doubt' = "none" /\ outcome' = "" /\ stage' = first /\ seen' = <<>>
    BY <1>9 DEF Start
  <2>2. \A i \in 1 .. Len(seen') : seen'[i] = host'
    <3>1. Len(seen') = 0
      BY <2>1
    <3> QED
      BY <3>1
  <2> QED
    BY <2>1, <2>2 DEF HonestSoFar
<1>10. ASSUME NEW fault \in Faults \cup {"none"}, Ask(fault)
       PROVE  HonestSoFar'
  <2>1. /\ stage \in Asking /\ stage' = stage /\ host' = host
        /\ doubt' = fault /\ outcome' = outcome
        /\ answers # <<>> => fault = doubt
        /\ answers = <<>> /\ fault # "none" => Spend("faults")
        /\ seen' = IF answers = <<>> THEN <<host>> ELSE Append(seen, host)
    BY <1>10 DEF Ask
  <2>2. Clean' => fault = "none"
    BY <1>4, <1>5, <1>6, <2>1
  <2>3. ASSUME Clean' PROVE \A i \in 1 .. Len(seen') : seen'[i] = host'
    <3>1. \A i \in 1 .. Len(seen) : seen[i] = host
      BY <1>4, <1>6, <2>1, <2>3
    <3>2. CASE answers = <<>>
      BY <2>1, <3>2
    <3>3. CASE answers # <<>>
      <4>1. seen' = Append(seen, host)
        BY <2>1, <3>3
      <4>2. host \in SUBSET Entry
        BY <1>3 DEF Sound
      <4>4. seen \in Seq(SUBSET Entry)
        BY <1>7
      <4> HIDE DEF Entry
      <4>3. /\ Len(seen') = Len(seen) + 1 /\ seen'[Len(seen) + 1] = host
            /\ \A i \in 1 .. Len(seen) : seen'[i] = seen[i]
            /\ Len(seen) \in Nat
        BY <4>1, <4>2, <4>4
      <4> QED
        BY <2>1, <3>1, <4>3
    <3> QED
      BY <3>2, <3>3
  <2>4. stage # "install"
    BY <2>1 DEF Asking
  <2>5. Judged(host)' = Judged(host) /\ (Confirmed(host)' <=> Confirmed(host))
    BY <1>2, <2>1
  <2> QED
    BY <1>1, <1>4, <1>6, <1>19, <2>1, <2>2, <2>3, <2>4, <2>5 DEF HonestSoFar
<1>11. CASE GateAlreadyInstalled
  <2>1. /\ stage = "gate" /\ Answered /\ host' = host /\ doubt' = doubt
        /\ \/ stage' = "idle" /\ outcome' \in {"already", "drifted", "refused"}
           \/ /\ TransitionForVerification(Verdict) = "install"
              /\ stage' = "install" /\ outcome' = outcome
    <3>1. TransitionForVerification(Verdict) \in
            {"none", "install", "upgrade", "refuse"}
      BY DEF TransitionForVerification
    <3> QED
      BY <1>11, <3>1 DEF GateAlreadyInstalled, End
  <2>2. CASE stage' = "idle" /\ outcome' \in {"already", "drifted", "refused"}
    BY <1>8, <2>1, <2>2
  <2>3. CASE /\ TransitionForVerification(Verdict) = "install"
             /\ stage' = "install" /\ outcome' = outcome
    <3>1. Verdict.state = "absent"
      BY <2>3 DEF TransitionForVerification
    <3>2. Clean => Judged(host).state = "absent"
      BY <2>1, <3>1, HonestVerdict DEF Asking
    <3>3. Judged(host)' = Judged(host)
      BY <1>2, <2>1
    <3> QED
      BY <1>4, <1>6, <1>7, <2>1, <2>3, <3>2, <3>3 DEF HonestSoFar, Asking
  <2> QED
    BY <2>1, <2>2, <2>3
<1>12. CASE InstallResolved
  <2>1. /\ stage = "install" /\ doubt' = doubt /\ seen' = <<>>
        /\ \/ Spend("faults")
           \/ /\ host' = Done /\ outcome' = outcome
              /\ stage' = IF LooksUpInstall(c.kind) THEN "confirm" ELSE "verify"
    BY <1>12 DEF InstallResolved, Done, Made
  <2>2. ASSUME Clean'
        PROVE  /\ host' = Done /\ outcome' = ""
               /\ stage' = IF LooksUpInstall(c.kind) THEN "confirm" ELSE "verify"
    BY <1>5, <1>7, <2>1, <2>2
  <2>3. ASSUME Clean', Confirmable'
        PROVE  Judged(Done).state = "satisfied" /\ Confirmed(Done)
    <3>1. Recognisable(c) /\ \A e \in Done : Neat(c, e)
      BY <1>1, <2>2, <2>3 DEF Confirmable, Recognisable, Misnamed, Neat
    <3>2. \A e \in host : Neat(c, e)
      BY <1>3, <3>1, NeatBefore
    <3>3. Judged(host).state = "absent"
      BY <1>4, <1>6, <2>1, <2>3
    <3> QED
      BY <1>3, <3>1, <3>2, <3>3, InstallationShows
  <2>4. \A i \in 1 .. Len(seen') : seen'[i] = host'
    <3>1. Len(seen') = 0
      BY <2>1
    <3> QED
      BY <3>1
  <2> HIDE DEF Done
  <2>5. ASSUME Clean', Confirmable'
        PROVE  Judged(host)'.state = "satisfied" /\ Confirmed(host)'
    BY <1>2, <2>2, <2>3, <2>5
  <2> QED
    BY <1>1, <1>4, <1>6, <2>1, <2>2, <2>4, <2>5 DEF HonestSoFar
<1>13. CASE ConfirmNativeInstall
  <2>1. /\ stage = "confirm" /\ Answered /\ host' = host /\ doubt' = doubt
        /\ seen' = seen
        /\ VerifyNativeInstall(c, A, B) => stage' = "verify" /\ outcome' = outcome
        /\ stage' \in {"idle", "verify"}
    BY <1>13 DEF ConfirmNativeInstall, End
  <2>2. ASSUME Clean', Confirmable PROVE VerifyNativeInstall(c, A, B)
    <3>1. /\ Clean /\ LooksUpInstall(c.kind) /\ Confirmed(host)
      BY <1>4, <1>6, <2>1, <2>2
    <3>2. A = Honest(host, 1) /\ B = Honest(host, Questions)
      BY <2>1, <3>1, HonestVerdict DEF Asking
    <3> QED
      BY <3>1, <3>2 DEF Confirmed
  <2>3. ASSUME Clean', Confirmable
        PROVE  /\ stage' = "verify" /\ outcome' = outcome
               /\ Judged(host)'.state = "satisfied" /\ Confirmed(host)'
    BY <1>2, <1>4, <1>6, <2>1, <2>2, <2>3
  <2>4. ASSUME Clean' PROVE \A i \in 1 .. Len(seen') : seen'[i] = host'
    BY <1>4, <1>6, <2>1, <2>4 DEF Asking
  <2> QED
    BY <1>1, <1>4, <1>6, <1>19, <2>1, <2>3, <2>4 DEF HonestSoFar
<1>14. CASE VerifyInstalled
  <2>1. /\ stage = "verify" /\ Answered /\ host' = host /\ doubt' = doubt
        /\ stage' = "idle"
        /\ Verdict.state = "satisfied" => outcome' = "installed"
    BY <1>14 DEF VerifyInstalled, End
  <2>2. Clean /\ Confirmable => Verdict.state = "satisfied"
    BY <1>6, <2>1, HonestVerdict DEF Asking
  <2> QED
    BY <1>4, <1>6, <1>19, <2>1, <2>2 DEF HonestSoFar, Asking
<1>15. CASE DecideRemoval
  <2>1. /\ doubt' = doubt
        /\ \/ stage' = "idle" /\ outcome' \in {"manual", "released", "kept"}
           \/ stage' = "uninstall" /\ outcome' = outcome
        /\ stage = "removal"
    BY <1>15 DEF DecideRemoval, End
  <2>2. outcome = ""
    BY <1>7, <2>1
  <2> QED
    BY <1>8, <2>1, <2>2
<1>16. CASE RemoveResolved
  <2>1. /\ doubt' = doubt /\ stage' = "idle" /\ outcome' \in {"removed", "kept"}
    BY <1>16 DEF RemoveResolved, End
  <2> QED
    BY <1>8, <2>1
<1>17. CASE Outsider
  <2>1. Spend("outsiders")
    BY <1>17 DEF Outsider
  <2>2. ~Clean'
    BY <1>5, <2>1
  <2> QED
    BY <2>2 DEF HonestSoFar
<1>18. CASE UNCHANGED vars
  <2>1. /\ host' = host /\ doubt' = doubt /\ stage' = stage
        /\ outcome' = outcome /\ seen' = seen
    BY <1>18 DEF vars
  <2>2. Judged(host)' = Judged(host) /\ (Confirmed(host)' <=> Confirmed(host))
    BY <1>2, <2>1
  <2> QED
    BY <1>1, <1>4, <1>6, <1>19, <2>1, <2>2 DEF HonestSoFar, Asking
<1> QED
  BY <1>9, <1>10, <1>11, <1>12, <1>13, <1>14, <1>15, <1>16, <1>17, <1>18
  DEF Next, StartInstall, StartRemoval

\* With honest answers, working commands and nobody else about, whatever the
\* manager and whatever its host held: an installation that the gate let
\* through, because the candidate was found absent, is confirmed by the
\* observation that follows.  The exceptions are those that Confirmable names:
\* a crate of another registry than the default one, a version that composer is
\* asked for with a "v", a program of go that is looked for under another name
\* than go gives it, and on the host what a package of another architecture has
\* left behind.
THEOREM AlwaysHonestSucceeds == Spec => []HonestInstallSucceeds
<1>1. Init => ReadingInv /\ Budget /\ HonestSoFar
  BY InitReading, InitHonest
<1>2. ReadingInv /\ Budget /\ HonestSoFar /\ [Next]_vars =>
        ReadingInv' /\ Budget' /\ HonestSoFar'
  BY NextReading, NextBudget, NextHonest
<1>3. HonestSoFar => HonestInstallSucceeds
  BY DEF HonestSoFar, HonestInstallSucceeds, Clean
<1> QED
  BY <1>1, <1>2, <1>3, PTL DEF Spec

=============================================================================
