---------------------------- MODULE Verification ----------------------------
(***************************************************************************)
(* How an observation of the host is held against the identity a plan was *)
(* resolved to, and what that allows an install or an upgrade to do        *)
(* (src/internal/plan/verification.go, TransitionForVerification of        *)
(* src/internal/plan/lifecycle.go, and the executor's use of both).        *)
(*                                                                         *)
(* An identity is a function from the fields it states to their values:    *)
(* a field is in its domain when the plan desires it, or when the adapter  *)
(* knows it.  Values are taken up to the equivalence the code compares     *)
(* them with (lower-cased digests, sanitized references).                  *)
(***************************************************************************)

CONSTANTS
  Fields,      \* the comparable dimensions of an identity
  Malformed    \* values no identity may state: untrimmed text, a reference
               \* with credentials, an unknown scope

Presences == {"present", "absent", "unknown", "broken"}

Verdicts == {"satisfied", "absent", "drifted", "unknown", "broken"}

\* The identity that states nothing.
Nothing == [f \in {} |-> f]

Readable(identity) ==
  /\ DOMAIN identity \subseteq Fields
  /\ \A f \in DOMAIN identity : identity[f] \notin Malformed

Broken == [state |-> "broken", known |-> Nothing, drift |-> Nothing,
           unverifiable |-> {}, detail |-> TRUE]

Drift(desired, known) ==
  [f \in {g \in DOMAIN desired \cap DOMAIN known : desired[g] # known[g]} |->
     [want |-> desired[f], got |-> known[f]]]

Unseen(desired, known) == DOMAIN desired \ DOMAIN known

\* The verdict on a target that is there.
Compare(desired, observation) ==
  LET drift  == Drift(desired, observation.known)
      unseen == Unseen(desired, observation.known)
  IN [state        |-> IF DOMAIN drift # {} THEN "drifted"
                       ELSE IF unseen # {} THEN "unknown" ELSE "satisfied",
      known        |-> observation.known,
      drift        |-> drift,
      unverifiable |-> unseen,
      detail       |-> observation.detail]

\* What a target that is not there, or perhaps is, leaves to be known.
Unestablished(desired, observation) ==
  [state        |-> observation.presence,
   known        |-> Nothing,
   drift        |-> Nothing,
   unverifiable |-> IF observation.presence = "unknown" THEN DOMAIN desired
                    ELSE {},
   detail       |-> \/ observation.detail
                    \/ observation.presence = "unknown" /\ DOMAIN desired = {}]

Reconcile(desired, observation) ==
  IF ~Readable(desired) \/ ~Readable(observation.known) THEN Broken
  ELSE IF observation.presence = "present" THEN Compare(desired, observation)
  ELSE IF observation.presence \in {"absent", "unknown"}
         THEN Unestablished(desired, observation)
  ELSE Broken

Validate(result) ==
  LET known == DOMAIN result.known
      drift == DOMAIN result.drift
      none  == known = {} /\ drift = {} /\ result.unverifiable = {}
  IN /\ result.state \in Verdicts
     /\ Readable(result.known)
     /\ result.unverifiable \subseteq Fields
     /\ known \cap result.unverifiable = {}
     /\ drift \subseteq known
     /\ \A f \in drift :
          /\ result.drift[f].want \notin Malformed
          /\ result.drift[f].want # result.drift[f].got
          /\ result.drift[f].got = result.known[f]
     /\ result.state = "satisfied" => drift = {} /\ result.unverifiable = {}
     /\ result.state = "drifted" => drift # {}
     /\ result.state = "unknown" =>
          drift = {} /\ (result.unverifiable # {} \/ result.detail)
     /\ result.state = "absent" => none
     /\ result.state = "broken" => none /\ result.detail

\* What a verdict lets the caller do to the host; everything that is not an
\* authoritative answer refuses.
TransitionForVerification(result) ==
  IF ~Validate(result) THEN "refuse"
  ELSE CASE result.state = "satisfied" -> "none"
         [] result.state = "absent"    -> "install"
         [] result.state = "drifted"   -> "upgrade"
         [] OTHER                      -> "refuse"

\* Only what the method's contract verifies is demanded of the host.
Project(verified, identity) ==
  [f \in DOMAIN identity \cap verified |-> identity[f]]

\* What the executor makes of an adapter's answer: an error, and a presence
\* nobody knows, are a broken observation.
ObserveResolvedCandidate(observation) ==
  IF ~observation.err /\ observation.presence \in Presences \ {"broken"}
  THEN [presence |-> observation.presence, known |-> observation.known,
        detail |-> observation.detail]
  ELSE [presence |-> "broken",
        known |-> IF observation.err THEN Nothing ELSE observation.known,
        detail |-> TRUE]

VerifyResolvedCandidate(verified, identity, observation) ==
  Reconcile(Project(verified, identity), ObserveResolvedCandidate(observation))

=============================================================================
