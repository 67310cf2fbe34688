-------------------------- MODULE ReviewLifecycle --------------------------
(***************************************************************************)
(* What the review of cache entries promises (app/cache/schemas.py and     *)
(* review.py), with no locks, queues or copies: an entry is created        *)
(* pending, or approved when approval is automatic; reviewers endorse a    *)
(* pending entry, each at most once, and it is approved when there are     *)
(* enough of them; a pending entry may be rejected; approved and rejected  *)
(* are final.                                                              *)
(***************************************************************************)
EXTENDS Naturals, FiniteSets

CONSTANTS Hash, Reviewer, Threshold, AutoApprove

VARIABLE verdict  \* verdict[h]: the status of h and who approved it

Missing == [status |-> "absent", approvedBy |-> {}]

Init == verdict = [h \in Hash |-> Missing]

Create(h) ==
  /\ verdict[h] = Missing
  /\ \E s \in IF AutoApprove THEN {"approved", "pending_review"}
                             ELSE {"pending_review"} :
       verdict' = [verdict EXCEPT ![h].status = s]

Endorse(h, r) ==
  LET by == verdict[h].approvedBy \cup {r} IN
  /\ verdict[h].status = "pending_review"
  /\ r \notin verdict[h].approvedBy
  /\ verdict' = [verdict EXCEPT
       ![h] = [status |-> IF Cardinality(by) >= Threshold THEN "approved"
                                                          ELSE "pending_review",
               approvedBy |-> by]]

Reject(h) ==
  /\ verdict[h].status = "pending_review"
  /\ verdict' = [verdict EXCEPT ![h].status = "rejected"]

Next ==
  \E h \in Hash : Create(h) \/ Reject(h) \/ \E r \in Reviewer : Endorse(h, r)

Spec == Init /\ [][Next]_verdict

=============================================================================
