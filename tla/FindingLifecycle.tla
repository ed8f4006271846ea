-------------------------- MODULE FindingLifecycle --------------------------
(***************************************************************************)
(* What the reconcile engine promises about the life of one finding,       *)
(* whatever scans and users do: the list in the comment of Reconcile       *)
(* (store/reconcile.go:9-22) and the statuses of core/finding.go:52-57.    *)
(* There are no scans here, no snapshots and no database: a finding is     *)
(* reported, goes missing long enough, or is decided upon by the user, and *)
(* each of these is one atomic step.  Reconcile.tla implements this module *)
(* when operations on one target do not overlap.                           *)
(***************************************************************************)

CONSTANT Fingerprints

VARIABLES
  status,     \* status[fp], "none" before the first report
  decided     \* the user's last accepted decision on fp, "none" before it

lvars == <<status, decided>>

UserStatuses == {"open", "acknowledged", "suppressed"}
Statuses == {"none", "resolved"} \cup UserStatuses

LInit ==
  /\ status  = [fp \in Fingerprints |-> "none"]
  /\ decided = [fp \in Fingerprints |-> "none"]

\* A fingerprint reported for the first time, or again after it was resolved,
\* opens; a report of any other finding changes nothing.
Opens(fp) ==
  /\ status[fp] \in {"none", "resolved"}
  /\ status' = [status EXCEPT ![fp] = "open"]
  /\ UNCHANGED decided

\* Only a finding the user is not silencing resolves by itself.
Resolves(fp) ==
  /\ status[fp] \in {"open", "acknowledged"}
  /\ status' = [status EXCEPT ![fp] = "resolved"]
  /\ UNCHANGED decided

\* The user decides on a stored finding; the decision is the status at once.
Decides(fp, choice) ==
  /\ status[fp] # "none"
  /\ status'  = [status EXCEPT ![fp] = choice]
  /\ decided' = [decided EXCEPT ![fp] = choice]

LNext ==
  \E fp \in Fingerprints :
    \/ Opens(fp)
    \/ Resolves(fp)
    \/ \E choice \in UserStatuses : Decides(fp, choice)

LSpec == LInit /\ [][LNext]_lvars
=============================================================================
