---------------------------- MODULE VersionLedger ----------------------------
(***************************************************************************)
(* What a library promises about the versions of one document, whoever     *)
(* drafts, reviews, approves and publishes them: a ledger of the numbers   *)
(* that were ever issued, and of the one in force.  Both only go forward.  *)
(* What is issued is the newest, keeps its number for ever, and never      *)
(* comes back into force once it has been replaced.                        *)
(***************************************************************************)
EXTENDS Integers

VARIABLES
  issued,   \* the numbers of all versions that were ever approved or published
  inForce   \* the number of the version in force, if there is one

ledgerVars == <<issued, inForce>>

Precedes(m, n) == m.major < n.major \/ (m.major = n.major /\ m.minor < n.minor)

IsNewest(n) == \A m \in issued \ {n} : Precedes(m, n)

Init == issued = {} /\ inForce = {}

(* A new version is approved; what it replaces may leave force with that.  *)
Approve(n) ==
  /\ n \notin issued /\ IsNewest(n)
  /\ issued' = issued \cup {n}
  /\ inForce' \in SUBSET inForce

(* The newest version, approved or not, comes into force alone. *)
Release(n) ==
  /\ IsNewest(n)
  /\ issued' = issued \cup {n}
  /\ inForce' = {n}

Next == \E n \in issued' : Approve(n) \/ Release(n)

Spec == Init /\ [][Next]_ledgerVars
==============================================================================
