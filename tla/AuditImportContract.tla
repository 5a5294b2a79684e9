------------------------ MODULE AuditImportContract ------------------------
(***************************************************************************)
(* What an external audit import promises whatever fails or races: an      *)
(* analysis proposes drafts, people approve some of them, and only what    *)
(* has been approved is ever published as a live finding.  Proposals are   *)
(* only replaced, and approvals forgotten, while nothing has gone live;    *)
(* what has gone live stays.                                               *)
(***************************************************************************)
CONSTANT Drafts

VARIABLES proposed, approved, published

contractVars == <<proposed, approved, published>>

Init == proposed = {} /\ approved = {} /\ published = {}

Propose(S) ==
  /\ published = {}
  /\ proposed' = S
  /\ approved' = {}
  /\ UNCHANGED published

Approve(S) ==
  /\ S \subseteq proposed
  /\ approved' = approved \cup S
  /\ UNCHANGED <<proposed, published>>

Publish(S) ==
  /\ S \subseteq approved
  /\ published' = published \cup S
  /\ UNCHANGED <<proposed, approved>>

Next == \E S \in SUBSET Drafts : Propose(S) \/ Approve(S) \/ Publish(S)

Spec == Init /\ [][Next]_contractVars
============================================================================
