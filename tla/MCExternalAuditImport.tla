----------------------- MODULE MCExternalAuditImport -----------------------
(* ExternalAuditImport on small instances: what TLC may treat as symmetric. *)
EXTENDS ExternalAuditImport, TLC

Symmetry ==
  Permutations(Drafts) \cup Permutations(Operators) \cup Permutations(Workers)
============================================================================
