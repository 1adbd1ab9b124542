----------------------------- MODULE MCAuditLog -----------------------------
(* Constants of AuditLog for TLC. *)
EXTENDS AuditLog, TLC

CONSTANTS name, total, secret

WrittenFields == {name}
CopiesOfName == total :> name @@ secret :> name
ExcludedFields == {secret}
FullOrFast == {[log |-> {"create", "write", "unlink"}, type |-> "full"],
               [log |-> {"write"}, type |-> "fast"]}

Symmetric == Permutations(Workers) \cup Permutations(Values)

============================================================================
