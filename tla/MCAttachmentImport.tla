------------------------- MODULE MCAttachmentImport -------------------------
(* Constants of AttachmentImport for TLC. *)
EXTENDS AttachmentImport, TLC

CONSTANTS t1, t2, t3, n1, n2

\* t1 deletes what it has imported, t2 renames it and filters known names, t3
\* has a server that is down.
ThreeTasks == {t1, t2, t3}
OwnNames == {<<t1, n1>>, <<t2, n2>>}
FirstOnceSecondTwice == (<<t1, n1>> :> 1) @@ (<<t2, n2>> :> 2)
DeleteAndRename == (t1 :> "delete") @@ (t2 :> "rename") @@ (t3 :> "none")

(* What the proofs ask for: t1 gets its file once.                            *)
ASSUME InstanceFits == DepositedOnce({"move", "delete"})

=============================================================================
