--------------------------- MODULE MCSessionStore ---------------------------
(* Constants of SessionStore for TLC. *)
EXTENDS SessionStore, TLC

CONSTANTS t1, t2, t3, p1, p2

\* Two threads share a store, a third one has a process of its own.
ThreeThreads == {t1, t2, t3}
TwoProcs == {p1, p2}
\* The kinds of calls that can disturb each other within a process and across.
SomeCalls == (t1 :> {"save", "get"}) @@ (t2 :> {"delete", "vacuum"}) @@ (t3 :> {"save", "delete"})
TwoAndOne == (t1 :> p1) @@ (t2 :> p1) @@ (t3 :> p2)

=============================================================================
