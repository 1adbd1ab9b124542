---------------------------- MODULE MCChangeset ----------------------------
(* Constants of Changeset for TLC: a field to validate, whose values are      *)
(* applied at once if they come from a connector, and one that everybody but  *)
(* the connector may change.                                                  *)
EXTENDS Changeset, TLC

CONSTANTS name, vat, ann, bob, connector, people, x, y

TwoFields == {name, vat}
TwoUsers == {ann, bob}
\* Bob's values come from a connector too.
ThreeWriters == (TwoUsers \X {people}) \cup {<<bob, connector>>}
Alike == Permutations({x, y})

Rule(f, source, action) ==
  [field |-> f, source |-> source, action |-> action, validators |-> TwoUsers,
   fourEyes |-> f = name]
OneOfEach == {Rule(name, Null, "validate"), Rule(name, connector, "auto"),
              Rule(vat, Null, "auto"), Rule(vat, connector, "never")}

============================================================================
