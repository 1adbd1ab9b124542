-------------------------- MODULE UpgradeDataProofs -------------------------
(* Proofs about UpgradeData: what the comparison of the XML ids tells, and   *)
(* what the file of changes makes of the noupdate records, for any modules   *)
(* that were renamed or merged and any files of theirs.  The algorithms fold *)
(* over lists: a first part gives a proof the partial results of a fold.     *)
EXTENDS Maintenance, FiniteSetTheorems, SequenceTheorems, WellFoundedInduction, TLAPS

LEMMA FirstId ==
  ASSUME NEW S, S \subseteq Nat, S # {}
  PROVE  \E x \in S : \A y \in S : x <= y
<1> DEFINE R == {xy \in Nat \X Nat : xy[1] < xy[2]}
<1>1. IsWellFoundedOn(R, Nat)
  BY NatLessThanWellFounded DEF OpToRel
<1>2. \A x, y \in Nat : y < x => <<y, x>> \in R
  OBVIOUS
<1> HIDE DEF R
<1>3. PICK x \in S : \A y \in S : ~ (<<y, x>> \in R)
  BY <1>1, WFMin
<1>4. ASSUME NEW y \in S PROVE x <= y
  <2>1. x \in Nat /\ y \in Nat /\ ~ (y < x)
    BY <1>2, <1>3
  <2> QED BY <2>1
<1> QED BY <1>4

\* Induction over the numbers, for a set: what is in it, is said by its definition.
LEMMA FromZero ==
  ASSUME NEW S, 0 \in S, \A i \in Nat : i \in S => i + 1 \in S
  PROVE  \A i \in Nat : i \in S
<1> SUFFICES ASSUME Nat \ S # {} PROVE FALSE
  OBVIOUS
<1>1. PICK n \in Nat \ S : \A m \in Nat \ S : n <= m
  BY FirstId
<1>2. n # 0 /\ n - 1 \in Nat /\ n - 1 + 1 = n
  OBVIOUS
<1> QED BY <1>1, <1>2

\* The indices up to n have a last one.
LEMMA LastIndex ==
  ASSUME NEW n \in Nat, NEW s \in SUBSET (1 .. n), s # {}
  PROVE  /\ UD!Max(s) \in s /\ \A x \in s : x <= UD!Max(s)
         /\ n \in s => UD!Max(s) = n
<1>1. {n - x : x \in s} \subseteq Nat /\ {n - x : x \in s} # {}
  OBVIOUS
<1>2. PICK d \in {n - x : x \in s} : \A e \in {n - x : x \in s} : d <= e
  BY <1>1, FirstId
<1>3. PICK m \in s : d = n - m
  OBVIOUS
<1>4. \A x \in s : x <= m
  BY <1>2, <1>3
<1>5. UD!Max(s) \in s /\ \A x \in s : UD!Max(s) >= x
  BY <1>3, <1>4 DEF UD!Max
<1>6. UD!Max(s) \in 1 .. n /\ \A x \in s : x \in 1 .. n
  BY <1>5
<1> QED BY <1>5, <1>6

\* What FoldLeft of the community modules chooses: a function of the sets of indices that
\* takes the last one last.
Folds(g, n, A, base, op) ==
  /\ g \in [SUBSET (1 .. n) -> A]
  /\ \A s \in SUBSET (1 .. n) :
        g[s] = IF s = {} THEN base ELSE op[g[s \ {UD!Max(s)}], UD!Max(s)]

\* There is one, for an operation on the indices up to n.
LEMMA FoldExists ==
  ASSUME NEW n \in Nat, NEW A, NEW base \in A, NEW op \in [A \X (1 .. n) -> A]
  PROVE  \E g : Folds(g, n, A, base, op)
<1> DEFINE S == {k \in Nat : k <= n => \E g : Folds(g, k, A, base, op)}
<1>1. 0 \in S
  <2> DEFINE e == [s \in SUBSET (1 .. 0) |-> base]
  <2>1. SUBSET (1 .. 0) = {{}}
    OBVIOUS
  <2>2. Folds(e, 0, A, base, op)
    BY <2>1, Zenon DEF Folds
  <2> HIDE DEF e
  <2> QED BY <2>2
<1>2. ASSUME NEW k \in Nat, k \in S PROVE k + 1 \in S
  <2>0. k + 1 \in Nat /\ (k + 1 <= n => k <= n /\ k + 1 \in 1 .. n)
    OBVIOUS
  <2>1. ASSUME k + 1 <= n, NEW g, Folds(g, k, A, base, op)
        PROVE  \E h : Folds(h, k + 1, A, base, op)
    <3> DEFINE h == [s \in SUBSET (1 .. (k + 1)) |->
                       IF k + 1 \in s THEN op[g[s \ {k + 1}], k + 1] ELSE g[s]]
    <3>1. /\ g \in [SUBSET (1 .. k) -> A]
          /\ \A s \in SUBSET (1 .. k) :
                g[s] = IF s = {} THEN base ELSE op[g[s \ {UD!Max(s)}], UD!Max(s)]
      BY <2>1, Zenon DEF Folds
    <3>2. \A s \in SUBSET (1 .. (k + 1)) : s \ {k + 1} \in SUBSET (1 .. k)
      OBVIOUS
    <3>3. \A s \in SUBSET (1 .. (k + 1)) : k + 1 \notin s => s \in SUBSET (1 .. k)
      OBVIOUS
    <3>4. h \in [SUBSET (1 .. (k + 1)) -> A]
      BY <2>0, <2>1, <3>1, <3>2, <3>3, Zenon
    <3>5. ASSUME NEW s \in SUBSET (1 .. (k + 1))
          PROVE  h[s] = IF s = {} THEN base ELSE op[h[s \ {UD!Max(s)}], UD!Max(s)]
      <4>1. CASE k + 1 \in s
        <5>1. UD!Max(s) = k + 1
          BY <2>0, <4>1, LastIndex
        <5>2. h[s \ {k + 1}] = g[s \ {k + 1}]
          BY <3>2, Zenon
        <5> QED BY <4>1, <5>1, <5>2, Zenon
      <4>2. CASE k + 1 \notin s
        <5>1. h[s] = g[s] /\ s \in SUBSET (1 .. k)
          BY <3>3, <4>2
        <5>2. s # {} => s \ {UD!Max(s)} \in SUBSET (1 .. k) /\ k + 1 \notin s \ {UD!Max(s)}
          BY <5>1, <4>2
        <5>3. s # {} => h[s \ {UD!Max(s)}] = g[s \ {UD!Max(s)}]
          BY <5>2, Zenon
        <5> HIDE DEF h
        <5> QED BY <3>1, <5>1, <5>3, Zenon
      <4> QED BY <4>1, <4>2, Zenon
    <3> HIDE DEF h
    <3>6. Folds(h, k + 1, A, base, op)
      BY <3>4, <3>5, Zenon DEF Folds
    <3> QED BY <3>6
  <2>2. k + 1 <= n => \E g : Folds(g, k, A, base, op)
    BY <1>2, <2>0
  <2>3. k + 1 <= n => \E h : Folds(h, k + 1, A, base, op)
    BY <2>1, <2>2
  <2> QED BY <2>0, <2>3
<1>3. n \in S
  <2> HIDE DEF S
  <2> QED BY <1>1, <1>2, FromZero
<1> QED BY <1>3

\* The same up to a bound.
LEMMA UpTo ==
  ASSUME NEW n \in Nat, NEW S, 0 \in S, \A i \in 0 .. (n - 1) : i \in S => i + 1 \in S
  PROVE  \A i \in 0 .. n : i \in S
<1> DEFINE T == {i \in Nat : i <= n => i \in S}
<1>1. 0 \in T
  OBVIOUS
<1>2. ASSUME NEW i \in Nat, i \in T PROVE i + 1 \in T
  <2>1. CASE i + 1 <= n
    <3>1. i \in 0 .. (n - 1) /\ i <= n /\ i + 1 \in Nat
      BY <2>1
    <3> QED BY <1>2, <3>1
  <2>2. CASE ~ (i + 1 <= n)
    BY <2>2
  <2> QED BY <2>1, <2>2
<1> HIDE DEF T
<1>3. \A i \in Nat : i \in T
  BY <1>1, <1>2, FromZero
<1> QED BY <1>3 DEF T

\* The first i + 1 indices are the first i and a last one.
LEMMA Prefixes ==
  ASSUME NEW n \in Nat, NEW i \in 0 .. (n - 1)
  PROVE  /\ 1 .. (i + 1) \in SUBSET (1 .. n) /\ 1 .. (i + 1) # {}
         /\ UD!Max(1 .. (i + 1)) = i + 1
         /\ (1 .. (i + 1)) \ {UD!Max(1 .. (i + 1))} = 1 .. i
<1>1. i \in Nat /\ i + 1 \in 1 .. (i + 1) /\ i + 1 \in Nat
  OBVIOUS
<1>2. UD!Max(1 .. (i + 1)) = i + 1
  BY <1>1, LastIndex
<1>3. (1 .. (i + 1)) \ {i + 1} = 1 .. i
  BY <1>1
<1> QED BY <1>1, <1>2, <1>3

\* The values that a fold runs through are a chain.
Follows(f, n, A, base, op) ==
  /\ f[{}] = base
  /\ \A s \in SUBSET (1 .. n) :
        s # {} /\ f[s \ {UD!Max(s)}] \in A => f[s] = op[f[s \ {UD!Max(s)}], UD!Max(s)]
IsChain(h, n, A, base, op) ==
  /\ h[0] = base
  /\ \A i \in 0 .. (n - 1) : h[i + 1] = op[h[i], i + 1]
  /\ \A i \in 0 .. n : h[i] \in A

LEMMA Chain ==
  ASSUME NEW n \in Nat, NEW A, NEW base \in A, NEW op \in [A \X (1 .. n) -> A], NEW f,
         Follows(f, n, A, base, op)
  PROVE  IsChain([i \in 0 .. n |-> f[1 .. i]], n, A, base, op)
<1> DEFINE h == [i \in 0 .. n |-> f[1 .. i]]
           S == {i \in 0 .. n : h[i] \in A}
<1>1. 0 \in 0 .. n /\ h[0] = base
  <2>1. 1 .. 0 = {} /\ 0 \in 0 .. n
    OBVIOUS
  <2>2. h[0] = f[1 .. 0]
    OBVIOUS
  <2> HIDE DEF h
  <2> QED BY <2>1, <2>2, Zenon DEF Follows
<1>2. ASSUME NEW i \in 0 .. (n - 1), h[i] \in A
      PROVE  i + 1 \in 0 .. n /\ h[i + 1] = op[h[i], i + 1] /\ h[i + 1] \in A
  <2>1. /\ h[i + 1] = f[1 .. (i + 1)] /\ h[i] = f[1 .. i]
        /\ i + 1 \in 0 .. n /\ i + 1 \in 1 .. n
    OBVIOUS
  <2>2. /\ 1 .. (i + 1) \in SUBSET (1 .. n) /\ 1 .. (i + 1) # {}
        /\ UD!Max(1 .. (i + 1)) = i + 1
        /\ (1 .. (i + 1)) \ {UD!Max(1 .. (i + 1))} = 1 .. i
    BY Prefixes
  <2> HIDE DEF h
  <2>3. h[i + 1] = op[h[i], i + 1]
    BY <1>2, <2>1, <2>2, Zenon DEF Follows
  <2> QED BY <1>2, <2>1, <2>3, Zenon
<1> HIDE DEF h
<1>3. 0 \in S
  BY <1>1
<1>4. ASSUME NEW i \in 0 .. (n - 1), i \in S PROVE i + 1 \in S
  BY <1>2, <1>4, Zenon
<1>5. \A i \in 0 .. n : h[i] \in A
  <2> HIDE DEF S
  <2>1. \A i \in 0 .. n : i \in S
    BY <1>3, <1>4, UpTo
  <2> QED BY <2>1 DEF S
<1>6. \A i \in 0 .. (n - 1) : i \in 0 .. n
  OBVIOUS
<1>7. IsChain(h, n, A, base, op)
  BY <1>1, <1>2, <1>5, <1>6, Zenon DEF IsChain
<1> QED BY <1>7 DEF h

\* What the files and the databases may hold.
FieldValues == Values \cup {NoText, UserValue}
RecordValues == [values : [UD!Fields -> FieldValues], noupdate : BOOLEAN]
Databases == UNION {[D -> RecordValues] : D \in SUBSET ((UD!RemoteModules \cup {udCase.local, UD!Other}) \X UD!XmlNames)}

LEMMA NodeFacts ==
  ASSUME udCase \in Upgrades, UD!Assumption, NEW node \in UD!Nodes(UD!Fields)
  PROVE  /\ node.own \in BOOLEAN /\ node.name \in UD!XmlNames /\ node.noupdate \in BOOLEAN
         /\ DOMAIN node.fields \subseteq UD!Fields
         /\ node.fields \in [DOMAIN node.fields -> Values]
<1>1. udCase.keys \subseteq BOOLEAN \X {k[2] : k \in udCase.keys}
  BY DEF UD!Assumption
<1>2. PICK k \in udCase.keys, b \in BOOLEAN, v \in UNION {[F -> Values] : F \in SUBSET UD!Fields} :
        node = [own |-> k[1], name |-> k[2], noupdate |-> b, fields |-> v]
  BY DEF UD!Nodes
<1> QED BY <1>1, <1>2 DEF UD!XmlNames

LEMMA NodeInstalled ==
  ASSUME udCase \in Upgrades, UD!Assumption, NEW d \in Databases, NEW node \in UD!Nodes(UD!Fields),
         NEW m \in UD!RemoteModules \cup {udCase.local}
  PROVE  /\ UD!InstallNode(d, UD!Id(m, node), node) \in Databases
         /\ DOMAIN UD!InstallNode(d, UD!Id(m, node), node) = DOMAIN d \cup {UD!Id(m, node)}
<1> DEFINE id == UD!Id(m, node)
           Names == (UD!RemoteModules \cup {udCase.local, UD!Other}) \X UD!XmlNames
<1>1. /\ node.own \in BOOLEAN /\ node.name \in UD!XmlNames /\ node.noupdate \in BOOLEAN
      /\ DOMAIN node.fields \subseteq UD!Fields /\ \A f \in DOMAIN node.fields : node.fields[f] \in Values
  BY NodeFacts
<1>2. id \in Names
  BY <1>1 DEF UD!Id
<1>3. PICK D \in SUBSET Names : d \in [D -> RecordValues]
  BY DEF Databases
<1> HIDE DEF id, Names
<1>4. CASE id \in DOMAIN d
  <2>1. UD!Changed(d[id].values, node.fields) \in [UD!Fields -> FieldValues]
    BY <1>1, <1>3, <1>4 DEF UD!Changed, RecordValues, FieldValues
  <2>2. UD!InstallNode(d, id, node) = [d EXCEPT ![id].values = UD!Changed(@, node.fields)]
    BY <1>4 DEF UD!InstallNode
  <2>3. UD!InstallNode(d, id, node) \in [D -> RecordValues]
    BY <1>3, <1>4, <2>1, <2>2 DEF RecordValues
  <2> QED BY <1>3, <1>4, <2>3 DEF Databases, Names, id
<1>5. CASE id \notin DOMAIN d
  <2>1. UD!Complete(node.fields) \in [UD!Fields -> FieldValues]
    BY <1>1 DEF UD!Complete, FieldValues
  <2>2. UD!InstallNode(d, id, node) \in [D \cup {id} -> RecordValues]
    BY <1>1, <1>3, <1>5, <2>1 DEF UD!InstallNode, RecordValues
  <2>3. D \cup {id} \in SUBSET Names
    BY <1>2
  <2> QED BY <1>3, <2>2, <2>3 DEF Databases, Names, id
<1> QED BY <1>4, <1>5

\* Installing a module is a chain of databases.
LEMMA InstallRuns ==
  ASSUME udCase \in Upgrades, UD!Assumption, NEW given \in Databases,
         NEW m \in UD!RemoteModules \cup {udCase.local}, NEW nodes \in Seq(UD!Nodes(UD!Fields))
  PROVE  \E h : /\ h[0] = given /\ h[Len(nodes)] = UD!InstallModule(given, m, nodes)
                /\ \A i \in 0 .. (Len(nodes) - 1) :
                     h[i + 1] = UD!InstallNode(h[i], UD!Id(m, nodes[i + 1]), nodes[i + 1])
                /\ \A i \in 0 .. Len(nodes) : h[i] \in Databases
<1> DEFINE Op(x, j) == UD!InstallNode(x, UD!Id(m, nodes[j]), nodes[j])
           n == Len(nodes)
           A == Databases
           base == given
           op == [x \in A \X (1 .. n) |-> Op(x[1], x[2])]
           f == CHOOSE g : g = [s \in SUBSET (1 .. n) |->
                   IF s = {} THEN base ELSE Op(g[s \ {UD!Max(s)}], UD!Max(s))]
           h == [i \in 0 .. n |-> f[1 .. i]]
<1>1. UD!InstallModule(given, m, nodes) = f[1 .. n]
  <2>1. DOMAIN nodes = 1 .. Len(nodes)
    OBVIOUS
  <2> QED BY <2>1 DEF UD!InstallModule, UD!FoldLeft, UD!MapThenFoldSet
<1>2. n \in Nat /\ base \in A /\ \A x \in A, i \in 1 .. n : Op(x, i) \in A
  <2>1. /\ n \in Nat /\ base \in Databases /\ \A i \in 1 .. n : nodes[i] \in UD!Nodes(UD!Fields)
    OBVIOUS
  <2>2. ASSUME NEW x \in Databases, NEW i \in 1 .. n PROVE Op(x, i) \in Databases
    <3>1. nodes[i] \in UD!Nodes(UD!Fields)
      BY <2>1
    <3> QED BY <3>1, NodeInstalled
  <2> QED BY <2>1, <2>2
<1>3. \A i \in 0 .. (n - 1) : Op(h[i], i + 1) = UD!InstallNode(h[i], UD!Id(m, nodes[i + 1]), nodes[i + 1])
  OBVIOUS
<1> HIDE DEF Op, n, A, base
<1>4. op \in [A \X (1 .. n) -> A] /\ \A x \in A, i \in 1 .. n : op[x, i] = Op(x, i)
  BY <1>2, Zenon
<1> HIDE DEF op
<1>5. PICK g : Folds(g, n, A, base, op)
  BY <1>2, <1>4, FoldExists, Zenon
<1>6. ASSUME NEW s \in SUBSET (1 .. n)
      PROVE  g[s] = IF s = {} THEN base ELSE Op(g[s \ {UD!Max(s)}], UD!Max(s))
  <2>1. s # {} => UD!Max(s) \in 1 .. n /\ g[s \ {UD!Max(s)}] \in A
    BY <1>2, <1>5, LastIndex, Zenon DEF Folds
  <2> QED BY <1>4, <1>5, <2>1, Zenon DEF Folds
<1>7. g = [s \in SUBSET (1 .. n) |->
             IF s = {} THEN base ELSE Op(g[s \ {UD!Max(s)}], UD!Max(s))]
  BY <1>5, <1>6, Zenon DEF Folds
<1>8. f = [s \in SUBSET (1 .. n) |->
             IF s = {} THEN base ELSE Op(f[s \ {UD!Max(s)}], UD!Max(s))]
  BY <1>7
<1> HIDE DEF f
<1>9. Follows(f, n, A, base, op)
  <2>1. \A s \in SUBSET (1 .. n) : s # {} => UD!Max(s) \in 1 .. n
    BY <1>2, LastIndex
  <2>2. {} \in SUBSET (1 .. n)
    OBVIOUS
  <2> QED BY <1>4, <1>8, <2>1, <2>2, Zenon DEF Follows
<1>10. IsChain(h, n, A, base, op)
  BY <1>2, <1>4, <1>9, Chain, Zenon
<1>11. h[n] = f[1 .. n] /\ \A i \in 0 .. (n - 1) : i \in 0 .. n /\ i + 1 \in 1 .. n
  BY <1>2
<1> HIDE DEF h
<1>12. \A i \in 0 .. (n - 1) : h[i + 1] = UD!InstallNode(h[i], UD!Id(m, nodes[i + 1]), nodes[i + 1])
  BY <1>3, <1>4, <1>10, <1>11, Zenon DEF IsChain
<1>13. h[0] = base /\ h[n] = UD!InstallModule(given, m, nodes) /\ \A i \in 0 .. n : h[i] \in A
  BY <1>1, <1>10, <1>11, Zenon DEF IsChain
<1> QED BY <1>12, <1>13 DEF n, A, base

\* What a module installs.
LoadedIds(m, nodes) == {UD!Id(m, nodes[i]) : i \in DOMAIN nodes}

LEMMA InstalledIds ==
  ASSUME udCase \in Upgrades, UD!Assumption, NEW base \in Databases,
         NEW m \in UD!RemoteModules \cup {udCase.local}, NEW nodes \in Seq(UD!Nodes(UD!Fields))
  PROVE  /\ UD!InstallModule(base, m, nodes) \in Databases
         /\ DOMAIN UD!InstallModule(base, m, nodes) = DOMAIN base \cup LoadedIds(m, nodes)
<1> DEFINE n == Len(nodes)
<1>1. n \in Nat /\ DOMAIN nodes = 1 .. n
  OBVIOUS
<1>2. PICK h : /\ h[0] = base /\ h[n] = UD!InstallModule(base, m, nodes)
               /\ \A i \in 0 .. (n - 1) :
                    h[i + 1] = UD!InstallNode(h[i], UD!Id(m, nodes[i + 1]), nodes[i + 1])
               /\ \A i \in 0 .. n : h[i] \in Databases
  BY InstallRuns
<1> DEFINE S == {i \in 0 .. n : DOMAIN h[i] = DOMAIN base \cup {UD!Id(m, nodes[j]) : j \in 1 .. i}}
<1>3. 0 \in S
  BY <1>1, <1>2
<1>4. ASSUME NEW i \in 0 .. (n - 1), i \in S PROVE i + 1 \in S
  <2>1. i \in 0 .. n /\ i + 1 \in 0 .. n /\ i + 1 \in 1 .. n /\ 1 .. (i + 1) = (1 .. i) \cup {i + 1}
    BY <1>1
  <2>2. DOMAIN h[i + 1] = DOMAIN h[i] \cup {UD!Id(m, nodes[i + 1])}
    <3>1. h[i] \in Databases /\ nodes[i + 1] \in UD!Nodes(UD!Fields)
          /\ h[i + 1] = UD!InstallNode(h[i], UD!Id(m, nodes[i + 1]), nodes[i + 1])
      BY <1>1, <1>2, <2>1
    <3> DEFINE node == nodes[i + 1]
    <3>2. node \in UD!Nodes(UD!Fields)
      BY <3>1
    <3>3. DOMAIN UD!InstallNode(h[i], UD!Id(m, node), node) = DOMAIN h[i] \cup {UD!Id(m, node)}
      <4> HIDE DEF S, node
      <4> QED BY <3>1, <3>2, NodeInstalled
    <3> QED BY <3>1, <3>3
  <2> QED BY <1>4, <2>1, <2>2
<1> HIDE DEF S
<1>5. n \in S
  <2>1. \A i \in 0 .. n : i \in S
    BY <1>1, <1>3, <1>4, UpTo
  <2> QED BY <1>1, <2>1
<1> QED BY <1>1, <1>2, <1>5 DEF S, LoadedIds

\* The modules of a case.
LEMMA CaseModules ==
  ASSUME udCase \in Upgrades, UD!Assumption
  PROVE  /\ udCase.remote \in Seq(UD!RemoteModules)
         /\ DOMAIN udCase.remote = 1 .. Len(udCase.remote) /\ Len(udCase.remote) \in Nat
         /\ UD!RemoteModules = {udCase.remote[i] : i \in DOMAIN udCase.remote}
         /\ \A i, j \in DOMAIN udCase.remote : udCase.remote[i] = udCase.remote[j] => i = j
         /\ UD!Other \notin UD!RemoteModules /\ UD!Other # udCase.local
<1>1. /\ udCase.remote \in Seq(UD!Range(udCase.remote)) /\ UD!IsInjective(udCase.remote)
      /\ UD!Other \notin UD!Range(udCase.remote) \cup {udCase.local}
  BY DEF UD!Assumption
<1> QED BY <1>1 DEF UD!RemoteModules, UD!Range, UD!IsInjective

\* What the database has before anything is installed.
LEMMA GivenIds ==
  UD!Given \in Databases /\ DOMAIN UD!Given = {UD!Other} \X UD!XmlNames
<1>1. UD!Complete(<<>>) \in [UD!Fields -> FieldValues]
  BY DEF UD!Complete, FieldValues
<1>2. UD!Given \in [{UD!Other} \X UD!XmlNames -> RecordValues]
  BY <1>1 DEF UD!Given, RecordValues
<1> QED BY <1>2 DEF Databases, UD!Given

\* Installing all old modules is one as well.
LEMMA OldRuns ==
  ASSUME udCase \in Upgrades, UD!Assumption,
         udOld \in [UD!RemoteModules -> Seq(UD!Nodes(UD!Fields))]
  PROVE  \E h : /\ h[0] = UD!Given /\ h[Len(udCase.remote)] = UD!OldDatabase
                /\ \A i \in 0 .. (Len(udCase.remote) - 1) :
                     h[i + 1] = UD!InstallModule(h[i], udCase.remote[i + 1], udOld[udCase.remote[i + 1]])
                /\ \A i \in 0 .. Len(udCase.remote) : h[i] \in Databases
<1> DEFINE Op(x, j) == UD!InstallModule(x, udCase.remote[j], udOld[udCase.remote[j]])
           n == Len(udCase.remote)
           A == Databases
           base == UD!Given
           op == [x \in A \X (1 .. n) |-> Op(x[1], x[2])]
           f == CHOOSE g : g = [s \in SUBSET (1 .. n) |->
                   IF s = {} THEN base ELSE Op(g[s \ {UD!Max(s)}], UD!Max(s))]
           h == [i \in 0 .. n |-> f[1 .. i]]
<1>1. UD!OldDatabase = f[1 .. n]
  <2>1. DOMAIN udCase.remote = 1 .. Len(udCase.remote)
    BY CaseModules
  <2> QED BY <2>1 DEF UD!OldDatabase, UD!FoldLeft, UD!MapThenFoldSet
<1>2. n \in Nat /\ base \in A /\ \A x \in A, i \in 1 .. n : Op(x, i) \in A
  <2>1. /\ n \in Nat /\ A = Databases /\ base = UD!Given /\ UD!Given \in Databases
        /\ \A i \in 1 .. n : /\ udCase.remote[i] \in UD!RemoteModules
                             /\ udOld[udCase.remote[i]] \in Seq(UD!Nodes(UD!Fields))
    BY CaseModules, GivenIds
  <2> HIDE DEF n, A, base
  <2> QED BY <2>1, InstalledIds
<1>3. \A i \in 0 .. (n - 1) : Op(h[i], i + 1) = UD!InstallModule(h[i], udCase.remote[i + 1], udOld[udCase.remote[i + 1]])
  OBVIOUS
<1> HIDE DEF Op, n, A, base
<1>4. op \in [A \X (1 .. n) -> A] /\ \A x \in A, i \in 1 .. n : op[x, i] = Op(x, i)
  BY <1>2, Zenon
<1> HIDE DEF op
<1>5. PICK g : Folds(g, n, A, base, op)
  BY <1>2, <1>4, FoldExists, Zenon
<1>6. ASSUME NEW s \in SUBSET (1 .. n)
      PROVE  g[s] = IF s = {} THEN base ELSE Op(g[s \ {UD!Max(s)}], UD!Max(s))
  <2>1. s # {} => UD!Max(s) \in 1 .. n /\ g[s \ {UD!Max(s)}] \in A
    BY <1>2, <1>5, LastIndex, Zenon DEF Folds
  <2> QED BY <1>4, <1>5, <2>1, Zenon DEF Folds
<1>7. g = [s \in SUBSET (1 .. n) |->
             IF s = {} THEN base ELSE Op(g[s \ {UD!Max(s)}], UD!Max(s))]
  BY <1>5, <1>6, Zenon DEF Folds
<1>8. f = [s \in SUBSET (1 .. n) |->
             IF s = {} THEN base ELSE Op(f[s \ {UD!Max(s)}], UD!Max(s))]
  BY <1>7
<1> HIDE DEF f
<1>9. Follows(f, n, A, base, op)
  <2>1. \A s \in SUBSET (1 .. n) : s # {} => UD!Max(s) \in 1 .. n
    BY <1>2, LastIndex
  <2>2. {} \in SUBSET (1 .. n)
    OBVIOUS
  <2> QED BY <1>4, <1>8, <2>1, <2>2, Zenon DEF Follows
<1>10. IsChain(h, n, A, base, op)
  BY <1>2, <1>4, <1>9, Chain, Zenon
<1>11. h[n] = f[1 .. n] /\ \A i \in 0 .. (n - 1) : i \in 0 .. n /\ i + 1 \in 1 .. n
  BY <1>2
<1> HIDE DEF h
<1>12. \A i \in 0 .. (n - 1) : h[i + 1] = UD!InstallModule(h[i], udCase.remote[i + 1], udOld[udCase.remote[i + 1]])
  BY <1>3, <1>4, <1>10, <1>11, Zenon DEF IsChain
<1>13. h[0] = base /\ h[n] = UD!OldDatabase /\ \A i \in 0 .. n : h[i] \in A
  BY <1>1, <1>10, <1>11, Zenon DEF IsChain
<1> QED BY <1>12, <1>13 DEF n, A, base

LEMMA OldIds ==
  ASSUME udCase \in Upgrades, UD!Assumption,
         udOld \in [UD!RemoteModules -> Seq(UD!Nodes(UD!Fields))]
  PROVE  DOMAIN UD!OldDatabase = ({UD!Other} \X UD!XmlNames)
                                   \cup UNION {LoadedIds(m, udOld[m]) : m \in UD!RemoteModules}
<1> DEFINE n == Len(udCase.remote)
<1>1. n \in Nat /\ DOMAIN udCase.remote = 1 .. n
      /\ UD!RemoteModules = {udCase.remote[i] : i \in 1 .. n}
  BY CaseModules
<1>2. PICK h : /\ h[0] = UD!Given /\ h[n] = UD!OldDatabase
               /\ \A i \in 0 .. (n - 1) :
                    h[i + 1] = UD!InstallModule(h[i], udCase.remote[i + 1], udOld[udCase.remote[i + 1]])
               /\ \A i \in 0 .. n : h[i] \in Databases
  BY OldRuns
<1> DEFINE Loaded(i) == LoadedIds(udCase.remote[i], udOld[udCase.remote[i]])
           S == {i \in 0 .. n : DOMAIN h[i] = DOMAIN UD!Given \cup UNION {Loaded(j) : j \in 1 .. i}}
<1>3. 0 \in S
  BY <1>1, <1>2
<1>4. ASSUME NEW i \in 0 .. (n - 1), i \in S PROVE i + 1 \in S
  <2>1. i \in 0 .. n /\ i + 1 \in 0 .. n /\ i + 1 \in 1 .. n /\ 1 .. (i + 1) = (1 .. i) \cup {i + 1}
    BY <1>1
  <2>2. DOMAIN h[i + 1] = DOMAIN h[i] \cup Loaded(i + 1)
    <3> DEFINE m == udCase.remote[i + 1]
    <3>1. h[i] \in Databases /\ udCase.remote[i + 1] \in UD!RemoteModules
          /\ udOld[udCase.remote[i + 1]] \in Seq(UD!Nodes(UD!Fields))
          /\ h[i + 1] = UD!InstallModule(h[i], udCase.remote[i + 1], udOld[udCase.remote[i + 1]])
      BY <1>1, <1>2, <2>1
    <3> HIDE DEF S
    <3>2. m \in UD!RemoteModules /\ udOld[m] \in Seq(UD!Nodes(UD!Fields))
      BY <3>1
    <3>3. DOMAIN UD!InstallModule(h[i], m, udOld[m]) = DOMAIN h[i] \cup LoadedIds(m, udOld[m])
      <4> HIDE DEF m
      <4> QED BY <3>1, <3>2, InstalledIds, ZenonT(30)
    <3> QED BY <3>1, <3>3
  <2> HIDE DEF Loaded
  <2> QED BY <1>4, <2>1, <2>2
<1>5. n \in S
  <2> HIDE DEF S, Loaded
  <2>1. \A i \in 0 .. n : i \in S
    BY <1>1, <1>3, <1>4, UpTo
  <2> QED BY <1>1, <2>1
<1>6. UNION {Loaded(j) : j \in 1 .. n} = UNION {LoadedIds(m, udOld[m]) : m \in UD!RemoteModules}
  BY <1>1, SMTT(30)
<1> HIDE DEF Loaded
<1> QED BY <1>2, <1>5, <1>6, GivenIds

\* A set that is put into a sequence is its range, without repetition.
LEMMA DataList ==
  ASSUME NEW S, IsFiniteSet(S)
  PROVE  /\ UD!SetToSeq(S) \in Seq(S)
         /\ UD!IsInjective(UD!SetToSeq(S))
         /\ UD!Range(UD!SetToSeq(S)) = S
<1> DEFINE n == Cardinality(S)
           g == UD!SetToSeq(S)
<1>1. n \in Nat /\ ExistsBijection(1 .. n, S)
  BY FS_CardinalityType
<1>2. PICK h \in [1 .. n -> S] : IsInjective(h)
  BY <1>1 DEF ExistsBijection, Bijection, Injection
<1>3. UD!IsInjective(h)
  BY <1>2 DEF IsInjective, UD!IsInjective
<1>4. g \in [1 .. n -> S] /\ UD!IsInjective(g)
  <2>1. UD!Cardinality(S) = n
    BY Zenon DEF UD!Cardinality, Cardinality
  <2> QED BY <1>3, <2>1 DEF UD!SetToSeq
<1> HIDE DEF g
<1>5. g \in Injection(1 .. n, S)
  BY <1>4 DEF Injection, IsInjective, UD!IsInjective
<1>6. IsFiniteSet(1 .. n) /\ Cardinality(1 .. n) = n
  BY <1>1, FS_Interval
<1>7. g \in Surjection(1 .. n, S)
  BY <1>5, <1>6, FS_Injection
<1>8. UD!Range(g) = S
  BY <1>7, <1>4 DEF Surjection, UD!Range
<1>9. g \in Seq(S)
  BY <1>4, <1>1
<1> QED BY <1>4, <1>8, <1>9 DEF g

\* Two lists with nothing in common, one behind the other.
LEMMA Joined ==
  ASSUME NEW S, NEW s \in Seq(S), NEW t \in Seq(S)
  PROVE  /\ s \o t \in Seq(S) /\ UD!Range(s \o t) = UD!Range(s) \cup UD!Range(t)
         /\ UD!IsInjective(s) /\ UD!IsInjective(t) /\ UD!Range(s) \cap UD!Range(t) = {}
              => UD!IsInjective(s \o t)
<1> DEFINE u == s \o t
<1>1. /\ u \in Seq(S) /\ Len(u) = Len(s) + Len(t) /\ Len(s) \in Nat /\ Len(t) \in Nat
      /\ DOMAIN s = 1 .. Len(s) /\ DOMAIN t = 1 .. Len(t) /\ DOMAIN u = 1 .. Len(u)
  OBVIOUS
<1>2. /\ \A i \in 1 .. Len(s) : u[i] = s[i]
      /\ \A i \in 1 .. Len(t) : u[Len(s) + i] = t[i]
  OBVIOUS
<1>3. \A i \in 1 .. Len(u) : i \in 1 .. Len(s) \/ i - Len(s) \in 1 .. Len(t)
  BY <1>1
<1>8. ASSUME NEW i \in 1 .. Len(u), i - Len(s) \in 1 .. Len(t) PROVE u[i] = t[i - Len(s)]
  <2>1. Len(s) + (i - Len(s)) = i
    BY <1>1
  <2> QED BY <1>2, <1>8, <2>1
<1> HIDE DEF u
<1>4. UD!Range(u) = UD!Range(s) \cup UD!Range(t)
  <2>1. UD!Range(u) \subseteq UD!Range(s) \cup UD!Range(t)
    BY <1>1, <1>2, <1>3, <1>8 DEF UD!Range
  <2>2. UD!Range(s) \cup UD!Range(t) \subseteq UD!Range(u)
    <3>1. \A i \in 1 .. Len(s) : i \in 1 .. Len(u)
      BY <1>1
    <3>2. \A i \in 1 .. Len(t) : Len(s) + i \in 1 .. Len(u)
      BY <1>1
    <3> QED BY <1>1, <1>2, <3>1, <3>2 DEF UD!Range
  <2> QED BY <2>1, <2>2
<1>5. ASSUME UD!IsInjective(s), UD!IsInjective(t), UD!Range(s) \cap UD!Range(t) = {},
             NEW i \in 1 .. Len(u), NEW j \in 1 .. Len(u), u[i] = u[j]
      PROVE  i = j
  <2>1. CASE i \in 1 .. Len(s) /\ j \in 1 .. Len(s)
    BY <1>1, <1>2, <1>5, <2>1 DEF UD!IsInjective
  <2>2. CASE i - Len(s) \in 1 .. Len(t) /\ j - Len(s) \in 1 .. Len(t)
    <3>1. t[i - Len(s)] = u[i] /\ t[j - Len(s)] = u[j]
      BY <1>8, <2>2
    <3>2. i - Len(s) = j - Len(s)
      BY <1>1, <1>5, <2>2, <3>1 DEF UD!IsInjective
    <3> QED BY <1>1, <3>2
  <2>3. CASE i \in 1 .. Len(s) /\ j - Len(s) \in 1 .. Len(t)
    <3>1. u[i] \in UD!Range(s) /\ u[j] \in UD!Range(t)
      BY <1>1, <1>2, <1>8, <2>3 DEF UD!Range
    <3> QED BY <1>5, <3>1
  <2>4. CASE i - Len(s) \in 1 .. Len(t) /\ j \in 1 .. Len(s)
    <3>1. u[i] \in UD!Range(t) /\ u[j] \in UD!Range(s)
      BY <1>1, <1>2, <1>8, <2>4 DEF UD!Range
    <3> QED BY <1>5, <3>1
  <2> QED BY <1>3, <2>1, <2>2, <2>3, <2>4
<1>6. UD!IsInjective(s) /\ UD!IsInjective(t) /\ UD!Range(s) \cap UD!Range(t) = {} => UD!IsInjective(u)
  BY <1>1, <1>5 DEF UD!IsInjective
<1> QED BY <1>1, <1>4, <1>6 DEF u

\* The row of a record that a module has loaded.
XmlRow(m, id, base) ==
  [module |-> m, prefix |-> id[1], suffix |-> id[2], noupdate |-> base[id].noupdate]
ModuleRows(m, nodes, base) == {XmlRow(m, id, base) : id \in LoadedIds(m, nodes)}
OldXmlRows(base) == UNION {ModuleRows(m, udOld[m], base) : m \in UD!RemoteModules}

LEMMA RowsListed ==
  ASSUME NEW m, NEW S, NEW nodes \in Seq(S), NEW base
  PROVE  /\ UD!Rows(m, nodes, base) \in Seq(ModuleRows(m, nodes, base))
         /\ UD!IsInjective(UD!Rows(m, nodes, base))
         /\ UD!Range(UD!Rows(m, nodes, base)) = ModuleRows(m, nodes, base)
<1>1. IsFiniteSet(DOMAIN nodes)
  <2>1. DOMAIN nodes = 1 .. Len(nodes) /\ Len(nodes) \in Nat
    OBVIOUS
  <2> QED BY <2>1, FS_Interval
<1>2. IsFiniteSet({XmlRow(m, UD!Id(m, nodes[i]), base) : i \in DOMAIN nodes})
  <2> DEFINE T == {XmlRow(m, UD!Id(m, nodes[i]), base) : i \in DOMAIN nodes}
             f == [i \in DOMAIN nodes |-> XmlRow(m, UD!Id(m, nodes[i]), base)]
  <2>1. f \in Surjection(DOMAIN nodes, T)
    BY DEF Surjection
  <2> QED BY <1>1, <2>1, FS_Surjection
<1>3. ModuleRows(m, nodes, base) = {XmlRow(m, UD!Id(m, nodes[i]), base) : i \in DOMAIN nodes}
  BY DEF ModuleRows, LoadedIds
<1>4. UD!Rows(m, nodes, base) = UD!SetToSeq(ModuleRows(m, nodes, base))
  BY DEF UD!Rows, ModuleRows, LoadedIds, XmlRow
<1> QED BY <1>2, <1>3, <1>4, DataList

\* The rows of the old modules are put one behind the other.
LEMMA OldRowRuns ==
  ASSUME udCase \in Upgrades, UD!Assumption,
         udOld \in [UD!RemoteModules -> Seq(UD!Nodes(UD!Fields))], NEW given
  PROVE  \E h : /\ h[0] = <<>> /\ h[Len(udCase.remote)] = UD!OldRows(given)
                /\ \A i \in 0 .. (Len(udCase.remote) - 1) :
                     h[i + 1] = h[i] \o UD!Rows(udCase.remote[i + 1], udOld[udCase.remote[i + 1]], given)
                /\ \A i \in 0 .. Len(udCase.remote) : h[i] \in Seq(OldXmlRows(given))
<1> DEFINE Op(x, j) == x \o UD!Rows(udCase.remote[j], udOld[udCase.remote[j]], given)
           n == Len(udCase.remote)
           A == Seq(OldXmlRows(given))
           base == <<>>
           op == [x \in A \X (1 .. n) |-> Op(x[1], x[2])]
           f == CHOOSE g : g = [s \in SUBSET (1 .. n) |->
                   IF s = {} THEN base ELSE Op(g[s \ {UD!Max(s)}], UD!Max(s))]
           h == [i \in 0 .. n |-> f[1 .. i]]
<1>1. UD!OldRows(given) = f[1 .. n]
  <2>1. DOMAIN udCase.remote = 1 .. Len(udCase.remote)
    BY CaseModules
  <2> QED BY <2>1 DEF UD!OldRows, UD!FoldLeft, UD!MapThenFoldSet
<1>2. n \in Nat /\ base \in A /\ \A x \in A, i \in 1 .. n : Op(x, i) \in A
  <2>1. /\ n \in Nat /\ \A i \in 1 .. n : udCase.remote[i] \in UD!RemoteModules
    BY CaseModules
  <2>2. ASSUME NEW i \in 1 .. n
        PROVE  UD!Rows(udCase.remote[i], udOld[udCase.remote[i]], given) \in A
    <3>1. UD!Rows(udCase.remote[i], udOld[udCase.remote[i]], given)
            \in Seq(ModuleRows(udCase.remote[i], udOld[udCase.remote[i]], given))
      BY <2>1, RowsListed
    <3>2. ModuleRows(udCase.remote[i], udOld[udCase.remote[i]], given) \subseteq OldXmlRows(given)
      BY <2>1 DEF OldXmlRows
    <3> QED BY <3>1, <3>2
  <2>3. base \in A
    OBVIOUS
  <2>4. ASSUME NEW x \in A, NEW i \in 1 .. n PROVE Op(x, i) \in A
    BY <2>2, ConcatProperties
  <2> QED BY <2>1, <2>3, <2>4
<1>3. \A i \in 0 .. (n - 1) : Op(h[i], i + 1) = h[i] \o UD!Rows(udCase.remote[i + 1], udOld[udCase.remote[i + 1]], given)
  OBVIOUS
<1> HIDE DEF Op, n, A, base
<1>4. op \in [A \X (1 .. n) -> A] /\ \A x \in A, i \in 1 .. n : op[x, i] = Op(x, i)
  BY <1>2, Zenon
<1> HIDE DEF op
<1>5. PICK g : Folds(g, n, A, base, op)
  BY <1>2, <1>4, FoldExists, Zenon
<1>6. ASSUME NEW s \in SUBSET (1 .. n)
      PROVE  g[s] = IF s = {} THEN base ELSE Op(g[s \ {UD!Max(s)}], UD!Max(s))
  <2>1. s # {} => UD!Max(s) \in 1 .. n /\ g[s \ {UD!Max(s)}] \in A
    BY <1>2, <1>5, LastIndex, Zenon DEF Folds
  <2> QED BY <1>4, <1>5, <2>1, Zenon DEF Folds
<1>7. g = [s \in SUBSET (1 .. n) |->
             IF s = {} THEN base ELSE Op(g[s \ {UD!Max(s)}], UD!Max(s))]
  BY <1>5, <1>6, Zenon DEF Folds
<1>8. f = [s \in SUBSET (1 .. n) |->
             IF s = {} THEN base ELSE Op(f[s \ {UD!Max(s)}], UD!Max(s))]
  BY <1>7
<1> HIDE DEF f
<1>9. Follows(f, n, A, base, op)
  <2>1. \A s \in SUBSET (1 .. n) : s # {} => UD!Max(s) \in 1 .. n
    BY <1>2, LastIndex
  <2>2. {} \in SUBSET (1 .. n)
    OBVIOUS
  <2> QED BY <1>4, <1>8, <2>1, <2>2, Zenon DEF Follows
<1>10. IsChain(h, n, A, base, op)
  BY <1>2, <1>4, <1>9, Chain, Zenon
<1>11. h[n] = f[1 .. n] /\ \A i \in 0 .. (n - 1) : i \in 0 .. n /\ i + 1 \in 1 .. n
  BY <1>2
<1> HIDE DEF h
<1>12. \A i \in 0 .. (n - 1) : h[i + 1] = h[i] \o UD!Rows(udCase.remote[i + 1], udOld[udCase.remote[i + 1]], given)
  BY <1>3, <1>4, <1>10, <1>11, Zenon DEF IsChain
<1>13. h[0] = base /\ h[n] = UD!OldRows(given) /\ \A i \in 0 .. n : h[i] \in A
  BY <1>1, <1>10, <1>11, Zenon DEF IsChain
<1> QED BY <1>12, <1>13 DEF n, A, base

LEMMA OldRowsListed ==
  ASSUME udCase \in Upgrades, UD!Assumption,
         udOld \in [UD!RemoteModules -> Seq(UD!Nodes(UD!Fields))], NEW base
  PROVE  /\ UD!OldRows(base) \in Seq(OldXmlRows(base)) /\ UD!IsInjective(UD!OldRows(base))
         /\ UD!Range(UD!OldRows(base)) = OldXmlRows(base)
<1> DEFINE n == Len(udCase.remote)
           Here(i) == ModuleRows(udCase.remote[i], udOld[udCase.remote[i]], base)
<1>1. /\ n \in Nat /\ UD!RemoteModules = {udCase.remote[i] : i \in 1 .. n}
      /\ \A i, j \in 1 .. n : udCase.remote[i] = udCase.remote[j] => i = j
  BY CaseModules
<1>2. PICK h : /\ h[0] = <<>> /\ h[n] = UD!OldRows(base)
               /\ \A i \in 0 .. (n - 1) :
                    h[i + 1] = h[i] \o UD!Rows(udCase.remote[i + 1], udOld[udCase.remote[i + 1]], base)
               /\ \A i \in 0 .. n : h[i] \in Seq(OldXmlRows(base))
  BY OldRowRuns
<1> DEFINE S == {i \in 0 .. n : /\ UD!IsInjective(h[i])
                               /\ UD!Range(h[i]) = UNION {Here(j) : j \in 1 .. i}}
<1>3. 0 \in S
  <2>1. UD!IsInjective(<<>>) /\ UD!Range(<<>>) = {}
    BY DEF UD!IsInjective, UD!Range
  <2>2. UNION {Here(j) : j \in 1 .. 0} = {} /\ 0 \in 0 .. n
    BY <1>1
  <2> HIDE DEF Here
  <2> QED BY <1>2, <2>1, <2>2
<1>4. ASSUME NEW i \in 0 .. (n - 1), i \in S PROVE i + 1 \in S
  <2> DEFINE t == UD!Rows(udCase.remote[i + 1], udOld[udCase.remote[i + 1]], base)
  <2>1. i \in 0 .. n /\ i + 1 \in 0 .. n /\ i + 1 \in 1 .. n /\ 1 .. (i + 1) = (1 .. i) \cup {i + 1}
        /\ i + 1 \notin 1 .. i /\ 1 .. i \subseteq 1 .. n
    BY <1>1
  <2>2. t \in Seq(Here(i + 1)) /\ UD!IsInjective(t) /\ UD!Range(t) = Here(i + 1)
    BY <1>1, <2>1, RowsListed
  <2>3. Here(i + 1) \subseteq OldXmlRows(base)
    BY <1>1, <2>1 DEF OldXmlRows
  <2>4. t \in Seq(OldXmlRows(base))
    BY <2>2, <2>3
  <2>5. \A j \in 1 .. i : Here(j) \cap Here(i + 1) = {}
    BY <1>1, <2>1 DEF ModuleRows, XmlRow
  <2>6. /\ h[i] \in Seq(OldXmlRows(base)) /\ h[i + 1] = h[i] \o t
        /\ UD!IsInjective(h[i]) /\ UD!Range(h[i]) = UNION {Here(j) : j \in 1 .. i}
    BY <1>2, <1>4, <2>1
  <2> HIDE DEF t, Here
  <2>7. UD!Range(h[i]) \cap UD!Range(t) = {}
    BY <2>2, <2>5, <2>6
  <2>8. UD!IsInjective(h[i + 1]) /\ UD!Range(h[i + 1]) = UD!Range(h[i]) \cup UD!Range(t)
    <3> HIDE DEF S
    <3> QED BY <2>2, <2>4, <2>6, <2>7, Joined
  <2>9. UD!Range(h[i + 1]) = UNION {Here(j) : j \in 1 .. (i + 1)}
    BY <2>1, <2>2, <2>6, <2>8
  <2> QED BY <2>1, <2>8, <2>9
<1>5. n \in S
  <2> HIDE DEF S
  <2>1. \A i \in 0 .. n : i \in S
    BY <1>1, <1>3, <1>4, UpTo
  <2> QED BY <1>1, <2>1
<1>6. UNION {Here(j) : j \in 1 .. n} = OldXmlRows(base)
  <2>1. \A j \in 1 .. n : Here(j) \subseteq OldXmlRows(base)
    BY <1>1 DEF OldXmlRows
  <2>2. ASSUME NEW r \in OldXmlRows(base) PROVE \E j \in 1 .. n : r \in Here(j)
    <3>1. PICK m \in UD!RemoteModules : r \in ModuleRows(m, udOld[m], base)
      BY DEF OldXmlRows
    <3>2. PICK j \in 1 .. n : m = udCase.remote[j]
      BY <1>1
    <3> QED BY <3>1, <3>2
  <2> HIDE DEF Here
  <2> QED BY <2>1, <2>2
<1>7. n \in 0 .. n
  BY <1>1
<1> HIDE DEF Here
<1> QED BY <1>2, <1>5, <1>6, <1>7

\* A part of a list.
LEMMA PartOf ==
  ASSUME NEW S, NEW s \in Seq(S), NEW a \in 1 .. (Len(s) + 1), NEW b \in 0 .. Len(s)
  PROVE  /\ SubSeq(s, a, b) \in Seq(S)
         /\ UD!Range(SubSeq(s, a, b)) = {s[j] : j \in a .. b}
         /\ UD!IsInjective(s) => UD!IsInjective(SubSeq(s, a, b))
<1> DEFINE t == SubSeq(s, a, b)
<1>1. /\ t \in Seq(S) /\ DOMAIN t = 1 .. (IF a <= b + 1 THEN b - a + 1 ELSE 0)
      /\ \A i \in DOMAIN t : t[i] = s[a + i - 1] /\ a + i - 1 \in a .. b
  OBVIOUS
<1>2. DOMAIN s = 1 .. Len(s) /\ Len(s) \in Nat
  OBVIOUS
<1>3. \A j \in a .. b : j - a + 1 \in DOMAIN t /\ a + (j - a + 1) - 1 = j /\ j \in DOMAIN s
  BY <1>1, <1>2
<1> HIDE DEF t
<1>4. UD!Range(t) = {s[j] : j \in a .. b}
  <2>1. UD!Range(t) \subseteq {s[j] : j \in a .. b}
    BY <1>1 DEF UD!Range
  <2>2. ASSUME NEW j \in a .. b PROVE s[j] \in UD!Range(t)
    <3>1. t[j - a + 1] = s[j] /\ j - a + 1 \in DOMAIN t
      BY <1>1, <1>3
    <3> QED BY <3>1 DEF UD!Range
  <2> QED BY <2>1, <2>2
<1>5. ASSUME UD!IsInjective(s), NEW i \in DOMAIN t, NEW j \in DOMAIN t, t[i] = t[j] PROVE i = j
  <2>1. /\ s[a + i - 1] = s[a + j - 1]
        /\ a + i - 1 \in DOMAIN s /\ a + j - 1 \in DOMAIN s
    BY <1>1, <1>3, <1>5
  <2>2. a + i - 1 = a + j - 1
    BY <1>5, <2>1 DEF UD!IsInjective
  <2>3. i \in Int /\ j \in Int
    BY <1>1
  <2> QED BY <2>2, <2>3
<1> QED BY <1>1, <1>4, <1>5 DEF t, UD!IsInjective

\* A list without one of its elements.
LEMMA Without ==
  ASSUME NEW S, NEW s \in Seq(S), NEW i \in DOMAIN s
  PROVE  /\ UD!RemoveAt(s, i) \in Seq(S)
         /\ UD!Range(UD!RemoveAt(s, i)) \subseteq UD!Range(s)
         /\ UD!Range(s) \subseteq UD!Range(UD!RemoveAt(s, i)) \cup {s[i]}
         /\ UD!IsInjective(s) => /\ UD!IsInjective(UD!RemoveAt(s, i))
                                 /\ s[i] \notin UD!Range(UD!RemoveAt(s, i))
<1> DEFINE a == SubSeq(s, 1, i - 1)
           b == SubSeq(s, i + 1, Len(s))
<1>1. /\ DOMAIN s = 1 .. Len(s) /\ Len(s) \in Nat /\ i \in Nat
      /\ i + 1 \in 1 .. (Len(s) + 1) /\ 1 \in 1 .. (Len(s) + 1)
      /\ i - 1 \in 0 .. Len(s) /\ Len(s) \in 0 .. Len(s)
  OBVIOUS
<1>2. /\ a \in Seq(S) /\ UD!Range(a) = {s[j] : j \in 1 .. (i - 1)}
      /\ UD!IsInjective(s) => UD!IsInjective(a)
  BY <1>1, PartOf
<1>3. /\ b \in Seq(S) /\ UD!Range(b) = {s[j] : j \in (i + 1) .. Len(s)}
      /\ UD!IsInjective(s) => UD!IsInjective(b)
  BY <1>1, PartOf
<1>4. UD!RemoveAt(s, i) = a \o b
  BY DEF UD!RemoveAt
<1> HIDE DEF a, b
<1>5. UD!RemoveAt(s, i) \in Seq(S) /\ UD!Range(UD!RemoveAt(s, i)) = UD!Range(a) \cup UD!Range(b)
  BY <1>2, <1>3, <1>4, Joined
<1>6. UD!Range(a) \subseteq UD!Range(s) /\ UD!Range(b) \subseteq UD!Range(s)
  <2>1. \A j \in 1 .. (i - 1) : j \in DOMAIN s
    BY <1>1
  <2>2. \A j \in (i + 1) .. Len(s) : j \in DOMAIN s
    BY <1>1
  <2> QED BY <1>2, <1>3, <2>1, <2>2 DEF UD!Range
<1>7. UD!Range(s) \subseteq UD!Range(a) \cup UD!Range(b) \cup {s[i]}
  <2>1. \A j \in DOMAIN s : j \in 1 .. (i - 1) \/ j \in (i + 1) .. Len(s) \/ j = i
    BY <1>1
  <2> QED BY <1>2, <1>3, <2>1 DEF UD!Range
<1>8. ASSUME UD!IsInjective(s)
      PROVE  UD!Range(a) \cap UD!Range(b) = {} /\ s[i] \notin UD!Range(a) \cup UD!Range(b)
  <2>1. \A j \in 1 .. (i - 1), k \in (i + 1) .. Len(s) :
          /\ j \in DOMAIN s /\ k \in DOMAIN s /\ j # k /\ j # i /\ k # i
    BY <1>1
  <2>2. \A j \in 1 .. (i - 1) : j \in DOMAIN s /\ j # i
    BY <1>1
  <2>3. \A k \in (i + 1) .. Len(s) : k \in DOMAIN s /\ k # i
    BY <1>1
  <2> QED BY <1>2, <1>3, <1>8, <2>1, <2>2, <2>3 DEF UD!IsInjective
<1>9. ASSUME UD!IsInjective(s) PROVE UD!IsInjective(UD!RemoveAt(s, i))
  <2>1. UD!IsInjective(a) /\ UD!IsInjective(b) /\ UD!Range(a) \cap UD!Range(b) = {}
    BY <1>2, <1>3, <1>8, <1>9
  <2>2. UD!IsInjective(a \o b)
    BY <1>2, <1>3, <2>1, Joined
  <2> QED BY <1>4, <2>2
<1> QED BY <1>5, <1>6, <1>7, <1>8, <1>9

\* The states of a match.
States(O, N, L) == [old : Seq(O), new : Seq(N), lines : SUBSET L]

Tells(kind, O, N, L) ==
  \A o \in O, n \in N : UD!Fits(kind, o, n) => UD!ToldWith(kind, o, n) \subseteq L

LEMMA RowMatched ==
  ASSUME NEW kind, NEW O, NEW N, NEW L, NEW s \in States(O, N, L), NEW o \in O,
         Tells(kind, O, N, L)
  PROVE  /\ UD!MatchRow(kind, s, o) \in States(O, N, L)
         /\ \/ /\ \A n \in UD!Range(s.new) : ~ UD!Fits(kind, o, n)
               /\ UD!MatchRow(kind, s, o) = [old |-> Append(s.old, o), new |-> s.new, lines |-> s.lines]
            \/ \E n \in UD!Range(s.new) :
                 /\ UD!Fits(kind, o, n)
                 /\ UD!MatchRow(kind, s, o).old = s.old
                 /\ UD!MatchRow(kind, s, o).lines = s.lines \cup UD!ToldWith(kind, o, n)
                 /\ UD!Range(UD!MatchRow(kind, s, o).new) \subseteq UD!Range(s.new)
                 /\ UD!Range(s.new) \subseteq UD!Range(UD!MatchRow(kind, s, o).new) \cup {n}
                 /\ UD!IsInjective(s.new) => /\ UD!IsInjective(UD!MatchRow(kind, s, o).new)
                                             /\ n \notin UD!Range(UD!MatchRow(kind, s, o).new)
<1> DEFINE found == {i \in DOMAIN s.new : UD!Fits(kind, o, s.new[i])}
<1>1. /\ s = [old |-> s.old, new |-> s.new, lines |-> s.lines]
      /\ s.old \in Seq(O) /\ s.new \in Seq(N) /\ s.lines \subseteq L
  BY DEF States
<1>2. CASE found = {}
  <2>1. UD!MatchRow(kind, s, o) = [old |-> Append(s.old, o), new |-> s.new, lines |-> s.lines]
    BY <1>1, <1>2 DEF UD!MatchRow
  <2>2. \A n \in UD!Range(s.new) : ~ UD!Fits(kind, o, n)
    BY <1>2 DEF UD!Range
  <2>3. Append(s.old, o) \in Seq(O)
    BY <1>1
  <2> QED BY <1>1, <2>1, <2>2, <2>3 DEF States
<1>3. CASE found # {}
  <2>1. found \subseteq Nat
    <3>1. DOMAIN s.new = 1 .. Len(s.new)
      BY <1>1
    <3> QED BY <3>1
  <2>2. \E j \in found : \A k \in found : j <= k
    BY <1>3, <2>1, FirstId
  <2> DEFINE i == CHOOSE j \in found : \A k \in found : j <= k
             r == UD!RemoveAt(s.new, i)
  <2>3. i \in found
    BY <2>2
  <2>4. UD!MatchRow(kind, s, o) = [old |-> s.old, new |-> r,
                            lines |-> s.lines \cup UD!ToldWith(kind, o, s.new[i])]
    BY <1>1, <1>3 DEF UD!MatchRow
  <2>5. i \in DOMAIN s.new /\ UD!Fits(kind, o, s.new[i]) /\ s.new[i] \in UD!Range(s.new) /\ s.new[i] \in N
    <3>1. i \in DOMAIN s.new /\ UD!Fits(kind, o, s.new[i])
      BY <2>3
    <3> HIDE DEF i, found
    <3>2. s.new[i] \in UD!Range(s.new)
      BY <3>1, Zenon DEF UD!Range
    <3>3. s.new[i] \in N
      BY <1>1, <3>1
    <3> QED BY <3>1, <3>2, <3>3
  <2> HIDE DEF i
  <2>6. /\ r \in Seq(N) /\ UD!Range(r) \subseteq UD!Range(s.new)
        /\ UD!Range(s.new) \subseteq UD!Range(r) \cup {s.new[i]}
        /\ UD!IsInjective(s.new) => UD!IsInjective(r) /\ s.new[i] \notin UD!Range(r)
    BY <1>1, <2>5, Without
  <2>7. UD!ToldWith(kind, o, s.new[i]) \subseteq L
    BY <2>5 DEF Tells
  <2> HIDE DEF r, found
  <2>8. UD!MatchRow(kind, s, o) \in States(O, N, L)
    BY <1>1, <2>4, <2>6, <2>7 DEF States
  <2> QED BY <2>4, <2>5, <2>6, <2>8
<1> QED BY <1>2, <1>3

\* Matching takes one old row after the other.
LEMMA MatchRuns ==
  ASSUME NEW kind, NEW O, NEW N, NEW L, NEW st \in States(O, N, L), Tells(kind, O, N, L)
  PROVE  \E h : /\ h[0] = [st EXCEPT !.old = <<>>] /\ h[Len(st.old)] = UD!MatchRows(st, kind)
                /\ \A i \in 0 .. (Len(st.old) - 1) :
                     h[i + 1] = UD!MatchRow(kind, h[i], st.old[i + 1])
                /\ \A i \in 0 .. Len(st.old) : h[i] \in States(O, N, L)
<1> DEFINE Op(x, j) == UD!MatchRow(kind, x, st.old[j])
           n == Len(st.old)
           A == States(O, N, L)
           base == [st EXCEPT !.old = <<>>]
           op == [x \in A \X (1 .. n) |-> Op(x[1], x[2])]
           f == CHOOSE g : g = [s \in SUBSET (1 .. n) |->
                   IF s = {} THEN base ELSE Op(g[s \ {UD!Max(s)}], UD!Max(s))]
           h == [i \in 0 .. n |-> f[1 .. i]]
<1>1. UD!MatchRows(st, kind) = f[1 .. n]
  <2>1. DOMAIN st.old = 1 .. Len(st.old)
    BY DEF States
  <2> QED BY <2>1 DEF UD!MatchRows, UD!FoldLeft, UD!MapThenFoldSet
<1>2. n \in Nat /\ base \in A /\ \A x \in A, i \in 1 .. n : Op(x, i) \in A
  <2>1. /\ st.old \in Seq(O) /\ st.new \in Seq(N) /\ st.lines \subseteq L
        /\ base = [old |-> <<>>, new |-> st.new, lines |-> st.lines]
    BY DEF States
  <2>2. base \in A
    <3>1. <<>> \in Seq(O)
      OBVIOUS
    <3> QED BY <2>1, <3>1, Zenon DEF States
  <2>3. n \in Nat /\ \A i \in 1 .. n : st.old[i] \in O
    BY <2>1
  <2>4. ASSUME NEW x \in States(O, N, L), NEW i \in 1 .. n PROVE Op(x, i) \in States(O, N, L)
    BY <2>3, RowMatched
  <2> QED BY <2>2, <2>3, <2>4
<1>3. \A i \in 0 .. (n - 1) : Op(h[i], i + 1) = UD!MatchRow(kind, h[i], st.old[i + 1])
  OBVIOUS
<1> HIDE DEF Op, n, A, base
<1>4. op \in [A \X (1 .. n) -> A] /\ \A x \in A, i \in 1 .. n : op[x, i] = Op(x, i)
  BY <1>2, Zenon
<1> HIDE DEF op
<1>5. PICK g : Folds(g, n, A, base, op)
  BY <1>2, <1>4, FoldExists, Zenon
<1>6. ASSUME NEW s \in SUBSET (1 .. n)
      PROVE  g[s] = IF s = {} THEN base ELSE Op(g[s \ {UD!Max(s)}], UD!Max(s))
  <2>1. s # {} => UD!Max(s) \in 1 .. n /\ g[s \ {UD!Max(s)}] \in A
    BY <1>2, <1>5, LastIndex, Zenon DEF Folds
  <2> QED BY <1>4, <1>5, <2>1, Zenon DEF Folds
<1>7. g = [s \in SUBSET (1 .. n) |->
             IF s = {} THEN base ELSE Op(g[s \ {UD!Max(s)}], UD!Max(s))]
  BY <1>5, <1>6, Zenon DEF Folds
<1>8. f = [s \in SUBSET (1 .. n) |->
             IF s = {} THEN base ELSE Op(f[s \ {UD!Max(s)}], UD!Max(s))]
  BY <1>7
<1> HIDE DEF f
<1>9. Follows(f, n, A, base, op)
  <2>1. \A s \in SUBSET (1 .. n) : s # {} => UD!Max(s) \in 1 .. n
    BY <1>2, LastIndex
  <2>2. {} \in SUBSET (1 .. n)
    OBVIOUS
  <2> QED BY <1>4, <1>8, <2>1, <2>2, Zenon DEF Follows
<1>10. IsChain(h, n, A, base, op)
  BY <1>2, <1>4, <1>9, Chain, Zenon
<1>11. h[n] = f[1 .. n] /\ \A i \in 0 .. (n - 1) : i \in 0 .. n /\ i + 1 \in 1 .. n
  BY <1>2
<1> HIDE DEF h
<1>12. \A i \in 0 .. (n - 1) : h[i + 1] = UD!MatchRow(kind, h[i], st.old[i + 1])
  BY <1>3, <1>4, <1>10, <1>11, Zenon DEF IsChain
<1>13. h[0] = base /\ h[n] = UD!MatchRows(st, kind) /\ \A i \in 0 .. n : h[i] \in A
  BY <1>1, <1>10, <1>11, Zenon DEF IsChain
<1> QED BY <1>12, <1>13 DEF n, A, base

\* What is true when the first k old rows of s have been matched, t being what there is then.
Pair(kind, s, o, n) == o \in UD!Range(s.old) /\ n \in UD!Range(s.new) /\ UD!Fits(kind, o, n)
Matched(kind, s, t, k) ==
  /\ UD!Range(t.old) \subseteq {s.old[j] : j \in 1 .. k} /\ UD!Range(t.new) \subseteq UD!Range(s.new)
  /\ s.lines \subseteq t.lines
  /\ \A j \in 1 .. k : \/ s.old[j] \in UD!Range(t.old)
                      \/ \E n : Pair(kind, s, s.old[j], n) /\ UD!ToldWith(kind, s.old[j], n) \subseteq t.lines
  /\ \A n \in UD!Range(s.new) :
        \/ n \in UD!Range(t.new)
        \/ \E o : Pair(kind, s, o, n) /\ UD!ToldWith(kind, o, n) \subseteq t.lines
  /\ \A l \in t.lines : l \in s.lines \/ \E o, n : Pair(kind, s, o, n) /\ l \in UD!ToldWith(kind, o, n)

LEMMA OneMatched ==
  ASSUME NEW kind, NEW O, NEW N, NEW L, NEW s \in States(O, N, L), NEW t \in States(O, N, L),
         Tells(kind, O, N, L),
         NEW k \in 0 .. (Len(s.old) - 1), Matched(kind, s, t, k)
  PROVE  Matched(kind, s, UD!MatchRow(kind, t, s.old[k + 1]), k + 1)
<1> DEFINE o == s.old[k + 1]
           u == UD!MatchRow(kind, t, o)
<1>1. /\ Len(s.old) \in Nat /\ k + 1 \in 1 .. Len(s.old) /\ DOMAIN s.old = 1 .. Len(s.old)
      /\ 1 .. (k + 1) = (1 .. k) \cup {k + 1} /\ t.old \in Seq(O) /\ s.old \in Seq(O)
  BY DEF States
<1>2. o \in O /\ o \in UD!Range(s.old)
  <2>1. o \in O
    BY <1>1
  <2>2. o \in UD!Range(s.old)
    BY <1>1, Zenon DEF UD!Range
  <2> QED BY <2>1, <2>2
<1>3. {s.old[j] : j \in 1 .. (k + 1)} = {s.old[j] : j \in 1 .. k} \cup {o}
  BY <1>1
<1> HIDE DEF o, u
<1>4. ASSUME u = [old |-> Append(t.old, o), new |-> t.new, lines |-> t.lines]
      PROVE  Matched(kind, s, u, k + 1)
  <2>1. UD!Range(Append(t.old, o)) = UD!Range(t.old) \cup {o}
    <3>1. /\ DOMAIN Append(t.old, o) = DOMAIN t.old \cup {Len(t.old) + 1}
          /\ \A i \in DOMAIN t.old : Append(t.old, o)[i] = t.old[i]
          /\ Append(t.old, o)[Len(t.old) + 1] = o
      BY <1>1, <1>2
    <3> QED BY <3>1 DEF UD!Range
  <2>2. u.old = Append(t.old, o) /\ u.new = t.new /\ u.lines = t.lines
    BY <1>4
  <2>3. ASSUME NEW j \in 1 .. (k + 1)
        PROVE  \/ s.old[j] \in UD!Range(u.old)
               \/ \E n : Pair(kind, s, s.old[j], n) /\ UD!ToldWith(kind, s.old[j], n) \subseteq u.lines
    <3>1. CASE j = k + 1
      BY <2>1, <2>2, <3>1 DEF o
    <3>2. CASE j \in 1 .. k
      BY <2>1, <2>2, <3>2 DEF Matched
    <3> QED BY <1>1, <3>1, <3>2
  <2> QED BY <1>1, <1>3, <2>1, <2>2, <2>3 DEF Matched
<1>5. ASSUME NEW n \in UD!Range(t.new),
             UD!Fits(kind, o, n), u.old = t.old,
             u.lines = t.lines \cup UD!ToldWith(kind, o, n),
             UD!Range(u.new) \subseteq UD!Range(t.new),
             UD!Range(t.new) \subseteq UD!Range(u.new) \cup {n}
      PROVE  Matched(kind, s, u, k + 1)
  <2>1. Pair(kind, s, o, n) /\ UD!ToldWith(kind, o, n) \subseteq u.lines /\ t.lines \subseteq u.lines
    BY <1>2, <1>5 DEF Pair, Matched
  <2>2. ASSUME NEW j \in 1 .. (k + 1)
        PROVE  \/ s.old[j] \in UD!Range(u.old)
               \/ \E x : Pair(kind, s, s.old[j], x) /\ UD!ToldWith(kind, s.old[j], x) \subseteq u.lines
    <3>1. CASE j = k + 1
      BY <2>1, <3>1 DEF o
    <3>2. CASE j \in 1 .. k
      BY <1>5, <2>1, <3>2 DEF Matched
    <3> QED BY <1>1, <3>1, <3>2
  <2>3. ASSUME NEW x \in UD!Range(s.new)
        PROVE  \/ x \in UD!Range(u.new)
               \/ \E y : Pair(kind, s, y, x) /\ UD!ToldWith(kind, y, x) \subseteq u.lines
    <3>1. CASE x = n
      BY <2>1, <3>1
    <3>2. CASE x # n /\ x \in UD!Range(t.new)
      BY <1>5, <3>2
    <3>3. CASE x \notin UD!Range(t.new)
      <4>1. PICK y : Pair(kind, s, y, x) /\ UD!ToldWith(kind, y, x) \subseteq t.lines
        BY <3>3 DEF Matched
      <4> QED BY <2>1, <4>1
    <3> QED BY <3>1, <3>2, <3>3
  <2>4. ASSUME NEW l \in u.lines
        PROVE  l \in s.lines \/ \E y, x : Pair(kind, s, y, x) /\ l \in UD!ToldWith(kind, y, x)
    <3>1. CASE l \in t.lines
      BY <3>1 DEF Matched
    <3>2. CASE l \in UD!ToldWith(kind, o, n)
      BY <2>1, <3>2
    <3> QED BY <1>5, <3>1, <3>2
  <2>5. /\ UD!Range(u.old) \subseteq {s.old[j] : j \in 1 .. (k + 1)}
        /\ UD!Range(u.new) \subseteq UD!Range(s.new) /\ s.lines \subseteq u.lines
    BY <1>3, <1>5, <2>1 DEF Matched
  <2> QED BY <2>2, <2>3, <2>4, <2>5 DEF Matched
<1>6. \/ u = [old |-> Append(t.old, o), new |-> t.new, lines |-> t.lines]
      \/ \E n \in UD!Range(t.new) :
           /\ UD!Fits(kind, o, n) /\ u.old = t.old
           /\ u.lines = t.lines \cup UD!ToldWith(kind, o, n)
           /\ UD!Range(u.new) \subseteq UD!Range(t.new)
           /\ UD!Range(t.new) \subseteq UD!Range(u.new) \cup {n}
  BY <1>2, RowMatched, Zenon DEF u
<1>7. Matched(kind, s, u, k + 1)
  <2>1. CASE u = [old |-> Append(t.old, o), new |-> t.new, lines |-> t.lines]
    BY <1>4, <2>1
  <2>2. CASE u # [old |-> Append(t.old, o), new |-> t.new, lines |-> t.lines]
    <3>1. PICK n \in UD!Range(t.new) :
            /\ UD!Fits(kind, o, n) /\ u.old = t.old
            /\ u.lines = t.lines \cup UD!ToldWith(kind, o, n)
            /\ UD!Range(u.new) \subseteq UD!Range(t.new)
            /\ UD!Range(t.new) \subseteq UD!Range(u.new) \cup {n}
      BY <1>6, <2>2, Zenon
    <3> QED BY <1>5, <3>1
  <2> QED BY <2>1, <2>2
<1> QED BY <1>7 DEF o, u

\* What matching leaves and tells.
LEMMA Match ==
  ASSUME NEW kind, NEW O, NEW N, NEW L, NEW st \in States(O, N, L),
         Tells(kind, O, N, L)
  PROVE  /\ UD!MatchRows(st, kind) \in States(O, N, L)
         /\ Matched(kind, st, UD!MatchRows(st, kind), Len(st.old))
<1> DEFINE n == Len(st.old)
<1>1. n \in Nat /\ st.old \in Seq(O) /\ st.new \in Seq(N)
  BY DEF States
<1>2. PICK h : /\ h[0] = [st EXCEPT !.old = <<>>] /\ h[n] = UD!MatchRows(st, kind)
               /\ \A i \in 0 .. (n - 1) : h[i + 1] = UD!MatchRow(kind, h[i], st.old[i + 1])
               /\ \A i \in 0 .. n : h[i] \in States(O, N, L)
  BY MatchRuns
<1> DEFINE S == {i \in 0 .. n : Matched(kind, st, h[i], i)}
<1>3. 0 \in S
  <2>1. h[0].old = <<>> /\ h[0].new = st.new /\ h[0].lines = st.lines
    BY <1>2 DEF States
  <2>2. UD!Range(<<>>) = {}
    BY DEF UD!Range
  <2> QED BY <1>1, <2>1, <2>2 DEF Matched
<1>4. ASSUME NEW i \in 0 .. (n - 1), i \in S PROVE i + 1 \in S
  <2>1. i \in 0 .. n /\ i + 1 \in 0 .. n
    BY <1>1
  <2>2. h[i] \in States(O, N, L) /\ Matched(kind, st, h[i], i) /\ h[i + 1] = UD!MatchRow(kind, h[i], st.old[i + 1])
    BY <1>2, <1>4, <2>1
  <2>3. Matched(kind, st, h[i + 1], i + 1)
    <3> HIDE DEF S
    <3> QED BY <2>2, OneMatched
  <2> QED BY <2>1, <2>3
<1>5. n \in S
  <2> HIDE DEF S
  <2>1. \A i \in 0 .. n : i \in S
    BY <1>1, <1>3, <1>4, UpTo
  <2> QED BY <1>1, <2>1
<1>6. n \in 0 .. n
  BY <1>1
<1> QED BY <1>2, <1>5, <1>6

\* Two rows that fit each other only are taken together.
LEMMA Paired ==
  ASSUME NEW kind, NEW O, NEW N, NEW L, NEW st \in States(O, N, L),
         Tells(kind, O, N, L),
         UD!IsInjective(st.old), UD!IsInjective(st.new), NEW o, NEW n, Pair(kind, st, o, n),
         \A x : Pair(kind, st, o, x) => x = n, \A x : Pair(kind, st, x, n) => x = o
  PROVE  /\ o \notin UD!Range(UD!MatchRows(st, kind).old)
         /\ n \notin UD!Range(UD!MatchRows(st, kind).new)
         /\ UD!ToldWith(kind, o, n) \subseteq UD!MatchRows(st, kind).lines
<1> DEFINE k == Len(st.old)
<1>1. k \in Nat /\ st.old \in Seq(O) /\ st.new \in Seq(N) /\ DOMAIN st.old = 1 .. k
  BY DEF States
<1>2. PICK h : /\ h[0] = [st EXCEPT !.old = <<>>] /\ h[k] = UD!MatchRows(st, kind)
               /\ \A i \in 0 .. (k - 1) : h[i + 1] = UD!MatchRow(kind, h[i], st.old[i + 1])
               /\ \A i \in 0 .. k : h[i] \in States(O, N, L)
  BY MatchRuns
<1>3. PICK j \in 1 .. k : st.old[j] = o
  BY <1>1 DEF Pair, UD!Range
<1> DEFINE Taken(t, i) == /\ UD!IsInjective(t.new) /\ UD!Range(t.new) \subseteq UD!Range(st.new)
                          /\ o \notin UD!Range(t.old)
                          /\ n \in UD!Range(t.new) <=> i < j
           S == {i \in 0 .. k : Taken(h[i], i)}
<1>4. 0 \in S
  <2>1. h[0].old = <<>> /\ h[0].new = st.new
    BY <1>2 DEF States
  <2>2. UD!Range(<<>>) = {} /\ 0 < j
    BY DEF UD!Range
  <2> QED BY <1>1, <2>1, <2>2 DEF Pair
<1>5. ASSUME NEW i \in 0 .. (k - 1), i \in S PROVE i + 1 \in S
  <2> DEFINE p == st.old[i + 1]
             s == h[i]
             u == h[i + 1]
  <2>1. i \in 0 .. k /\ i + 1 \in 0 .. k /\ i + 1 \in 1 .. k /\ i \in Nat /\ j \in Nat
    BY <1>1
  <2>2. /\ s \in States(O, N, L) /\ Taken(s, i) /\ p \in O /\ p \in UD!Range(st.old)
        /\ u = UD!MatchRow(kind, s, p)
    <3>1. p \in O
      BY <1>1, <2>1
    <3>2. p \in UD!Range(st.old)
      BY <1>1, <2>1, Zenon DEF UD!Range
    <3> QED BY <1>2, <1>5, <2>1, <3>1, <3>2
  <2>3. p = o <=> i + 1 = j
    BY <1>1, <1>3, <2>1 DEF UD!IsInjective
  <2> HIDE DEF p, s, u, Taken
  <2>4. CASE /\ \A x \in UD!Range(s.new) : ~ UD!Fits(kind, p, x)
             /\ u = [old |-> Append(s.old, p), new |-> s.new, lines |-> s.lines]
    <3>1. u.new = s.new /\ u.old = Append(s.old, p) /\ s.old \in Seq(O)
      BY <2>2, <2>4 DEF States
    <3>2. UD!Range(Append(s.old, p)) \subseteq UD!Range(s.old) \cup {p}
      <4>1. /\ DOMAIN Append(s.old, p) = DOMAIN s.old \cup {Len(s.old) + 1}
            /\ \A x \in DOMAIN s.old : Append(s.old, p)[x] = s.old[x]
            /\ Append(s.old, p)[Len(s.old) + 1] = p
        BY <2>2, <3>1
      <4> QED BY <4>1 DEF UD!Range
    <3>3. i + 1 # j
      <4> SUFFICES ASSUME i + 1 = j PROVE FALSE
        OBVIOUS
      <4>1. i < j /\ p = o
        BY <2>1, <2>3
      <4> QED BY <2>2, <2>4, <4>1 DEF Taken, Pair
    <3>4. i < j <=> i + 1 < j
      BY <2>1, <3>3
    <3>5. Taken(u, i + 1)
      BY <2>2, <2>3, <3>1, <3>2, <3>3, <3>4 DEF Taken
    <3> QED BY <2>1, <3>5 DEF u
  <2>5. ASSUME NEW x \in UD!Range(s.new), UD!Fits(kind, p, x), u.old = s.old,
               UD!Range(u.new) \subseteq UD!Range(s.new),
               UD!Range(s.new) \subseteq UD!Range(u.new) \cup {x},
               UD!IsInjective(s.new) => UD!IsInjective(u.new) /\ x \notin UD!Range(u.new)
        PROVE  Taken(u, i + 1)
    <3>1. Pair(kind, st, p, x)
      BY <2>2, <2>5 DEF Taken, Pair
    <3>2. p = o <=> x = n
      BY <3>1
    <3>3. n \in UD!Range(u.new) <=> i + 1 < j
      <4>1. CASE p = o
        BY <2>1, <2>2, <2>3, <2>5, <3>2, <4>1 DEF Taken
      <4>2. CASE p # o
        <5>1. i < j <=> i + 1 < j
          BY <2>1, <2>3, <4>2
        <5> QED BY <2>2, <2>5, <3>2, <4>2, <5>1 DEF Taken
      <4> QED BY <4>1, <4>2
    <3> QED BY <2>2, <2>5, <3>3 DEF Taken
  <2>6. \/ /\ \A x \in UD!Range(s.new) : ~ UD!Fits(kind, p, x)
           /\ u = [old |-> Append(s.old, p), new |-> s.new, lines |-> s.lines]
        \/ \E x \in UD!Range(s.new) :
             /\ UD!Fits(kind, p, x) /\ u.old = s.old
             /\ UD!Range(u.new) \subseteq UD!Range(s.new)
             /\ UD!Range(s.new) \subseteq UD!Range(u.new) \cup {x}
             /\ UD!IsInjective(s.new) => UD!IsInjective(u.new) /\ x \notin UD!Range(u.new)
    BY <2>2, RowMatched, Zenon
  <2>7. Taken(u, i + 1)
    BY <2>4, <2>5, <2>6 DEF u
  <2> QED BY <2>1, <2>7 DEF u
<1>6. k \in S
  <2> HIDE DEF S
  <2>1. \A i \in 0 .. k : i \in S
    BY <1>1, <1>4, <1>5, UpTo
  <2> QED BY <1>1, <2>1
<1>7. /\ o \notin UD!Range(UD!MatchRows(st, kind).old)
      /\ n \notin UD!Range(UD!MatchRows(st, kind).new)
  <2>1. ~ (k < j)
    BY <1>1
  <2> QED BY <1>2, <1>6, <2>1
<1>8. UD!ToldWith(kind, o, n) \subseteq UD!MatchRows(st, kind).lines
  <2>1. Matched(kind, st, UD!MatchRows(st, kind), k)
    BY Match, Zenon
  <2>2. PICK x : Pair(kind, st, o, x) /\ UD!ToldWith(kind, o, x) \subseteq UD!MatchRows(st, kind).lines
    BY <1>3, <1>7, <2>1 DEF Matched
  <2> QED BY <2>2
<1> QED BY <1>7, <1>8

\* The rows of records of another module are left out one after the other.
LEMMA OwnRowRuns ==
  ASSUME NEW R, NEW rows \in Seq(R)
  PROVE  \E h : /\ h[0] = <<>> /\ h[Len(rows)] = UD!WithoutUpdates(rows)
                /\ \A i \in 0 .. (Len(rows) - 1) :
                     h[i + 1] = (IF rows[i + 1].module = rows[i + 1].prefix THEN Append(h[i], rows[i + 1]) ELSE h[i])
                /\ \A i \in 0 .. Len(rows) : h[i] \in Seq(R)
<1> DEFINE Op(x, j) == (IF rows[j].module = rows[j].prefix THEN Append(x, rows[j]) ELSE x)
           n == Len(rows)
           A == Seq(R)
           base == <<>>
           op == [x \in A \X (1 .. n) |-> Op(x[1], x[2])]
           f == CHOOSE g : g = [s \in SUBSET (1 .. n) |->
                   IF s = {} THEN base ELSE Op(g[s \ {UD!Max(s)}], UD!Max(s))]
           h == [i \in 0 .. n |-> f[1 .. i]]
<1>1. UD!WithoutUpdates(rows) = f[1 .. n]
  <2>1. DOMAIN rows = 1 .. Len(rows)
    OBVIOUS
  <2> QED BY <2>1 DEF UD!WithoutUpdates, UD!FoldLeft, UD!MapThenFoldSet
<1>2. n \in Nat /\ base \in A /\ \A x \in A, i \in 1 .. n : Op(x, i) \in A
  <2>1. n \in Nat /\ base \in A /\ \A i \in 1 .. n : rows[i] \in R
    OBVIOUS
  <2>2. ASSUME NEW x \in Seq(R), NEW i \in 1 .. n PROVE Op(x, i) \in Seq(R)
    BY <2>1
  <2> QED BY <2>1, <2>2
<1>3. \A i \in 0 .. (n - 1) : Op(h[i], i + 1) = (IF rows[i + 1].module = rows[i + 1].prefix THEN Append(h[i], rows[i + 1]) ELSE h[i])
  OBVIOUS
<1> HIDE DEF Op, n, A, base
<1>4. op \in [A \X (1 .. n) -> A] /\ \A x \in A, i \in 1 .. n : op[x, i] = Op(x, i)
  BY <1>2, Zenon
<1> HIDE DEF op
<1>5. PICK g : Folds(g, n, A, base, op)
  BY <1>2, <1>4, FoldExists, Zenon
<1>6. ASSUME NEW s \in SUBSET (1 .. n)
      PROVE  g[s] = IF s = {} THEN base ELSE Op(g[s \ {UD!Max(s)}], UD!Max(s))
  <2>1. s # {} => UD!Max(s) \in 1 .. n /\ g[s \ {UD!Max(s)}] \in A
    BY <1>2, <1>5, LastIndex, Zenon DEF Folds
  <2> QED BY <1>4, <1>5, <2>1, Zenon DEF Folds
<1>7. g = [s \in SUBSET (1 .. n) |->
             IF s = {} THEN base ELSE Op(g[s \ {UD!Max(s)}], UD!Max(s))]
  BY <1>5, <1>6, Zenon DEF Folds
<1>8. f = [s \in SUBSET (1 .. n) |->
             IF s = {} THEN base ELSE Op(f[s \ {UD!Max(s)}], UD!Max(s))]
  BY <1>7
<1> HIDE DEF f
<1>9. Follows(f, n, A, base, op)
  <2>1. \A s \in SUBSET (1 .. n) : s # {} => UD!Max(s) \in 1 .. n
    BY <1>2, LastIndex
  <2>2. {} \in SUBSET (1 .. n)
    OBVIOUS
  <2> QED BY <1>4, <1>8, <2>1, <2>2, Zenon DEF Follows
<1>10. IsChain(h, n, A, base, op)
  BY <1>2, <1>4, <1>9, Chain, Zenon
<1>11. h[n] = f[1 .. n] /\ \A i \in 0 .. (n - 1) : i \in 0 .. n /\ i + 1 \in 1 .. n
  BY <1>2
<1> HIDE DEF h
<1>12. \A i \in 0 .. (n - 1) : h[i + 1] = (IF rows[i + 1].module = rows[i + 1].prefix THEN Append(h[i], rows[i + 1]) ELSE h[i])
  BY <1>3, <1>4, <1>10, <1>11, Zenon DEF IsChain
<1>13. h[0] = base /\ h[n] = UD!WithoutUpdates(rows) /\ \A i \in 0 .. n : h[i] \in A
  BY <1>1, <1>10, <1>11, Zenon DEF IsChain
<1> QED BY <1>12, <1>13 DEF n, A, base

\* What is left of a list are the rows of the module's own records.
LEMMA OwnRows ==
  ASSUME NEW S, NEW rows \in Seq(S)
  PROVE  /\ UD!WithoutUpdates(rows) \in Seq(S)
         /\ UD!Range(UD!WithoutUpdates(rows)) = {r \in UD!Range(rows) : r.module = r.prefix}
<1> DEFINE n == Len(rows)
<1>1. n \in Nat /\ DOMAIN rows = 1 .. n
  OBVIOUS
<1>2. PICK h : /\ h[0] = <<>> /\ h[n] = UD!WithoutUpdates(rows)
               /\ \A i \in 0 .. (n - 1) :
                    h[i + 1] = IF rows[i + 1].module = rows[i + 1].prefix
                               THEN Append(h[i], rows[i + 1]) ELSE h[i]
               /\ \A i \in 0 .. n : h[i] \in Seq(S)
  BY OwnRowRuns, Zenon
<1> DEFINE Mine(i) == {rows[j] : j \in {x \in 1 .. i : rows[x].module = rows[x].prefix}}
           T == {i \in 0 .. n : UD!Range(h[i]) = Mine(i)}
<1>3. 0 \in T
  <2>1. UD!Range(<<>>) = {}
    BY DEF UD!Range
  <2> QED BY <1>1, <1>2, <2>1
<1>4. ASSUME NEW i \in 0 .. (n - 1), i \in T PROVE i + 1 \in T
  <2>1. i \in 0 .. n /\ i + 1 \in 0 .. n /\ i + 1 \in 1 .. n /\ 1 .. (i + 1) = (1 .. i) \cup {i + 1}
    BY <1>1
  <2>2. h[i] \in Seq(S) /\ rows[i + 1] \in S /\ UD!Range(h[i]) = Mine(i)
    <3>1. h[i] \in Seq(S)
      BY <1>2, <2>1
    <3>2. rows[i + 1] \in S
      BY <1>1, <2>1
    <3> QED BY <1>4, <3>1, <3>2, Zenon
  <2>3. UD!Range(Append(h[i], rows[i + 1])) = UD!Range(h[i]) \cup {rows[i + 1]}
    <3> DEFINE a == Append(h[i], rows[i + 1])
    <3>1. /\ DOMAIN a = DOMAIN h[i] \cup {Len(h[i]) + 1}
          /\ \A x \in DOMAIN h[i] : a[x] = h[i][x]
          /\ a[Len(h[i]) + 1] = rows[i + 1]
      <4> HIDE DEF T
      <4> QED BY <2>2
    <3> HIDE DEF a
    <3>2. UD!Range(a) = UD!Range(h[i]) \cup {rows[i + 1]}
      BY <3>1 DEF UD!Range
    <3> QED BY <3>2 DEF a
  <2>4. h[i + 1] = IF rows[i + 1].module = rows[i + 1].prefix
                   THEN Append(h[i], rows[i + 1]) ELSE h[i]
    BY <1>2
  <2>5. Mine(i + 1) = Mine(i) \cup (IF rows[i + 1].module = rows[i + 1].prefix THEN {rows[i + 1]} ELSE {})
    BY <2>1
  <2> HIDE DEF Mine
  <2>6. UD!Range(h[i + 1]) = Mine(i + 1)
    BY <2>2, <2>3, <2>4, <2>5
  <2> QED BY <2>1, <2>6
<1>5. n \in T
  <2> HIDE DEF T
  <2>1. \A i \in 0 .. n : i \in T
    BY <1>1, <1>3, <1>4, UpTo
  <2> QED BY <1>1, <2>1
<1>6. Mine(n) = {r \in UD!Range(rows) : r.module = r.prefix}
  BY <1>1 DEF UD!Range
<1>7. n \in 0 .. n
  BY <1>1
<1> HIDE DEF Mine
<1> QED BY <1>2, <1>5, <1>6, <1>7

\* The lines there may be.
XmlLines(O, N) == {UD!XmlLine(x[1], x[2], x[3]) : x \in (O \cup N) \X {"", "DEL", "NEW"} \X BOOLEAN}

LEMMA LinesTold == ASSUME NEW kind, NEW O, NEW N PROVE Tells(kind, O, N, XmlLines(O, N))
<1> SUFFICES ASSUME NEW o \in O, NEW n \in N PROVE UD!ToldWith(kind, o, n) \subseteq XmlLines(O, N)
  BY DEF Tells
<1>1. ASSUME NEW r \in O \cup N, NEW t \in {"", "DEL", "NEW"}, NEW b \in BOOLEAN
      PROVE  UD!XmlLine(r, t, b) \in XmlLines(O, N)
  <2> DEFINE x == <<r, t, b>>
  <2>1. x \in (O \cup N) \X {"", "DEL", "NEW"} \X BOOLEAN /\ x[1] = r /\ x[2] = t /\ x[3] = b
    BY Zenon
  <2>2. UD!XmlLine(r, t, b) = UD!XmlLine(x[1], x[2], x[3])
    BY <2>1, Zenon
  <2> HIDE DEF x
  <2> QED BY <2>1, <2>2, Zenon DEF XmlLines
<1> DEFINE b == o.noupdate # n.noupdate
<1>2. b \in BOOLEAN
  OBVIOUS
<1>3. UD!ToldWith(kind, o, n) \subseteq
        {UD!XmlLine(n, "", TRUE), UD!XmlLine(o, "DEL", FALSE), UD!XmlLine(n, "NEW", b)}
  BY Zenon DEF UD!ToldWith
<1> HIDE DEF b
<1> QED BY <1>1, <1>2, <1>3, Zenon

\* The lines of a pair that is told as gone and new.
Passed(s, t) ==
  /\ UD!Range(t.old) \subseteq UD!Range(s.old) /\ UD!Range(t.new) \subseteq UD!Range(s.new)
  /\ s.lines \subseteq t.lines
  /\ \A o \in UD!Range(s.old) : o \in UD!Range(t.old) \/ UD!XmlLine(o, "DEL", FALSE) \in t.lines
  /\ \A n \in UD!Range(s.new) :
        n \in UD!Range(t.new) \/ \E b : UD!XmlLine(n, "NEW", b) \in t.lines
  /\ \A l \in t.lines : \/ l \in s.lines
                       \/ \E r \in UD!Range(s.old) \cup UD!Range(s.new) :
                            \E x, b : l = UD!XmlLine(r, x, b)

LEMMA Pass ==
  ASSUME NEW kind, kind # "direct", NEW O, NEW N, NEW L, NEW s \in States(O, N, L),
         Tells(kind, O, N, L)
  PROVE  UD!MatchRows(s, kind) \in States(O, N, L) /\ Passed(s, UD!MatchRows(s, kind))
<1> DEFINE t == UD!MatchRows(s, kind)
<1>1. t \in States(O, N, L) /\ Matched(kind, s, t, Len(s.old))
  BY Match
<1>2. DOMAIN s.old = 1 .. Len(s.old)
  BY DEF States
<1> HIDE DEF t
<1>3. \A o, n : /\ UD!XmlLine(o, "DEL", FALSE) \in UD!ToldWith(kind, o, n)
                /\ UD!XmlLine(n, "NEW", o.noupdate # n.noupdate) \in UD!ToldWith(kind, o, n)
                /\ \A l \in UD!ToldWith(kind, o, n) :
                     \/ l = UD!XmlLine(o, "DEL", FALSE)
                     \/ l = UD!XmlLine(n, "NEW", o.noupdate # n.noupdate)
  BY Zenon DEF UD!ToldWith
<1>4. UD!Range(s.old) = {s.old[j] : j \in 1 .. Len(s.old)}
  BY <1>2 DEF UD!Range
<1>5. ASSUME NEW o \in UD!Range(s.old)
      PROVE  o \in UD!Range(t.old) \/ UD!XmlLine(o, "DEL", FALSE) \in t.lines
  <2>1. CASE o \in UD!Range(t.old)
    BY <2>1
  <2>2. CASE o \notin UD!Range(t.old)
    <3>1. PICK n : UD!ToldWith(kind, o, n) \subseteq t.lines
      BY <1>1, <1>4, <2>2 DEF Matched
    <3>2. UD!XmlLine(o, "DEL", FALSE) \in UD!ToldWith(kind, o, n)
      BY <1>3
    <3> QED BY <3>1, <3>2
  <2> QED BY <2>1, <2>2
<1>6. ASSUME NEW n \in UD!Range(s.new)
      PROVE  n \in UD!Range(t.new) \/ \E b : UD!XmlLine(n, "NEW", b) \in t.lines
  <2>1. CASE n \in UD!Range(t.new)
    BY <2>1
  <2>2. CASE n \notin UD!Range(t.new)
    <3>1. PICK o : UD!ToldWith(kind, o, n) \subseteq t.lines
      BY <1>1, <2>2 DEF Matched
    <3>2. UD!XmlLine(n, "NEW", o.noupdate # n.noupdate) \in t.lines
      BY <1>3, <3>1
    <3> QED BY <3>2
  <2> QED BY <2>1, <2>2
<1>7. ASSUME NEW l \in t.lines
      PROVE  \/ l \in s.lines
             \/ \E r \in UD!Range(s.old) \cup UD!Range(s.new) : \E x, b : l = UD!XmlLine(r, x, b)
  <2>1. CASE l \in s.lines
    BY <2>1
  <2>2. CASE l \notin s.lines
    <3>1. PICK o, n : Pair(kind, s, o, n) /\ l \in UD!ToldWith(kind, o, n)
      BY <1>1, <2>2 DEF Matched
    <3>2. o \in UD!Range(s.old) /\ n \in UD!Range(s.new)
      BY <3>1 DEF Pair
    <3>3. l = UD!XmlLine(o, "DEL", FALSE) \/ l = UD!XmlLine(n, "NEW", o.noupdate # n.noupdate)
      BY <1>3, <3>1
    <3> QED BY <3>2, <3>3
  <2> QED BY <2>1, <2>2
<1>8. /\ UD!Range(t.old) \subseteq UD!Range(s.old) /\ UD!Range(t.new) \subseteq UD!Range(s.new)
      /\ s.lines \subseteq t.lines
  BY <1>1, <1>4 DEF Matched
<1> QED BY <1>1, <1>5, <1>6, <1>7, <1>8 DEF Passed, t

\* Rows that fit each other only in a direct match.
Alone(old, new, o, n) ==
  LET st == [old |-> old, new |-> new, lines |-> {}]
  IN  /\ Pair("direct", st, o, n)
      /\ \A x : Pair("direct", st, o, x) => x = n
      /\ \A x : Pair("direct", st, x, n) => x = o

\* What is told of such a pair.
SaysPair(report, old, new, o, n) ==
  /\ o.noupdate # n.noupdate => UD!XmlLine(n, "", TRUE) \in report
  /\ \A l \in report :
        \/ \E x \in UD!Range(old), y \in UD!Range(new) :
             /\ UD!Fits("direct", x, y) /\ x.noupdate # y.noupdate
             /\ l = UD!XmlLine(y, "", TRUE)
        \/ \E r \in (UD!Range(old) \ {o}) \cup (UD!Range(new) \ {n}) :
             \E t, b : l = UD!XmlLine(r, t, b)

\* What the comparison of two lists tells.
Says(report, old, new) ==
  /\ \A o \in UD!Range(old) :
        /\ o.module = o.prefix
        /\ \A n \in UD!Range(new) : ~ UD!Fits("direct", o, n)
        => UD!XmlLine(o, "DEL", FALSE) \in report
  /\ \A n \in UD!Range(new) :
        /\ n.module = n.prefix
        /\ \A o \in UD!Range(old) : ~ UD!Fits("direct", o, n)
        => \E b : UD!XmlLine(n, "NEW", b) \in report
  /\ \A o, n : Alone(old, new, o, n) => SaysPair(report, old, new, o, n)

LEMMA Compared ==
  ASSUME NEW O, NEW N, NEW old \in Seq(O), NEW new \in Seq(N),
         UD!IsInjective(old), UD!IsInjective(new)
  PROVE  Says(UD!CompareXmlSets(old, new), old, new)
<1> DEFINE L == XmlLines(O, N)
           st == [old |-> old, new |-> new, lines |-> {}]
           direct == UD!MatchRows(st, "direct")
           own == [old |-> UD!WithoutUpdates(direct.old),
                   new |-> UD!WithoutUpdates(direct.new), lines |-> direct.lines]
           shifted == UD!MatchRows(own, "moved")
           last == UD!MatchRows(shifted, "renamed")
           c == UD!CompareXmlSets(old, new)
<1>1. c = last.lines \cup {UD!XmlLine(r, "DEL", FALSE) : r \in UD!Range(last.old)}
                     \cup {UD!XmlLine(r, "NEW", FALSE) : r \in UD!Range(last.new)}
  BY DEF UD!CompareXmlSets
<1> HIDE DEF c, L
<1>2. st \in States(O, N, L) /\ st.old = old /\ st.new = new /\ st.lines = {}
  BY DEF States
<1>3. direct \in States(O, N, L) /\ Matched("direct", st, direct, Len(old))
  <2>1. Tells("direct", O, N, L)
    BY LinesTold DEF L
  <2> QED BY <1>2, <2>1, Match
<1> HIDE DEF direct
<1>4. /\ own \in States(O, N, L) /\ own.lines = direct.lines
      /\ UD!Range(own.old) = {r \in UD!Range(direct.old) : r.module = r.prefix}
      /\ UD!Range(own.new) = {r \in UD!Range(direct.new) : r.module = r.prefix}
  <2>0. direct.old \in Seq(O) /\ direct.new \in Seq(N) /\ direct.lines \subseteq L
        /\ direct = [old |-> direct.old, new |-> direct.new, lines |-> direct.lines]
    BY <1>3 DEF States
  <2>1. own = [old |-> UD!WithoutUpdates(direct.old), new |-> UD!WithoutUpdates(direct.new),
               lines |-> direct.lines]
    OBVIOUS
  <2>2. /\ UD!WithoutUpdates(direct.old) \in Seq(O)
        /\ UD!Range(UD!WithoutUpdates(direct.old)) = {r \in UD!Range(direct.old) : r.module = r.prefix}
    BY <2>0, OwnRows
  <2>3. /\ UD!WithoutUpdates(direct.new) \in Seq(N)
        /\ UD!Range(UD!WithoutUpdates(direct.new)) = {r \in UD!Range(direct.new) : r.module = r.prefix}
    BY <2>0, OwnRows
  <2> HIDE DEF own
  <2> QED BY <2>0, <2>1, <2>2, <2>3 DEF States
<1> HIDE DEF own
<1>5. shifted \in States(O, N, L) /\ Passed(own, shifted)
  <2>1. Tells("moved", O, N, L)
    BY LinesTold DEF L
  <2> QED BY <1>4, <2>1, Pass
<1> HIDE DEF shifted
<1>6. last \in States(O, N, L) /\ Passed(shifted, last)
  <2>1. Tells("renamed", O, N, L)
    BY LinesTold DEF L
  <2> QED BY <1>5, <2>1, Pass
<1> HIDE DEF last, st
<1>7. UD!Range(old) = {old[j] : j \in 1 .. Len(old)}
  <2>1. DOMAIN old = 1 .. Len(old)
    OBVIOUS
  <2> QED BY <2>1 DEF UD!Range
<1>8. /\ direct.lines \subseteq c
      /\ \A o \in UD!Range(own.old) : UD!XmlLine(o, "DEL", FALSE) \in c
      /\ \A n \in UD!Range(own.new) : \E b : UD!XmlLine(n, "NEW", b) \in c
  <2>1. own.lines \subseteq shifted.lines /\ shifted.lines \subseteq last.lines /\ last.lines \subseteq c
    BY <1>1, <1>5, <1>6 DEF Passed
  <2>2. ASSUME NEW o \in UD!Range(own.old) PROVE UD!XmlLine(o, "DEL", FALSE) \in c
    <3>1. \/ UD!XmlLine(o, "DEL", FALSE) \in shifted.lines
          \/ UD!XmlLine(o, "DEL", FALSE) \in last.lines \/ o \in UD!Range(last.old)
      BY <1>5, <1>6 DEF Passed
    <3> QED BY <1>1, <2>1, <3>1
  <2>3. ASSUME NEW n \in UD!Range(own.new) PROVE \E b : UD!XmlLine(n, "NEW", b) \in c
    <3>1. \/ \E b : UD!XmlLine(n, "NEW", b) \in shifted.lines
          \/ \E b : UD!XmlLine(n, "NEW", b) \in last.lines
          \/ n \in UD!Range(last.new)
      BY <1>5, <1>6 DEF Passed
    <3> QED BY <1>1, <2>1, <3>1
  <2> QED BY <1>4, <2>1, <2>2, <2>3
<1>9. ASSUME NEW l \in c
      PROVE  \/ l \in direct.lines
             \/ \E r \in UD!Range(own.old) \cup UD!Range(own.new) : \E t, b : l = UD!XmlLine(r, t, b)
  <2>1. /\ UD!Range(shifted.old) \subseteq UD!Range(own.old) /\ UD!Range(shifted.new) \subseteq UD!Range(own.new)
        /\ UD!Range(last.old) \subseteq UD!Range(own.old) /\ UD!Range(last.new) \subseteq UD!Range(own.new)
    BY <1>5, <1>6 DEF Passed
  <2>2. CASE l \in last.lines
    <3>1. l \in shifted.lines \/ \E r \in UD!Range(own.old) \cup UD!Range(own.new) :
                                 \E t, b : l = UD!XmlLine(r, t, b)
      BY <1>6, <2>1, <2>2 DEF Passed
    <3>2. l \in shifted.lines =>
             l \in own.lines \/ \E r \in UD!Range(own.old) \cup UD!Range(own.new) :
                                  \E t, b : l = UD!XmlLine(r, t, b)
      BY <1>5 DEF Passed
    <3> QED BY <1>4, <3>1, <3>2
  <2>3. CASE l \notin last.lines
    <3>1. PICK r \in UD!Range(last.old) \cup UD!Range(last.new) :
             l = UD!XmlLine(r, "DEL", FALSE) \/ l = UD!XmlLine(r, "NEW", FALSE)
      BY <1>1, <2>3
    <3> QED BY <2>1, <3>1
  <2> QED BY <2>2, <2>3
<1>10. ASSUME NEW o \in UD!Range(old), o.module = o.prefix,
              \A n \in UD!Range(new) : ~ UD!Fits("direct", o, n)
       PROVE  UD!XmlLine(o, "DEL", FALSE) \in c
  <2>1. o \in UD!Range(direct.old)
    BY <1>2, <1>3, <1>7, <1>10 DEF Matched, Pair
  <2> QED BY <1>4, <1>8, <1>10, <2>1
<1>11. ASSUME NEW n \in UD!Range(new), n.module = n.prefix,
              \A o \in UD!Range(old) : ~ UD!Fits("direct", o, n)
       PROVE  \E b : UD!XmlLine(n, "NEW", b) \in c
  <2>1. n \in UD!Range(direct.new)
    BY <1>2, <1>3, <1>11 DEF Matched, Pair
  <2> QED BY <1>4, <1>8, <1>11, <2>1
<1>12. ASSUME NEW o, NEW n, Alone(old, new, o, n) PROVE SaysPair(c, old, new, o, n)
  <2>1. /\ o \notin UD!Range(direct.old) /\ n \notin UD!Range(direct.new)
        /\ UD!ToldWith("direct", o, n) \subseteq direct.lines
    <3>1. /\ Pair("direct", st, o, n) /\ \A x : Pair("direct", st, o, x) => x = n
          /\ \A x : Pair("direct", st, x, n) => x = o
      BY <1>12 DEF Alone, st
    <3>2. Tells("direct", O, N, L) /\ UD!IsInjective(st.old) /\ UD!IsInjective(st.new)
      BY <1>2, LinesTold DEF L
    <3> QED BY <1>2, <3>1, <3>2, Paired DEF direct
  <2>2. UD!Range(direct.old) \subseteq UD!Range(old) /\ UD!Range(direct.new) \subseteq UD!Range(new)
    BY <1>2, <1>3, <1>7 DEF Matched
  <2>3. o.noupdate # n.noupdate => UD!XmlLine(n, "", TRUE) \in c
    BY <1>8, <2>1, Zenon DEF UD!ToldWith
  <2>4. ASSUME NEW l \in c
        PROVE  \/ \E x \in UD!Range(old), y \in UD!Range(new) :
                    /\ UD!Fits("direct", x, y) /\ x.noupdate # y.noupdate
                    /\ l = UD!XmlLine(y, "", TRUE)
               \/ \E r \in (UD!Range(old) \ {o}) \cup (UD!Range(new) \ {n}) :
                    \E t, b : l = UD!XmlLine(r, t, b)
    <3>1. CASE l \in direct.lines
      <4>1. PICK x, y : Pair("direct", st, x, y) /\ l \in UD!ToldWith("direct", x, y)
        BY <1>2, <1>3, <3>1 DEF Matched
      <4>2. /\ x \in UD!Range(old) /\ y \in UD!Range(new) /\ UD!Fits("direct", x, y)
        BY <1>2, <4>1 DEF Pair
      <4>3. x.noupdate # y.noupdate /\ l = UD!XmlLine(y, "", TRUE)
        BY <4>1, Zenon DEF UD!ToldWith
      <4> QED BY <4>2, <4>3, Zenon
    <3>2. CASE l \notin direct.lines
      <4>1. PICK r \in UD!Range(own.old) \cup UD!Range(own.new) : \E t, b : l = UD!XmlLine(r, t, b)
        BY <1>9, <3>2
      <4>2. r \in (UD!Range(old) \ {o}) \cup (UD!Range(new) \ {n})
        BY <1>4, <2>1, <2>2, <4>1
      <4> QED BY <4>1, <4>2, Zenon
    <3> QED BY <3>1, <3>2, Zenon
  <2> QED BY <2>3, <2>4, Zenon DEF SaysPair
<1>13. Says(c, old, new)
  BY <1>10, <1>11, <1>12, Zenon DEF Says
<1> QED BY <1>13 DEF c

\* The ids in what a module loads, and their rows.
LEMMA IdsLoaded ==
  ASSUME NEW m, NEW nodes, NEW id \in LoadedIds(m, nodes)
  PROVE  id = <<id[1], id[2]>> /\ id[1] \in {m, UD!Other}
<1>1. PICK i \in DOMAIN nodes : id = UD!Id(m, nodes[i])
  BY DEF LoadedIds
<1> QED BY <1>1 DEF UD!Id

LEMMA RowOfId ==
  ASSUME NEW m, NEW nodes, NEW base, NEW r \in ModuleRows(m, nodes, base)
  PROVE  /\ r.module = m /\ <<r.prefix, r.suffix>> \in LoadedIds(m, nodes)
         /\ r.prefix \in {m, UD!Other}
         /\ r.noupdate = base[<<r.prefix, r.suffix>>].noupdate
         /\ r = XmlRow(m, <<r.prefix, r.suffix>>, base)
<1>1. PICK id \in LoadedIds(m, nodes) : r = XmlRow(m, id, base)
  BY DEF ModuleRows
<1>2. id = <<id[1], id[2]>> /\ id[1] \in {m, UD!Other}
  BY IdsLoaded
<1>3. r.prefix = id[1] /\ r.suffix = id[2] /\ r.module = m /\ r.noupdate = base[id].noupdate
  BY <1>1 DEF XmlRow
<1>4. <<r.prefix, r.suffix>> = id
  BY <1>2, <1>3
<1> QED BY <1>1, <1>2, <1>3, <1>4

\* What the two versions load, and what is said of it.
Ours(base) == {id \in DOMAIN base : id[1] # UD!Other}
Told(report, old, fresh, at) ==
  /\ \A id \in Ours(old) \ Ours(fresh) :
        \E l \in report : l.id = id /\ l.text = "DEL" /\ l.at = at
  /\ \A id \in Ours(fresh) \ Ours(old) :
        \E l \in report : l.id = id /\ l.text = "NEW" /\ l.at = at
  /\ \A id \in Ours(old) \cap Ours(fresh) :
        old[id].noupdate # fresh[id].noupdate <=> (\E l \in report : l.id = id)

LEMMA IdsTold ==
  ASSUME udCase \in Upgrades, UD!Assumption,
         udOld \in [UD!RemoteModules -> Seq(UD!Nodes(UD!Fields))],
         udNew \in Seq(UD!Nodes(UD!Fields)), NEW report,
         report = UD!CompareXmlSets(UD!OldRows(UD!OldDatabase),
                                    UD!Rows(udCase.local, udNew, UD!FreshDatabase))
  PROVE  Told(report, UD!OldDatabase, UD!FreshDatabase, udCase.local)
<1> DEFINE old == UD!OldDatabase
           fresh == UD!FreshDatabase
           O == OldXmlRows(old)
           N == ModuleRows(udCase.local, udNew, fresh)
           rows == UD!OldRows(old)
           now == UD!Rows(udCase.local, udNew, fresh)
           Mine(r) == r.module = r.prefix
<1>1. UD!Other \notin UD!RemoteModules /\ UD!Other # udCase.local
  BY CaseModules
<1>2. /\ rows \in Seq(O) /\ UD!IsInjective(rows) /\ UD!Range(rows) = O
  BY OldRowsListed
<1>3. /\ now \in Seq(N) /\ UD!IsInjective(now) /\ UD!Range(now) = N
  BY RowsListed
<1>4. ASSUME NEW r \in O
      PROVE  /\ r.module \in UD!RemoteModules /\ r.prefix \in {r.module, UD!Other}
             /\ <<r.prefix, r.suffix>> \in DOMAIN old
             /\ r = XmlRow(r.module, <<r.prefix, r.suffix>>, old)
             /\ r.noupdate = old[<<r.prefix, r.suffix>>].noupdate
  <2>1. PICK m \in UD!RemoteModules : r \in ModuleRows(m, udOld[m], old)
    BY DEF OldXmlRows
  <2>2. LoadedIds(m, udOld[m]) \subseteq DOMAIN old
    BY OldIds
  <2> HIDE DEF old
  <2>3. /\ r.module = m /\ <<r.prefix, r.suffix>> \in LoadedIds(m, udOld[m])
        /\ r.prefix \in {m, UD!Other}
        /\ r.noupdate = old[<<r.prefix, r.suffix>>].noupdate
        /\ r = XmlRow(m, <<r.prefix, r.suffix>>, old)
    BY <2>1, RowOfId
  <2> QED BY <2>1, <2>2, <2>3
<1>5. DOMAIN fresh = ({UD!Other} \X UD!XmlNames) \cup LoadedIds(udCase.local, udNew)
  BY GivenIds, InstalledIds DEF UD!FreshDatabase
<1>6. ASSUME NEW r \in N
      PROVE  /\ r.module = udCase.local /\ r.prefix \in {udCase.local, UD!Other}
             /\ <<r.prefix, r.suffix>> \in DOMAIN fresh
             /\ r = XmlRow(udCase.local, <<r.prefix, r.suffix>>, fresh)
             /\ r.noupdate = fresh[<<r.prefix, r.suffix>>].noupdate
  <2> HIDE DEF fresh
  <2>1. /\ r.module = udCase.local /\ <<r.prefix, r.suffix>> \in LoadedIds(udCase.local, udNew)
        /\ r.prefix \in {udCase.local, UD!Other}
        /\ r.noupdate = fresh[<<r.prefix, r.suffix>>].noupdate
        /\ r = XmlRow(udCase.local, <<r.prefix, r.suffix>>, fresh)
    BY RowOfId
  <2> QED BY <1>5, <2>1
<1>7. ASSUME NEW id \in Ours(old)
      PROVE  id = <<id[1], id[2]>> /\ id[1] \in UD!RemoteModules /\ XmlRow(id[1], id, old) \in O
  <2>1. PICK m \in UD!RemoteModules : id \in LoadedIds(m, udOld[m])
    BY OldIds DEF Ours
  <2>2. id = <<id[1], id[2]>> /\ id[1] = m
    BY <2>1, IdsLoaded DEF Ours
  <2> HIDE DEF old
  <2>3. XmlRow(id[1], id, old) \in ModuleRows(m, udOld[m], old)
    BY <2>1, <2>2 DEF ModuleRows
  <2> QED BY <2>1, <2>2, <2>3 DEF OldXmlRows
<1>8. ASSUME NEW id \in Ours(fresh)
      PROVE  id = <<id[1], id[2]>> /\ id[1] = udCase.local /\ XmlRow(udCase.local, id, fresh) \in N
  <2> HIDE DEF fresh
  <2>1. id \in LoadedIds(udCase.local, udNew)
    BY <1>5 DEF Ours
  <2>2. id = <<id[1], id[2]>> /\ id[1] = udCase.local
    BY <2>1, IdsLoaded DEF Ours
  <2> QED BY <2>1, <2>2 DEF ModuleRows
<1> HIDE DEF old, fresh, O, N, rows, now
<1>9. \A o \in O, n \in N : UD!Fits("direct", o, n) <=> o.prefix = n.prefix /\ o.suffix = n.suffix
  BY <1>4, <1>6 DEF UD!Fits, UD!SameModule, UD!SameName, UD!ModuleMap
<1>10. ASSUME NEW r, r \in O \/ r \in N, NEW t, NEW b, NEW l, l = UD!XmlLine(r, t, b)
       PROVE  l.id = <<r.prefix, r.suffix>> /\ l.text = t /\ l.at = udCase.local
  <2>1. UD!ModuleMap(r.module) = udCase.local
    BY <1>4, <1>6, <1>10 DEF UD!ModuleMap
  <2> QED BY <1>10, <2>1 DEF UD!XmlLine
<1>11. /\ \A o \in O : Mine(o) /\ (\A n \in N : ~ UD!Fits("direct", o, n))
                         => UD!XmlLine(o, "DEL", FALSE) \in report
       /\ \A n \in N : Mine(n) /\ (\A o \in O : ~ UD!Fits("direct", o, n))
                         => \E b : UD!XmlLine(n, "NEW", b) \in report
       /\ \A o, n : Alone(rows, now, o, n) => SaysPair(report, rows, now, o, n)
  <2>1. report = UD!CompareXmlSets(rows, now)
    BY DEF rows, now, old, fresh
  <2>2. Says(report, rows, now)
    BY <1>2, <1>3, <2>1, Compared
  <2> QED BY <1>2, <1>3, <2>2 DEF Says
<1>12. ASSUME NEW id \in Ours(old) \ Ours(fresh)
       PROVE  \E l \in report : l.id = id /\ l.text = "DEL" /\ l.at = udCase.local
  <2> DEFINE o == XmlRow(id[1], id, old)
  <2>1. o \in O /\ o.module = id[1] /\ o.prefix = id[1] /\ o.suffix = id[2] /\ id = <<id[1], id[2]>>
    BY <1>7 DEF XmlRow
  <2> HIDE DEF o
  <2>2. \A n \in N : ~ UD!Fits("direct", o, n)
    <3> SUFFICES ASSUME NEW n \in N, UD!Fits("direct", o, n) PROVE FALSE
      OBVIOUS
    <3>1. n.prefix = id[1] /\ n.suffix = id[2] /\ <<n.prefix, n.suffix>> \in DOMAIN fresh
      BY <1>6, <1>9, <2>1
    <3>2. id[1] # UD!Other
      BY DEF Ours
    <3> QED BY <2>1, <3>1, <3>2 DEF Ours
  <2>3. PICK l \in report : l = UD!XmlLine(o, "DEL", FALSE)
    BY <1>11, <2>1, <2>2
  <2>4. l.id = <<o.prefix, o.suffix>> /\ l.text = "DEL" /\ l.at = udCase.local
    <3>1. PICK b : l = UD!XmlLine(o, "DEL", b)
      BY <2>3, Zenon
    <3> QED BY <1>10, <2>1, <3>1
  <2> QED BY <2>1, <2>4
<1>13. ASSUME NEW id \in Ours(fresh) \ Ours(old)
       PROVE  \E l \in report : l.id = id /\ l.text = "NEW" /\ l.at = udCase.local
  <2> DEFINE n == XmlRow(udCase.local, id, fresh)
  <2>1. /\ n \in N /\ n.module = udCase.local /\ n.prefix = udCase.local /\ n.suffix = id[2]
        /\ id = <<id[1], id[2]>> /\ id[1] = udCase.local
    BY <1>8 DEF XmlRow
  <2> HIDE DEF n
  <2>2. \A o \in O : ~ UD!Fits("direct", o, n)
    <3> SUFFICES ASSUME NEW o \in O, UD!Fits("direct", o, n) PROVE FALSE
      OBVIOUS
    <3>1. o.prefix = id[1] /\ o.suffix = id[2] /\ <<o.prefix, o.suffix>> \in DOMAIN old
      BY <1>4, <1>9, <2>1
    <3>2. id[1] # UD!Other
      BY DEF Ours
    <3> QED BY <2>1, <3>1, <3>2 DEF Ours
  <2>3. PICK l \in report : \E b : l = UD!XmlLine(n, "NEW", b)
    BY <1>11, <2>1, <2>2
  <2>4. l.id = <<n.prefix, n.suffix>> /\ l.text = "NEW" /\ l.at = udCase.local
    BY <1>10, <2>1, <2>3
  <2> QED BY <2>1, <2>4
<1>14. ASSUME NEW id \in Ours(old) \cap Ours(fresh)
       PROVE  old[id].noupdate # fresh[id].noupdate <=> (\E l \in report : l.id = id)
  <2> DEFINE o == XmlRow(id[1], id, old)
             n == XmlRow(udCase.local, id, fresh)
  <2>1. /\ o \in O /\ o.module = id[1] /\ o.prefix = id[1] /\ o.suffix = id[2]
        /\ o.noupdate = old[id].noupdate
        /\ n \in N /\ n.module = udCase.local /\ n.prefix = id[1] /\ n.suffix = id[2]
        /\ n.noupdate = fresh[id].noupdate
        /\ id = <<id[1], id[2]>> /\ id[1] = udCase.local /\ id[1] # UD!Other
    BY <1>7, <1>8 DEF XmlRow, Ours
  <2>2. ASSUME NEW x \in O, x.prefix = id[1], x.suffix = id[2] PROVE x = o
    <3>1. x.module = id[1] /\ <<x.prefix, x.suffix>> = id
      BY <1>4, <2>1, <2>2
    <3> QED BY <1>4, <3>1
  <2>3. ASSUME NEW x \in N, x.prefix = id[1], x.suffix = id[2] PROVE x = n
    <3>1. x.module = udCase.local /\ <<x.prefix, x.suffix>> = id
      BY <1>6, <2>1, <2>3
    <3> QED BY <1>6, <3>1
  <2> HIDE DEF o, n
  <2>4. Alone(rows, now, o, n)
    <3>1. \A x, y : Pair("direct", [old |-> rows, new |-> now, lines |-> {}], x, y)
                      <=> x \in O /\ y \in N /\ UD!Fits("direct", x, y)
      BY <1>2, <1>3 DEF Pair
    <3>2. UD!Fits("direct", o, n)
      BY <1>9, <2>1
    <3>3. \A x \in N : UD!Fits("direct", o, x) => x = n
      BY <1>9, <2>1, <2>3
    <3>4. \A x \in O : UD!Fits("direct", x, n) => x = o
      BY <1>9, <2>1, <2>2
    <3> QED BY <2>1, <3>1, <3>2, <3>3, <3>4 DEF Alone
  <2>5. ASSUME old[id].noupdate # fresh[id].noupdate PROVE \E l \in report : l.id = id
    <3>1. PICK l \in report : l = UD!XmlLine(n, "", TRUE)
      <4>1. SaysPair(report, rows, now, o, n)
        BY <1>11, <2>4
      <4> QED BY <2>1, <2>5, <4>1, Zenon DEF SaysPair
    <3>2. l.id = <<n.prefix, n.suffix>>
      <4>1. PICK t, b : l = UD!XmlLine(n, t, b)
        BY <3>1, Zenon
      <4> QED BY <1>10, <2>1, <4>1
    <3> QED BY <2>1, <3>2
  <2>6. ASSUME NEW l \in report, l.id = id PROVE old[id].noupdate # fresh[id].noupdate
    <3>1. \/ \E x \in O, y \in N :
               /\ UD!Fits("direct", x, y) /\ x.noupdate # y.noupdate
               /\ l = UD!XmlLine(y, "", TRUE)
          \/ \E r \in (O \ {o}) \cup (N \ {n}) : \E t, b : l = UD!XmlLine(r, t, b)
      <4>1. SaysPair(report, rows, now, o, n)
        BY <1>11, <2>4
      <4> QED BY <1>2, <1>3, <4>1, Zenon DEF SaysPair
    <3>2. ASSUME NEW x \in O, NEW y \in N, UD!Fits("direct", x, y), x.noupdate # y.noupdate,
                 l = UD!XmlLine(y, "", TRUE)
          PROVE  old[id].noupdate # fresh[id].noupdate
      <4>0. l.id = <<y.prefix, y.suffix>>
        <5>1. PICK t, b : l = UD!XmlLine(y, t, b)
          BY <3>2, Zenon
        <5>2. y \in N
          OBVIOUS
        <5> QED BY <1>10, <5>1, <5>2
      <4>1. <<y.prefix, y.suffix>> = id
        BY <2>6, <4>0
      <4>2. y.prefix = id[1] /\ y.suffix = id[2] /\ x.prefix = id[1] /\ x.suffix = id[2]
        BY <1>9, <2>1, <3>2, <4>1, Zenon
      <4>3. y = n /\ x = o
        BY <2>2, <2>3, <4>2
      <4> QED BY <2>1, <3>2, <4>3, Zenon
    <3>3. ASSUME NEW r \in (O \ {o}) \cup (N \ {n}), NEW t, NEW b, l = UD!XmlLine(r, t, b)
          PROVE  FALSE
      <4>0. l.id = <<r.prefix, r.suffix>>
        BY <1>10, <3>3
      <4>1. <<r.prefix, r.suffix>> = id
        BY <2>6, <4>0
      <4>2. r.prefix = id[1] /\ r.suffix = id[2]
        BY <2>1, <4>1
      <4> QED BY <2>2, <2>3, <4>2
    <3> QED BY <3>1, <3>2, <3>3, Zenon
  <2> QED BY <2>5, <2>6
<1>15. Told(report, old, fresh, udCase.local)
  BY <1>12, <1>13, <1>14 DEF Told
<1> QED BY <1>15 DEF old, fresh

\* The databases do not change while the files do not.
LEMMA SameDatabases ==
  ASSUME UNCHANGED <<udCase, udOld, udNew>>
  PROVE  UD!OldDatabase' = UD!OldDatabase /\ UD!FreshDatabase' = UD!FreshDatabase
BY DEF UD!OldDatabase, UD!FreshDatabase, UD!InstallModule, UD!FoldLeft, UD!MapThenFoldSet,
       UD!Given, UD!Complete, UD!Fields, UD!InstallNode, UD!XmlNames

LEMMA SameFiles ==
  ASSUME UNCHANGED udCase
  PROVE  /\ UD!RemoteModules' = UD!RemoteModules
         /\ UD!Nodes(UD!Fields)' = UD!Nodes(UD!Fields)
BY DEF UD!RemoteModules, UD!Nodes, UD!Fields, UD!Range

\* What the files may hold; and that the report is right.
Analysed == udPhase \in {"analysed", "updated", "upgraded"}
DataInv ==
  /\ udCase \in Upgrades
  /\ udOld \in [UD!RemoteModules -> Seq(UD!Nodes(UD!Fields))]
  /\ udNew \in Seq(UD!Nodes(UD!Fields))
  /\ Analysed => Told(udReport, UD!OldDatabase, UD!FreshDatabase, udCase.local)

LEMMA DataInit == UD!Init => DataInv
BY DEF UD!Init, DataInv, Analysed

LEMMA DataNext == ASSUME UD!Assumption, DataInv, [UD!Next]_data PROVE DataInv'
<1>1. udCase \in Upgrades /\ udOld \in [UD!RemoteModules -> Seq(UD!Nodes(UD!Fields))]
      /\ udNew \in Seq(UD!Nodes(UD!Fields))
  BY DEF DataInv
<1>2. ASSUME UNCHANGED <<udCase, udOld, udNew, udReport>>,
             Analysed' => Analysed
      PROVE  DataInv'
  <2>1. UD!OldDatabase' = UD!OldDatabase /\ UD!FreshDatabase' = UD!FreshDatabase
    BY <1>2, SameDatabases
  <2>2. UD!RemoteModules' = UD!RemoteModules /\ UD!Nodes(UD!Fields)' = UD!Nodes(UD!Fields)
    BY <1>2, SameFiles
  <2>3. Analysed => Told(udReport, UD!OldDatabase, UD!FreshDatabase, udCase.local)
    BY DEF DataInv
  <2>4. Analysed' => Told(udReport', UD!OldDatabase', UD!FreshDatabase', udCase'.local)
    BY <1>2, <2>1, <2>3
  <2> QED BY <1>1, <1>2, <2>2, <2>4 DEF DataInv, Told, Ours
<1>3. ASSUME NEW m \in UD!RemoteModules, NEW node \in UD!Nodes(UD!Fields), UD!WriteOld(m, node)
      PROVE  DataInv'
  <2>1. /\ udPhase' = "writing" /\ UNCHANGED <<udCase, udNew>>
        /\ udOld' = [udOld EXCEPT ![m] = Append(@, node)]
    BY <1>3 DEF UD!WriteOld
  <2>2. UD!RemoteModules' = UD!RemoteModules /\ UD!Nodes(UD!Fields)' = UD!Nodes(UD!Fields)
    BY <2>1, SameFiles
  <2>3. udOld' \in [UD!RemoteModules -> Seq(UD!Nodes(UD!Fields))]
    BY <1>1, <2>1
  <2> QED BY <1>1, <2>1, <2>2, <2>3 DEF DataInv, Analysed
<1>4. ASSUME NEW node \in UD!Nodes(UD!KeptFields), UD!WriteNew(node) PROVE DataInv'
  <2>1. udPhase' = "writing" /\ UNCHANGED <<udCase, udOld>> /\ udNew' = Append(udNew, node)
    BY <1>4 DEF UD!WriteNew
  <2>2. UD!RemoteModules' = UD!RemoteModules /\ UD!Nodes(UD!Fields)' = UD!Nodes(UD!Fields)
    BY <2>1, SameFiles
  <2>3. node \in UD!Nodes(UD!Fields)
    <3>1. udCase.kept \subseteq udCase.fields
      BY <1>1 DEF UD!Assumption
    <3> QED BY <3>1 DEF UD!Nodes, UD!Fields, UD!KeptFields
  <2>4. udNew' \in Seq(UD!Nodes(UD!Fields))
    BY <1>1, <2>1, <2>3
  <2> QED BY <1>1, <2>1, <2>2, <2>4 DEF DataInv, Analysed
<1>5. ASSUME UD!Analyze PROVE DataInv'
  <2>1. /\ UNCHANGED <<udCase, udOld, udNew>>
        /\ udReport' = UD!CompareXmlSets(UD!OldRows(UD!OldDatabase),
                                         UD!Rows(udCase.local, udNew, UD!FreshDatabase))
    BY <1>5 DEF UD!Analyze
  <2>2. Told(udReport', UD!OldDatabase, UD!FreshDatabase, udCase.local)
    BY <1>1, <2>1, IdsTold
  <2>3. UD!OldDatabase' = UD!OldDatabase /\ UD!FreshDatabase' = UD!FreshDatabase
    BY <2>1, SameDatabases
  <2>4. UD!RemoteModules' = UD!RemoteModules /\ UD!Nodes(UD!Fields)' = UD!Nodes(UD!Fields)
    BY <2>1, SameFiles
  <2>5. Told(udReport', UD!OldDatabase', UD!FreshDatabase', udCase'.local)
    BY <2>1, <2>2, <2>3
  <2> QED BY <1>1, <2>1, <2>4, <2>5 DEF DataInv, Told, Ours
<1>6. CASE UD!Install
  BY <1>2, <1>6 DEF UD!Install, Analysed
<1>7. ASSUME NEW id \in DOMAIN udDb, NEW f \in UD!Fields, UD!Edit(id, f) PROVE DataInv'
  BY <1>2, <1>7 DEF UD!Edit, Analysed
<1>8. CASE UD!UpdateModule
  BY <1>2, <1>8, Zenon DEF UD!UpdateModule, Analysed
<1>9. CASE UD!LoadDiff
  BY <1>2, <1>9 DEF UD!LoadDiff, Analysed
<1>10. CASE UNCHANGED data
  BY <1>2, <1>10 DEF data, Analysed
<1> QED BY <1>3, <1>4, <1>5, <1>6, <1>7, <1>8, <1>9, <1>10 DEF UD!Next

LEMMA DataTells == ASSUME DataInv PROVE UD!XmlidsTold
<1> SUFFICES ASSUME Analysed PROVE
      LET fresh == UD!FreshDatabase
          old == UD!OldDatabase
          ours(base) == {id \in DOMAIN base : id[1] # UD!Other}
          told(id, text) == {l \in udReport : l.id = id /\ l.text = text /\ l.at = udCase.local}
      IN  /\ \A id \in ours(old) \ ours(fresh) : told(id, "DEL") # {}
          /\ \A id \in ours(fresh) \ ours(old) : told(id, "NEW") # {}
          /\ \A id \in ours(old) \cap ours(fresh) :
                old[id].noupdate # fresh[id].noupdate <=> (\E l \in udReport : l.id = id)
  BY DEF UD!XmlidsTold, Analysed
<1> DEFINE old == UD!OldDatabase
           fresh == UD!FreshDatabase
<1>1. Told(udReport, old, fresh, udCase.local)
  BY DEF DataInv
<1> HIDE DEF old, fresh
<1>2. /\ \A id \in Ours(old) \ Ours(fresh) :
           {l \in udReport : l.id = id /\ l.text = "DEL" /\ l.at = udCase.local} # {}
      /\ \A id \in Ours(fresh) \ Ours(old) :
           {l \in udReport : l.id = id /\ l.text = "NEW" /\ l.at = udCase.local} # {}
      /\ \A id \in Ours(old) \cap Ours(fresh) :
           old[id].noupdate # fresh[id].noupdate <=> (\E l \in udReport : l.id = id)
  BY <1>1 DEF Told
<1> QED BY <1>2 DEF Ours, old, fresh

----------------------------------------------------------------------------
(* What files say of a field.                                                *)

\* Of the first i nodes, the last that gives the field f of the record k gives v; or none does.
Gives(nodes, j, k, f) == UD!Key(nodes[j]) = k /\ f \in DOMAIN nodes[j].fields
LastGiven(nodes, i, k, f, v) ==
  \E j \in 1 .. i : /\ Gives(nodes, j, k, f) /\ v = nodes[j].fields[f]
                    /\ \A l \in 1 .. i : l > j => ~ Gives(nodes, l, k, f)
NotGiven(nodes, i, k, f) == \A j \in 1 .. i : ~ Gives(nodes, j, k, f)

\* The first node of the record k has the flag b.
FirstIn(nodes, i, k, b) ==
  \E j \in 1 .. i : /\ UD!Key(nodes[j]) = k /\ nodes[j].noupdate = b
                    /\ \A l \in 1 .. i : l < j => UD!Key(nodes[l]) # k

\* What a merged element gives; and what a record of a database has, with nothing for the rest.
SaidBy(r, nodes, i, k) ==
  /\ DOMAIN r \subseteq UD!Fields
  /\ \A f \in UD!Fields : /\ f \in DOMAIN r => LastGiven(nodes, i, k, f, r[f])
                          /\ f \notin DOMAIN r => NotGiven(nodes, i, k, f)
Holds(values, nodes, i, k) ==
  \A f \in UD!Fields : \/ LastGiven(nodes, i, k, f, values[f])
                       \/ NotGiven(nodes, i, k, f) /\ values[f] = NoText

LEMMA OneLast ==
  ASSUME NEW nodes, NEW i \in Nat, NEW k, NEW f, NEW v, LastGiven(nodes, i, k, f, v)
  PROVE  /\ ~ NotGiven(nodes, i, k, f)
         /\ \A w : LastGiven(nodes, i, k, f, w) => w = v
<1>1. ASSUME NEW w, LastGiven(nodes, i, k, f, w) PROVE w = v
  <2>1. PICK j \in 1 .. i : /\ Gives(nodes, j, k, f) /\ v = nodes[j].fields[f]
                            /\ \A l \in 1 .. i : l > j => ~ Gives(nodes, l, k, f)
    BY DEF LastGiven
  <2>2. PICK h \in 1 .. i : /\ Gives(nodes, h, k, f) /\ w = nodes[h].fields[f]
                            /\ \A l \in 1 .. i : l > h => ~ Gives(nodes, l, k, f)
    BY <1>1 DEF LastGiven
  <2>3. j = h
    BY <2>1, <2>2
  <2> QED BY <2>1, <2>2, <2>3
<1>2. ~ NotGiven(nodes, i, k, f)
  BY DEF LastGiven, NotGiven
<1> QED BY <1>1, <1>2

\* One node more.
LEMMA GivenStep ==
  ASSUME NEW nodes, NEW i \in Nat, NEW k, NEW f
  PROVE  /\ NotGiven(nodes, 0, k, f)
         /\ Gives(nodes, i + 1, k, f) => LastGiven(nodes, i + 1, k, f, nodes[i + 1].fields[f])
         /\ ~ Gives(nodes, i + 1, k, f) =>
               /\ \A v : LastGiven(nodes, i, k, f, v) => LastGiven(nodes, i + 1, k, f, v)
               /\ NotGiven(nodes, i, k, f) => NotGiven(nodes, i + 1, k, f)
<1>1. 1 .. (i + 1) = (1 .. i) \cup {i + 1} /\ 1 .. 0 = {} /\ \A l \in 1 .. i : ~ (l > i + 1)
      /\ ~ (i + 1 > i + 1)
  OBVIOUS
<1>2. NotGiven(nodes, 0, k, f)
  BY <1>1 DEF NotGiven
<1>3. ASSUME Gives(nodes, i + 1, k, f)
      PROVE  LastGiven(nodes, i + 1, k, f, nodes[i + 1].fields[f])
  <2>1. i + 1 \in 1 .. (i + 1) /\ \A l \in 1 .. (i + 1) : ~ (l > i + 1)
    BY <1>1
  <2> QED BY <1>3, <2>1, Zenon DEF LastGiven
<1>4. ASSUME ~ Gives(nodes, i + 1, k, f), NEW v, LastGiven(nodes, i, k, f, v)
      PROVE  LastGiven(nodes, i + 1, k, f, v)
  BY <1>1, <1>4, Zenon DEF LastGiven
<1>5. ~ Gives(nodes, i + 1, k, f) /\ NotGiven(nodes, i, k, f) => NotGiven(nodes, i + 1, k, f)
  BY <1>1, Zenon DEF NotGiven
<1> QED BY <1>2, <1>3, <1>4, <1>5

\* Whether it is the first of its record.
LEMMA FirstStep ==
  ASSUME NEW nodes, NEW i \in Nat, NEW k, NEW b
  PROVE  /\ ~ FirstIn(nodes, 0, k, b)
         /\ FirstIn(nodes, i, k, b) => FirstIn(nodes, i + 1, k, b)
         /\ FirstIn(nodes, i + 1, k, b) =>
               \/ FirstIn(nodes, i, k, b)
               \/ /\ UD!Key(nodes[i + 1]) = k /\ nodes[i + 1].noupdate = b
                  /\ \A c : ~ FirstIn(nodes, i, k, c)
         /\ UD!Key(nodes[i + 1]) = k /\ nodes[i + 1].noupdate = b
              /\ (\A l \in 1 .. i : UD!Key(nodes[l]) # k) => FirstIn(nodes, i + 1, k, b)
<1>1. 1 .. (i + 1) = (1 .. i) \cup {i + 1} /\ 1 .. 0 = {}
      /\ \A l \in 1 .. i : l < i + 1 /\ ~ (i + 1 < l)
  OBVIOUS
<1>2. ~ FirstIn(nodes, 0, k, b)
  BY <1>1 DEF FirstIn
<1>3. FirstIn(nodes, i, k, b) => FirstIn(nodes, i + 1, k, b)
  BY <1>1 DEF FirstIn
<1>4. ASSUME FirstIn(nodes, i + 1, k, b), ~ FirstIn(nodes, i, k, b)
      PROVE  /\ UD!Key(nodes[i + 1]) = k /\ nodes[i + 1].noupdate = b
             /\ \A c : ~ FirstIn(nodes, i, k, c)
  <2>1. PICK j \in 1 .. (i + 1) :
           /\ UD!Key(nodes[j]) = k /\ nodes[j].noupdate = b
           /\ \A l \in 1 .. (i + 1) : l < j => UD!Key(nodes[l]) # k
    BY <1>4 DEF FirstIn
  <2>2. j = i + 1
    BY <1>1, <1>4, <2>1 DEF FirstIn
  <2> QED BY <1>1, <2>1, <2>2 DEF FirstIn
<1>5. ASSUME UD!Key(nodes[i + 1]) = k, nodes[i + 1].noupdate = b,
             \A l \in 1 .. i : UD!Key(nodes[l]) # k
      PROVE  FirstIn(nodes, i + 1, k, b)
  BY <1>1, <1>5 DEF FirstIn
<1> QED BY <1>2, <1>3, <1>4, <1>5

LEMMA FirstKept ==
  ASSUME NEW nodes, NEW i \in Nat, NEW k
  PROVE  /\ FirstIn(nodes, i, k, TRUE) => FirstIn(nodes, i + 1, k, TRUE)
         /\ FirstIn(nodes, i, k, FALSE) => FirstIn(nodes, i + 1, k, FALSE)
<1>1. \A b : FirstIn(nodes, i, k, b) => FirstIn(nodes, i + 1, k, b)
  BY FirstStep
<1> QED BY <1>1

\* A record has one first node, unless it has none.
LEMMA HasFirst ==
  ASSUME NEW nodes, NEW i \in Nat, NEW k, \A j \in 1 .. i : nodes[j].noupdate \in BOOLEAN
  PROVE  /\ ~ (FirstIn(nodes, i, k, TRUE) /\ FirstIn(nodes, i, k, FALSE))
         /\ FirstIn(nodes, i, k, TRUE) \/ FirstIn(nodes, i, k, FALSE)
              <=> \E j \in 1 .. i : UD!Key(nodes[j]) = k
<1>1. ~ (FirstIn(nodes, i, k, TRUE) /\ FirstIn(nodes, i, k, FALSE))
  <2> SUFFICES ASSUME FirstIn(nodes, i, k, TRUE), FirstIn(nodes, i, k, FALSE) PROVE FALSE
    OBVIOUS
  <2>1. PICK j \in 1 .. i : /\ UD!Key(nodes[j]) = k /\ nodes[j].noupdate = TRUE
                            /\ \A l \in 1 .. i : l < j => UD!Key(nodes[l]) # k
    BY DEF FirstIn
  <2>2. PICK h \in 1 .. i : /\ UD!Key(nodes[h]) = k /\ nodes[h].noupdate = FALSE
                            /\ \A l \in 1 .. i : l < h => UD!Key(nodes[l]) # k
    BY DEF FirstIn
  <2>3. j = h
    BY <2>1, <2>2
  <2> QED BY <2>1, <2>2, <2>3
<1>2. FirstIn(nodes, i, k, TRUE) \/ FirstIn(nodes, i, k, FALSE)
        => \E j \in 1 .. i : UD!Key(nodes[j]) = k
  BY DEF FirstIn
<1>3. ASSUME NEW j \in 1 .. i, UD!Key(nodes[j]) = k
      PROVE  FirstIn(nodes, i, k, TRUE) \/ FirstIn(nodes, i, k, FALSE)
  <2> DEFINE S == {l \in 1 .. i : UD!Key(nodes[l]) = k}
  <2>1. S \subseteq Nat /\ S # {}
    BY <1>3
  <2>2. PICK h \in S : \A l \in S : h <= l
    BY <2>1, FirstId
  <2>3. h \in 1 .. i /\ UD!Key(nodes[h]) = k /\ \A l \in 1 .. i : l < h => UD!Key(nodes[l]) # k
    BY <2>2
  <2>4. nodes[h].noupdate = TRUE \/ nodes[h].noupdate = FALSE
    BY <2>3
  <2> QED BY <2>3, <2>4, Zenon DEF FirstIn
<1> QED BY <1>1, <1>2, <1>3

\* Files that come behind others.
LEMMA GivenBehind ==
  ASSUME NEW S, NEW a \in Seq(S), NEW b \in Seq(S), NEW k
  PROVE  /\ \A f, v : LastGiven(b, Len(b), k, f, v) => LastGiven(a \o b, Len(a \o b), k, f, v)
         /\ \A f : NotGiven(b, Len(b), k, f) =>
              /\ \A v : LastGiven(a, Len(a), k, f, v) => LastGiven(a \o b, Len(a \o b), k, f, v)
              /\ NotGiven(a, Len(a), k, f) => NotGiven(a \o b, Len(a \o b), k, f)
         /\ \A c : FirstIn(a, Len(a), k, c) => FirstIn(a \o b, Len(a \o b), k, c)
<1> DEFINE u == a \o b
           m == Len(a)
           n == Len(b)
<1>1. m \in Nat /\ n \in Nat /\ Len(u) = m + n
      /\ (\A i \in 1 .. m : u[i] = a[i]) /\ \A i \in 1 .. n : u[m + i] = b[i]
  OBVIOUS
<1>2. \A i \in 1 .. (m + n) : i \in 1 .. m \/ (i - m \in 1 .. n /\ m + (i - m) = i)
  BY <1>1
<1>3. /\ \A i \in 1 .. m : i \in 1 .. (m + n)
      /\ \A i \in 1 .. n : m + i \in 1 .. (m + n)
      /\ \A i \in 1 .. m, j \in 1 .. n : i < m + j /\ ~ (i > m + j)
      /\ \A i, j \in 1 .. n : m + i > m + j => i > j
  BY <1>1
<1> HIDE DEF u, m, n
<1>4. /\ \A f : \A i \in 1 .. m : Gives(u, i, k, f) <=> Gives(a, i, k, f)
      /\ \A f : \A i \in 1 .. n : Gives(u, m + i, k, f) <=> Gives(b, i, k, f)
  BY <1>1, Zenon DEF Gives
<1>5. ASSUME NEW f, NEW v, LastGiven(b, n, k, f, v) PROVE LastGiven(u, m + n, k, f, v)
  <2>1. PICK j \in 1 .. n : /\ Gives(b, j, k, f) /\ v = b[j].fields[f]
                            /\ \A l \in 1 .. n : l > j => ~ Gives(b, l, k, f)
    BY <1>5 DEF LastGiven
  <2>2. m + j \in 1 .. (m + n) /\ Gives(u, m + j, k, f) /\ v = u[m + j].fields[f]
    BY <1>1, <1>3, <1>4, <2>1
  <2>3. ASSUME NEW l \in 1 .. (m + n), l > m + j PROVE ~ Gives(u, l, k, f)
    <3>1. l \notin 1 .. m
      BY <1>3, <2>3
    <3>2. l - m \in 1 .. n /\ m + (l - m) = l
      BY <1>2, <3>1
    <3>3. l - m > j
      BY <1>3, <2>3, <3>2
    <3>4. ~ Gives(b, l - m, k, f)
      BY <2>1, <3>2, <3>3
    <3> QED BY <1>4, <3>2, <3>4
  <2> QED BY <2>2, <2>3 DEF LastGiven
<1>6. ASSUME NEW f, NotGiven(b, n, k, f), NEW v, LastGiven(a, m, k, f, v)
      PROVE  LastGiven(u, m + n, k, f, v)
  <2>1. PICK j \in 1 .. m : /\ Gives(a, j, k, f) /\ v = a[j].fields[f]
                            /\ \A l \in 1 .. m : l > j => ~ Gives(a, l, k, f)
    BY <1>6 DEF LastGiven
  <2>2. j \in 1 .. (m + n) /\ Gives(u, j, k, f) /\ v = u[j].fields[f]
    BY <1>1, <1>3, <1>4, <2>1
  <2>3. ASSUME NEW l \in 1 .. (m + n), l > j PROVE ~ Gives(u, l, k, f)
    <3>1. CASE l \in 1 .. m
      BY <1>4, <2>1, <2>3, <3>1
    <3>2. CASE l - m \in 1 .. n /\ m + (l - m) = l
      <4>1. ~ Gives(b, l - m, k, f)
        BY <1>6, <3>2 DEF NotGiven
      <4> QED BY <1>4, <3>2, <4>1
    <3> QED BY <1>2, <3>1, <3>2
  <2> QED BY <2>2, <2>3 DEF LastGiven
<1>7. ASSUME NEW f, NotGiven(b, n, k, f), NotGiven(a, m, k, f)
      PROVE  NotGiven(u, m + n, k, f)
  <2> SUFFICES ASSUME NEW i \in 1 .. (m + n) PROVE ~ Gives(u, i, k, f)
    BY DEF NotGiven
  <2>1. CASE i \in 1 .. m
    BY <1>4, <1>7, <2>1 DEF NotGiven
  <2>2. CASE i - m \in 1 .. n /\ m + (i - m) = i
    <3>1. ~ Gives(b, i - m, k, f)
      BY <1>7, <2>2 DEF NotGiven
    <3> QED BY <1>4, <2>2, <3>1
  <2> QED BY <1>2, <2>1, <2>2
<1>8. ASSUME NEW c, FirstIn(a, m, k, c) PROVE FirstIn(u, m + n, k, c)
  <2>1. PICK j \in 1 .. m : /\ UD!Key(a[j]) = k /\ a[j].noupdate = c
                            /\ \A l \in 1 .. m : l < j => UD!Key(a[l]) # k
    BY <1>8 DEF FirstIn
  <2>2. \A l \in 1 .. (m + n) : l < j => l \in 1 .. m
    BY <1>1
  <2>3. \A l \in 1 .. (m + n) : l < j => UD!Key(u[l]) # k
    BY <1>1, <2>1, <2>2
  <2>4. j \in 1 .. (m + n) /\ UD!Key(u[j]) = k /\ u[j].noupdate = c
    BY <1>1, <1>3, <2>1
  <2> QED BY <2>3, <2>4 DEF FirstIn
<1> QED BY <1>1, <1>5, <1>6, <1>7, <1>8 DEF u, m, n

----------------------------------------------------------------------------
(* Parsing the files.                                                        *)

XmlKeys == BOOLEAN \X UD!XmlNames
Elements == UNION {[F -> Values] : F \in SUBSET UD!Fields}
Blocks == UNION {[K -> Elements] : K \in SUBSET XmlKeys}
Parses == [update : Blocks, noupdate : Blocks]

\* What parsing the first i nodes has: each record where its first node says, merged.
Parsed(d, nodes, i) ==
  \A k \in XmlKeys :
     /\ k \in DOMAIN d.noupdate <=> FirstIn(nodes, i, k, TRUE)
     /\ k \in DOMAIN d.update <=> FirstIn(nodes, i, k, FALSE)
     /\ k \in DOMAIN d.noupdate => SaidBy(d.noupdate[k], nodes, i, k)
     /\ k \in DOMAIN d.update => SaidBy(d.update[k], nodes, i, k)

LEMMA ElementUpdated ==
  ASSUME NEW a \in Elements, NEW b \in Elements
  PROVE  /\ UD!Updated(a, b) \in Elements
         /\ DOMAIN UD!Updated(a, b) = DOMAIN a \cup DOMAIN b
         /\ \A f \in DOMAIN b : UD!Updated(a, b)[f] = b[f]
         /\ \A f \in DOMAIN a \ DOMAIN b : UD!Updated(a, b)[f] = a[f]
<1>1. PICK F \in SUBSET UD!Fields : a \in [F -> Values]
  BY DEF Elements
<1>2. PICK G \in SUBSET UD!Fields : b \in [G -> Values]
  BY DEF Elements
<1>3. UD!Updated(a, b) \in [F \cup G -> Values]
  BY <1>1, <1>2 DEF UD!Updated
<1>4. F \cup G \in SUBSET UD!Fields
  OBVIOUS
<1> QED BY <1>1, <1>2, <1>3, <1>4 DEF Elements, UD!Updated

Single(k, e) == [x \in {k} |-> e]

LEMMA PartUpdated ==
  ASSUME NEW p \in Blocks, NEW k \in XmlKeys, NEW e \in Elements
  PROVE  LET q == UD!Updated(p, Single(k, e))
         IN  /\ q \in Blocks /\ DOMAIN q = DOMAIN p \cup {k} /\ q[k] = e
             /\ \A x \in DOMAIN p \ {k} : q[x] = p[x]
<1> DEFINE q == UD!Updated(p, Single(k, e))
<1>1. PICK K \in SUBSET XmlKeys : p \in [K -> Elements]
  BY DEF Blocks
<1>2. q \in [K \cup {k} -> Elements]
  BY <1>1 DEF UD!Updated, Single
<1>3. K \cup {k} \in SUBSET XmlKeys
  OBVIOUS
<1> QED BY <1>1, <1>2, <1>3 DEF Blocks, UD!Updated, Single

LEMMA NothingParsed ==
  /\ UD!NoRecord \in Elements /\ UD!NoRecord \in Blocks
  /\ [update |-> UD!NoRecord, noupdate |-> UD!NoRecord] \in Parses
  /\ DOMAIN UD!NoRecord = {}
<1>1. UD!NoRecord \in [{} -> Values] /\ UD!NoRecord \in [{} -> Elements] /\ DOMAIN UD!NoRecord = {}
  BY DEF UD!NoRecord
<1>2. UD!NoRecord \in Elements
  BY <1>1 DEF Elements
<1>3. UD!NoRecord \in Blocks
  BY <1>1 DEF Blocks
<1> QED BY <1>1, <1>2, <1>3 DEF Parses

\* What is known of a record.
LEMMA RecordKnown ==
  ASSUME NEW d \in Parses, NEW k \in XmlKeys
  PROVE  /\ UD!RecordOf(d, k) \in Elements
         /\ k \in DOMAIN d.noupdate => UD!RecordOf(d, k) = d.noupdate[k]
         /\ k \in DOMAIN d.update /\ k \notin DOMAIN d.noupdate => UD!RecordOf(d, k) = d.update[k]
         /\ k \notin DOMAIN d.update \cup DOMAIN d.noupdate => UD!RecordOf(d, k) = UD!NoRecord
<1>1. d.update \in Blocks /\ d.noupdate \in Blocks
  BY DEF Parses
<1>2. \A p \in Blocks : \A x \in DOMAIN p : p[x] \in Elements
  BY DEF Blocks
<1> QED BY <1>1, <1>2, NothingParsed DEF UD!RecordOf

LEMMA NodeProcessed ==
  ASSUME udCase \in Upgrades, UD!Assumption, NEW d \in Parses, NEW node \in UD!Nodes(UD!Fields)
  PROVE  LET k == UD!Key(node)
             r == UD!ProcessRecordNode(d, node)
             merged == UD!Updated(UD!RecordOf(d, k), node.fields)
         IN  /\ k \in XmlKeys /\ r \in Parses
             /\ k \in DOMAIN d.noupdate \/ (k \notin DOMAIN d.update /\ node.noupdate) =>
                  /\ r.update = d.update /\ DOMAIN r.noupdate = DOMAIN d.noupdate \cup {k}
                  /\ r.noupdate[k] = merged
                  /\ \A x \in DOMAIN d.noupdate \ {k} : r.noupdate[x] = d.noupdate[x]
             /\ ~ (k \in DOMAIN d.noupdate \/ (k \notin DOMAIN d.update /\ node.noupdate)) =>
                  /\ r.noupdate = d.noupdate /\ DOMAIN r.update = DOMAIN d.update \cup {k}
                  /\ r.update[k] = merged
                  /\ \A x \in DOMAIN d.update \ {k} : r.update[x] = d.update[x]
<1> DEFINE k == UD!Key(node)
           r == UD!ProcessRecordNode(d, node)
           merged == UD!Updated(UD!RecordOf(d, k), node.fields)
<1>1. k \in XmlKeys /\ node.fields \in Elements
  BY NodeFacts DEF XmlKeys, UD!Key, Elements
<1>2. merged \in Elements
  BY <1>1, RecordKnown, ElementUpdated
<1>3. d.update \in Blocks /\ d.noupdate \in Blocks
  BY DEF Parses
<1>4. CASE k \in DOMAIN d.noupdate \/ (k \notin DOMAIN d.update /\ node.noupdate)
  <2>1. r = [update |-> d.update, noupdate |-> UD!Updated(d.noupdate, Single(k, merged))]
    BY <1>4, Zenon DEF UD!ProcessRecordNode, Single
  <2> HIDE DEF k, r, merged
  <2>2. r.update = d.update /\ r.noupdate = UD!Updated(d.noupdate, Single(k, merged))
    BY <2>1
  <2> DEFINE p == d.noupdate
             q == UD!Updated(p, Single(k, merged))
  <2>0. p \in Blocks /\ r.noupdate = q
    BY <1>3, <2>2
  <2> HIDE DEF p
  <2>5. /\ q \in Blocks /\ DOMAIN q = DOMAIN p \cup {k} /\ q[k] = merged
        /\ \A x \in DOMAIN p \ {k} : q[x] = p[x]
    BY <1>1, <1>2, <2>0, PartUpdated
  <2> HIDE DEF q
  <2>3. /\ r.noupdate \in Blocks /\ DOMAIN r.noupdate = DOMAIN d.noupdate \cup {k}
        /\ r.noupdate[k] = merged
        /\ \A x \in DOMAIN d.noupdate \ {k} : r.noupdate[x] = d.noupdate[x]
    BY <2>0, <2>5 DEF p
  <2>4. r \in Parses
    BY <1>3, <2>1, <2>2, <2>3 DEF Parses
  <2> QED BY <1>1, <1>4, <2>2, <2>3, <2>4 DEF k, r, merged
<1>5. CASE ~ (k \in DOMAIN d.noupdate \/ (k \notin DOMAIN d.update /\ node.noupdate))
  <2>1. r = [update |-> UD!Updated(d.update, Single(k, merged)), noupdate |-> d.noupdate]
    BY <1>5, Zenon DEF UD!ProcessRecordNode, Single
  <2> HIDE DEF k, r, merged
  <2>2. r.noupdate = d.noupdate /\ r.update = UD!Updated(d.update, Single(k, merged))
    BY <2>1
  <2> DEFINE p == d.update
             q == UD!Updated(p, Single(k, merged))
  <2>0. p \in Blocks /\ r.update = q
    BY <1>3, <2>2
  <2> HIDE DEF p
  <2>5. /\ q \in Blocks /\ DOMAIN q = DOMAIN p \cup {k} /\ q[k] = merged
        /\ \A x \in DOMAIN p \ {k} : q[x] = p[x]
    BY <1>1, <1>2, <2>0, PartUpdated
  <2> HIDE DEF q
  <2>3. /\ r.update \in Blocks /\ DOMAIN r.update = DOMAIN d.update \cup {k}
        /\ r.update[k] = merged
        /\ \A x \in DOMAIN d.update \ {k} : r.update[x] = d.update[x]
    BY <2>0, <2>5 DEF p
  <2>4. r \in Parses
    BY <1>3, <2>1, <2>2, <2>3 DEF Parses
  <2> QED BY <1>1, <1>5, <2>2, <2>3, <2>4 DEF k, r, merged
<1> QED BY <1>4, <1>5

\* One node more is merged with what is known of its record, and changes nothing else.
LEMMA SaidStep ==
  ASSUME NEW nodes, NEW i \in Nat, NEW k, NEW a \in Elements, nodes[i + 1].fields \in Elements,
         SaidBy(a, nodes, i, k)
  PROVE  /\ UD!Key(nodes[i + 1]) = k
              => SaidBy(UD!Updated(a, nodes[i + 1].fields), nodes, i + 1, k)
         /\ UD!Key(nodes[i + 1]) # k => SaidBy(a, nodes, i + 1, k)
<1> DEFINE b == nodes[i + 1].fields
           c == UD!Updated(a, b)
<1>1. /\ DOMAIN c = DOMAIN a \cup DOMAIN b /\ c \in Elements
      /\ \A f \in DOMAIN b : c[f] = b[f]
      /\ \A f \in DOMAIN a \ DOMAIN b : c[f] = a[f]
  BY ElementUpdated
<1>2. \A e \in Elements : DOMAIN e \subseteq UD!Fields
  BY DEF Elements
<1> HIDE DEF c
<1>3. ASSUME UD!Key(nodes[i + 1]) = k, NEW f \in UD!Fields
      PROVE  /\ f \in DOMAIN c => LastGiven(nodes, i + 1, k, f, c[f])
             /\ f \notin DOMAIN c => NotGiven(nodes, i + 1, k, f)
  <2>1. CASE f \in DOMAIN b
    <3>1. Gives(nodes, i + 1, k, f) /\ c[f] = b[f]
      BY <1>1, <1>3, <2>1 DEF Gives
    <3> QED BY <1>1, <2>1, <3>1, GivenStep
  <2>2. CASE f \notin DOMAIN b
    <3>1. ~ Gives(nodes, i + 1, k, f)
      BY <2>2 DEF Gives
    <3>2. f \in DOMAIN a => c[f] = a[f] /\ LastGiven(nodes, i, k, f, a[f])
      BY <1>1, <2>2 DEF SaidBy
    <3>3. f \notin DOMAIN a => NotGiven(nodes, i, k, f)
      BY DEF SaidBy
    <3> QED BY <1>1, <2>2, <3>1, <3>2, <3>3, GivenStep
  <2> QED BY <2>1, <2>2
<1>4. ASSUME UD!Key(nodes[i + 1]) # k, NEW f \in UD!Fields
      PROVE  /\ f \in DOMAIN a => LastGiven(nodes, i + 1, k, f, a[f])
             /\ f \notin DOMAIN a => NotGiven(nodes, i + 1, k, f)
  <2>1. ~ Gives(nodes, i + 1, k, f)
    BY <1>4 DEF Gives
  <2> QED BY <2>1, GivenStep DEF SaidBy
<1> QED BY <1>1, <1>2, <1>3, <1>4 DEF SaidBy, c

LEMMA ParsedStep ==
  ASSUME udCase \in Upgrades, UD!Assumption, NEW d \in Parses, NEW nodes \in Seq(UD!Nodes(UD!Fields)),
         NEW i \in 0 .. (Len(nodes) - 1), Parsed(d, nodes, i)
  PROVE  Parsed(UD!ProcessRecordNode(d, nodes[i + 1]), nodes, i + 1)
<1> DEFINE node == nodes[i + 1]
           k == UD!Key(node)
           r == UD!ProcessRecordNode(d, node)
           merged == UD!Updated(UD!RecordOf(d, k), node.fields)
<1>1. /\ node \in UD!Nodes(UD!Fields) /\ i \in Nat
      /\ \A j \in 1 .. (i + 1) : nodes[j] \in UD!Nodes(UD!Fields)
      /\ i + 1 \in Nat /\ \A j \in 1 .. i : j \in 1 .. (i + 1)
  OBVIOUS
<1>2. /\ k \in XmlKeys /\ r \in Parses
      /\ k \in DOMAIN d.noupdate \/ (k \notin DOMAIN d.update /\ node.noupdate) =>
           /\ r.update = d.update /\ DOMAIN r.noupdate = DOMAIN d.noupdate \cup {k}
           /\ r.noupdate[k] = merged
           /\ \A x \in DOMAIN d.noupdate \ {k} : r.noupdate[x] = d.noupdate[x]
      /\ ~ (k \in DOMAIN d.noupdate \/ (k \notin DOMAIN d.update /\ node.noupdate)) =>
           /\ r.noupdate = d.noupdate /\ DOMAIN r.update = DOMAIN d.update \cup {k}
           /\ r.update[k] = merged
           /\ \A x \in DOMAIN d.update \ {k} : r.update[x] = d.update[x]
  <2> HIDE DEF node
  <2> QED BY <1>1, NodeProcessed
<1>3. node.fields \in Elements /\ node.noupdate \in BOOLEAN
      /\ \A j \in 1 .. (i + 1) : nodes[j].noupdate \in BOOLEAN
  <2>1. node.fields \in Elements /\ node.noupdate \in BOOLEAN
    BY <1>1, NodeFacts DEF Elements
  <2>2. \A x \in UD!Nodes(UD!Fields) : x.noupdate \in BOOLEAN
    BY NodeFacts
  <2> QED BY <1>1, <2>1, <2>2
<1>4. UD!RecordOf(d, k) \in Elements /\ SaidBy(UD!RecordOf(d, k), nodes, i, k)
  <2>1. CASE k \in DOMAIN d.noupdate
    BY <1>2, <2>1, RecordKnown DEF Parsed
  <2>2. CASE k \in DOMAIN d.update /\ k \notin DOMAIN d.noupdate
    BY <1>2, <2>2, RecordKnown DEF Parsed
  <2>3. CASE k \notin DOMAIN d.update \cup DOMAIN d.noupdate
    <3>1. \A j \in 1 .. i : UD!Key(nodes[j]) # k
      BY <1>1, <1>2, <1>3, <2>3, HasFirst DEF Parsed
    <3>2. UD!RecordOf(d, k) = UD!NoRecord
      BY <1>2, <2>3, RecordKnown
    <3> QED BY <3>1, <3>2, NothingParsed DEF SaidBy, NotGiven, Gives
  <2> QED BY <2>1, <2>2, <2>3
<1>5. SaidBy(merged, nodes, i + 1, k)
  BY <1>1, <1>3, <1>4, SaidStep
<1>6. ASSUME NEW x \in XmlKeys, x # k, NEW b
      PROVE  /\ FirstIn(nodes, i + 1, x, b) <=> FirstIn(nodes, i, x, b)
             /\ \A e \in Elements : SaidBy(e, nodes, i, x) => SaidBy(e, nodes, i + 1, x)
  BY <1>1, <1>3, <1>6, FirstStep, SaidStep
<1>7. FirstIn(nodes, i, k, TRUE) =>
        /\ FirstIn(nodes, i + 1, k, TRUE)
        /\ ~ FirstIn(nodes, i, k, FALSE) /\ ~ FirstIn(nodes, i + 1, k, FALSE)
  <2>1. FirstIn(nodes, i, k, TRUE) => FirstIn(nodes, i + 1, k, TRUE)
    BY <1>1, FirstKept
  <2>2. ~ (FirstIn(nodes, i, k, TRUE) /\ FirstIn(nodes, i, k, FALSE))
    BY <1>1, <1>3, HasFirst
  <2>3. ~ (FirstIn(nodes, i + 1, k, TRUE) /\ FirstIn(nodes, i + 1, k, FALSE))
    BY <1>1, <1>3, HasFirst
  <2> QED BY <2>1, <2>2, <2>3
<1>8. FirstIn(nodes, i, k, FALSE) =>
        /\ FirstIn(nodes, i + 1, k, FALSE)
        /\ ~ FirstIn(nodes, i, k, TRUE) /\ ~ FirstIn(nodes, i + 1, k, TRUE)
  <2>1. FirstIn(nodes, i, k, FALSE) => FirstIn(nodes, i + 1, k, FALSE)
    BY <1>1, FirstKept
  <2>2. ~ (FirstIn(nodes, i, k, TRUE) /\ FirstIn(nodes, i, k, FALSE))
    BY <1>1, <1>3, HasFirst
  <2>3. ~ (FirstIn(nodes, i + 1, k, TRUE) /\ FirstIn(nodes, i + 1, k, FALSE))
    BY <1>1, <1>3, HasFirst
  <2> QED BY <2>1, <2>2, <2>3
<1>9. ASSUME ~ FirstIn(nodes, i, k, TRUE), ~ FirstIn(nodes, i, k, FALSE)
      PROVE  /\ FirstIn(nodes, i + 1, k, TRUE) <=> node.noupdate
             /\ FirstIn(nodes, i + 1, k, FALSE) <=> ~ node.noupdate
  <2>1. \A j \in 1 .. i : UD!Key(nodes[j]) # k
    BY <1>1, <1>3, <1>9, HasFirst
  <2>2. ASSUME NEW b, nodes[i + 1].noupdate = b PROVE FirstIn(nodes, i + 1, k, b)
    BY <1>1, <2>1, <2>2, FirstStep
  <2>3. ASSUME NEW b, ~ FirstIn(nodes, i, k, b), FirstIn(nodes, i + 1, k, b)
        PROVE  nodes[i + 1].noupdate = b
    BY <1>1, <2>3, FirstStep
  <2>4. node.noupdate = TRUE \/ node.noupdate = FALSE
    BY <1>3
  <2> QED BY <1>9, <2>2, <2>3, <2>4
<1>10. \A x \in XmlKeys : /\ x \in DOMAIN d.noupdate => d.noupdate[x] \in Elements
                          /\ x \in DOMAIN d.update => d.update[x] \in Elements
  BY DEF Parses, Blocks
<1> HIDE DEF node, k, r, merged
<1>11. ASSUME NEW x \in XmlKeys
       PROVE  /\ x \in DOMAIN r.noupdate <=> FirstIn(nodes, i + 1, x, TRUE)
              /\ x \in DOMAIN r.update <=> FirstIn(nodes, i + 1, x, FALSE)
              /\ x \in DOMAIN r.noupdate => SaidBy(r.noupdate[x], nodes, i + 1, x)
              /\ x \in DOMAIN r.update => SaidBy(r.update[x], nodes, i + 1, x)
  <2>0. /\ x \in DOMAIN d.noupdate <=> FirstIn(nodes, i, x, TRUE)
        /\ x \in DOMAIN d.update <=> FirstIn(nodes, i, x, FALSE)
        /\ x \in DOMAIN d.noupdate => SaidBy(d.noupdate[x], nodes, i, x)
        /\ x \in DOMAIN d.update => SaidBy(d.update[x], nodes, i, x)
    BY DEF Parsed
  <2>1. CASE x # k
    BY <1>2, <1>6, <1>10, <2>0, <2>1
  <2>2. CASE x = k /\ k \in DOMAIN d.noupdate
    BY <1>2, <1>5, <1>7, <2>0, <2>2
  <2>3. CASE x = k /\ k \notin DOMAIN d.noupdate /\ k \in DOMAIN d.update
    BY <1>2, <1>5, <1>8, <2>0, <2>3
  <2>4. CASE x = k /\ k \notin DOMAIN d.noupdate /\ k \notin DOMAIN d.update
    BY <1>2, <1>5, <1>9, <2>0, <2>4
  <2> QED BY <2>1, <2>2, <2>3, <2>4
<1> QED BY <1>11 DEF Parsed, r, node

\* Parsing files is a chain.
LEMMA ParseRuns ==
  ASSUME udCase \in Upgrades, UD!Assumption, NEW nodes \in Seq(UD!Nodes(UD!Fields))
  PROVE  \E h : /\ h[0] = [update |-> UD!NoRecord, noupdate |-> UD!NoRecord]
                /\ h[Len(nodes)] = UD!ParseFiles(nodes)
                /\ \A i \in 0 .. (Len(nodes) - 1) : h[i + 1] = UD!ProcessRecordNode(h[i], nodes[i + 1])
                /\ \A i \in 0 .. Len(nodes) : h[i] \in Parses
<1> DEFINE Op(x, j) == UD!ProcessRecordNode(x, nodes[j])
           n == Len(nodes)
           A == Parses
           base == [update |-> UD!NoRecord, noupdate |-> UD!NoRecord]
           op == [x \in A \X (1 .. n) |-> Op(x[1], x[2])]
           f == CHOOSE g : g = [s \in SUBSET (1 .. n) |->
                   IF s = {} THEN base ELSE Op(g[s \ {UD!Max(s)}], UD!Max(s))]
           h == [i \in 0 .. n |-> f[1 .. i]]
<1>1. UD!ParseFiles(nodes) = f[1 .. n]
  <2>1. DOMAIN nodes = 1 .. Len(nodes)
    OBVIOUS
  <2> QED BY <2>1 DEF UD!ParseFiles, UD!FoldLeft, UD!MapThenFoldSet
<1>2. n \in Nat /\ base \in A /\ \A x \in A, i \in 1 .. n : Op(x, i) \in A
  <2>1. n \in Nat /\ \A i \in 1 .. n : nodes[i] \in UD!Nodes(UD!Fields)
    OBVIOUS
  <2>2. ASSUME NEW x \in Parses, NEW i \in 1 .. n PROVE Op(x, i) \in Parses
    <3>1. nodes[i] \in UD!Nodes(UD!Fields)
      BY <2>1
    <3> QED BY <3>1, NodeProcessed
  <2> QED BY <2>1, <2>2, NothingParsed
<1>3. \A i \in 0 .. (n - 1) : Op(h[i], i + 1) = UD!ProcessRecordNode(h[i], nodes[i + 1])
  OBVIOUS
<1> HIDE DEF Op, n, A, base
<1>4. op \in [A \X (1 .. n) -> A] /\ \A x \in A, i \in 1 .. n : op[x, i] = Op(x, i)
  BY <1>2, Zenon
<1> HIDE DEF op
<1>5. PICK g : Folds(g, n, A, base, op)
  BY <1>2, <1>4, FoldExists, Zenon
<1>6. ASSUME NEW s \in SUBSET (1 .. n)
      PROVE  g[s] = IF s = {} THEN base ELSE Op(g[s \ {UD!Max(s)}], UD!Max(s))
  <2>1. s # {} => UD!Max(s) \in 1 .. n /\ g[s \ {UD!Max(s)}] \in A
    BY <1>2, <1>5, LastIndex, Zenon DEF Folds
  <2> QED BY <1>4, <1>5, <2>1, Zenon DEF Folds
<1>7. g = [s \in SUBSET (1 .. n) |->
             IF s = {} THEN base ELSE Op(g[s \ {UD!Max(s)}], UD!Max(s))]
  BY <1>5, <1>6, Zenon DEF Folds
<1>8. f = [s \in SUBSET (1 .. n) |->
             IF s = {} THEN base ELSE Op(f[s \ {UD!Max(s)}], UD!Max(s))]
  BY <1>7
<1> HIDE DEF f
<1>9. Follows(f, n, A, base, op)
  <2>1. \A s \in SUBSET (1 .. n) : s # {} => UD!Max(s) \in 1 .. n
    BY <1>2, LastIndex
  <2>2. {} \in SUBSET (1 .. n)
    OBVIOUS
  <2> QED BY <1>4, <1>8, <2>1, <2>2, Zenon DEF Follows
<1>10. IsChain(h, n, A, base, op)
  BY <1>2, <1>4, <1>9, Chain, Zenon
<1>11. h[n] = f[1 .. n] /\ \A i \in 0 .. (n - 1) : i \in 0 .. n /\ i + 1 \in 1 .. n
  BY <1>2
<1> HIDE DEF h
<1>12. \A i \in 0 .. (n - 1) : h[i + 1] = UD!ProcessRecordNode(h[i], nodes[i + 1])
  BY <1>3, <1>4, <1>10, <1>11, Zenon DEF IsChain
<1>13. h[0] = base /\ h[n] = UD!ParseFiles(nodes) /\ \A i \in 0 .. n : h[i] \in A
  BY <1>1, <1>10, <1>11, Zenon DEF IsChain
<1> QED BY <1>12, <1>13 DEF n, A, base

\* What parsing gives.
LEMMA ParsedFiles ==
  ASSUME udCase \in Upgrades, UD!Assumption, NEW nodes \in Seq(UD!Nodes(UD!Fields))
  PROVE  /\ UD!ParseFiles(nodes) \in Parses
         /\ Parsed(UD!ParseFiles(nodes), nodes, Len(nodes))
<1> DEFINE n == Len(nodes)
<1>1. n \in Nat
  OBVIOUS
<1>2. PICK h : /\ h[0] = [update |-> UD!NoRecord, noupdate |-> UD!NoRecord]
               /\ h[n] = UD!ParseFiles(nodes)
               /\ \A i \in 0 .. (n - 1) : h[i + 1] = UD!ProcessRecordNode(h[i], nodes[i + 1])
               /\ \A i \in 0 .. n : h[i] \in Parses
  BY ParseRuns
<1> DEFINE S == {i \in 0 .. n : Parsed(h[i], nodes, i)}
<1>3. 0 \in S
  <2>1. h[0].update = UD!NoRecord /\ h[0].noupdate = UD!NoRecord /\ 0 \in 0 .. n
    BY <1>1, <1>2
  <2>2. \A k, b : ~ FirstIn(nodes, 0, k, b)
    BY FirstStep
  <2> QED BY <2>1, <2>2, NothingParsed DEF Parsed
<1>4. ASSUME NEW i \in 0 .. (n - 1), i \in S PROVE i + 1 \in S
  <2>1. i \in 0 .. n /\ i + 1 \in 0 .. n
    BY <1>1
  <2>2. Parsed(UD!ProcessRecordNode(h[i], nodes[i + 1]), nodes, i + 1)
    BY <1>2, <1>4, <2>1, ParsedStep
  <2> QED BY <1>2, <2>1, <2>2
<1> HIDE DEF S
<1>5. n \in S
  <2>1. \A i \in 0 .. n : i \in S
    BY <1>1, <1>3, <1>4, UpTo
  <2> QED BY <1>1, <2>1
<1> QED BY <1>1, <1>2, <1>5 DEF S

----------------------------------------------------------------------------
(* The files of the old modules.                                             *)

Occurs(nodes, k) == \E i \in 1 .. Len(nodes) : UD!Key(nodes[i]) = k

LEMMA OccursBehind ==
  ASSUME NEW S, NEW a \in Seq(S), NEW b \in Seq(S), NEW k
  PROVE  /\ Occurs(a \o b, k) <=> Occurs(a, k) \/ Occurs(b, k)
         /\ ~ Occurs(a, k) => \A f : NotGiven(a, Len(a), k, f)
<1> DEFINE u == a \o b
           m == Len(a)
           n == Len(b)
<1>1. m \in Nat /\ n \in Nat /\ Len(u) = m + n
      /\ (\A i \in 1 .. m : u[i] = a[i]) /\ \A i \in 1 .. n : u[m + i] = b[i]
  OBVIOUS
<1>2. \A i \in 1 .. (m + n) : i \in 1 .. m \/ (i - m \in 1 .. n /\ m + (i - m) = i)
  BY <1>1
<1>3. /\ \A i \in 1 .. m : i \in 1 .. (m + n)
      /\ \A i \in 1 .. n : m + i \in 1 .. (m + n)
  BY <1>1
<1> HIDE DEF u, m, n
<1>4. ASSUME NEW i \in 1 .. (m + n), UD!Key(u[i]) = k
      PROVE  (\E j \in 1 .. m : UD!Key(a[j]) = k) \/ (\E j \in 1 .. n : UD!Key(b[j]) = k)
  <2>1. CASE i \in 1 .. m
    BY <1>1, <1>4, <2>1
  <2>2. CASE i - m \in 1 .. n /\ m + (i - m) = i
    <3>1. u[i] = b[i - m]
      BY <1>1, <2>2
    <3> QED BY <1>4, <2>2, <3>1
  <2> QED BY <1>2, <2>1, <2>2
<1>5. ASSUME NEW j \in 1 .. m, UD!Key(a[j]) = k PROVE \E i \in 1 .. (m + n) : UD!Key(u[i]) = k
  BY <1>1, <1>3, <1>5
<1>6. ASSUME NEW j \in 1 .. n, UD!Key(b[j]) = k PROVE \E i \in 1 .. (m + n) : UD!Key(u[i]) = k
  BY <1>1, <1>3, <1>6
<1>7. ~ Occurs(a, k) => \A f : NotGiven(a, m, k, f)
  BY DEF Occurs, NotGiven, Gives, m
<1>8. Occurs(u, k) <=> Occurs(a, k) \/ Occurs(b, k)
  BY <1>1, <1>4, <1>5, <1>6 DEF Occurs, m, n
<1> QED BY <1>7, <1>8 DEF u, m

\* A record that files have is where they are parsed.
LEMMA FilesKnown ==
  ASSUME udCase \in Upgrades, UD!Assumption, NEW nodes \in Seq(UD!Nodes(UD!Fields)), NEW k \in XmlKeys
  PROVE  /\ k \in DOMAIN UD!ParseFiles(nodes).noupdate \cup DOMAIN UD!ParseFiles(nodes).update
              <=> Occurs(nodes, k)
         /\ SaidBy(UD!RecordOf(UD!ParseFiles(nodes), k), nodes, Len(nodes), k)
<1> DEFINE d == UD!ParseFiles(nodes)
           n == Len(nodes)
<1>1. d \in Parses /\ Parsed(d, nodes, n)
  BY ParsedFiles
<1>2. n \in Nat /\ \A j \in 1 .. n : nodes[j].noupdate \in BOOLEAN
  <2>1. n \in Nat /\ \A j \in 1 .. n : nodes[j] \in UD!Nodes(UD!Fields)
    OBVIOUS
  <2>2. \A x \in UD!Nodes(UD!Fields) : x.noupdate \in BOOLEAN
    BY NodeFacts
  <2> QED BY <2>1, <2>2
<1> HIDE DEF d
<1>3. /\ k \in DOMAIN d.noupdate <=> FirstIn(nodes, n, k, TRUE)
      /\ k \in DOMAIN d.update <=> FirstIn(nodes, n, k, FALSE)
      /\ k \in DOMAIN d.noupdate => SaidBy(d.noupdate[k], nodes, n, k)
      /\ k \in DOMAIN d.update => SaidBy(d.update[k], nodes, n, k)
  BY <1>1 DEF Parsed
<1>4. k \in DOMAIN d.noupdate \cup DOMAIN d.update <=> Occurs(nodes, k)
  BY <1>2, <1>3, HasFirst DEF Occurs
<1>5. SaidBy(UD!RecordOf(d, k), nodes, n, k)
  <2>1. CASE k \in DOMAIN d.noupdate
    BY <1>1, <1>3, <2>1, RecordKnown
  <2>2. CASE k \in DOMAIN d.update /\ k \notin DOMAIN d.noupdate
    BY <1>1, <1>3, <2>2, RecordKnown
  <2>3. CASE k \notin DOMAIN d.update \cup DOMAIN d.noupdate
    <3>1. \A j \in 1 .. n : UD!Key(nodes[j]) # k
      BY <1>4, <2>3 DEF Occurs
    <3>2. UD!RecordOf(d, k) = UD!NoRecord
      BY <1>1, <2>3, RecordKnown
    <3> QED BY <3>1, <3>2, NothingParsed DEF SaidBy, NotGiven, Gives
  <2> QED BY <2>1, <2>2, <2>3
<1> QED BY <1>4, <1>5 DEF d

\* Files that come behind others leave a record in the block it has.
LEMMA BlockKept ==
  ASSUME udCase \in Upgrades, UD!Assumption, NEW a \in Seq(UD!Nodes(UD!Fields)),
         NEW b \in Seq(UD!Nodes(UD!Fields))
  PROVE  LET d == UD!ParseFiles(a)
             e == UD!ParseFiles(a \o b)
         IN  UD!Updated(d.update, e.update) = e.update /\ UD!Updated(d.noupdate, e.noupdate) = e.noupdate
<1> DEFINE d == UD!ParseFiles(a)
           e == UD!ParseFiles(a \o b)
<1>1. a \o b \in Seq(UD!Nodes(UD!Fields))
  OBVIOUS
<1>2. d \in Parses /\ Parsed(d, a, Len(a)) /\ e \in Parses /\ Parsed(e, a \o b, Len(a \o b))
  BY <1>1, ParsedFiles
<1>3. \A k, c : FirstIn(a, Len(a), k, c) => FirstIn(a \o b, Len(a \o b), k, c)
  BY GivenBehind
<1> HIDE DEF d, e
<1>4. DOMAIN d.update \subseteq XmlKeys /\ DOMAIN d.noupdate \subseteq XmlKeys
  BY <1>2 DEF Parses, Blocks
<1>5. DOMAIN d.update \subseteq DOMAIN e.update /\ DOMAIN d.noupdate \subseteq DOMAIN e.noupdate
  BY <1>2, <1>3, <1>4 DEF Parsed
<1>6. \A p, q \in Blocks : DOMAIN p \subseteq DOMAIN q => UD!Updated(p, q) = q
  BY DEF UD!Updated, Blocks
<1>7. d.update \in Blocks /\ d.noupdate \in Blocks /\ e.update \in Blocks /\ e.noupdate \in Blocks
  BY <1>2 DEF Parses
<1> QED BY <1>5, <1>6, <1>7 DEF d, e

\* What is known of the old modules is what parsing all their files gives.
AsParsed(nodes) == [files |-> nodes, update |-> UD!ParseFiles(nodes).update,
                    noupdate |-> UD!ParseFiles(nodes).noupdate]
Collections == {AsParsed(nodes) : nodes \in Seq(UD!Nodes(UD!Fields))}

LEMMA RemoteAdded ==
  ASSUME udCase \in Upgrades, UD!Assumption, NEW m, NEW a \in Seq(UD!Nodes(UD!Fields)),
         udOld[m] \in Seq(UD!Nodes(UD!Fields))
  PROVE  UD!AddRemote(AsParsed(a), m) = AsParsed(a \o udOld[m])
<1> DEFINE d == UD!ParseFiles(a)
           e == UD!ParseFiles(a \o udOld[m])
<1>1. UD!Updated(d.update, e.update) = e.update /\ UD!Updated(d.noupdate, e.noupdate) = e.noupdate
  BY BlockKept
<1> HIDE DEF d, e
<1>2. UD!AddRemote(AsParsed(a), m) = [files |-> a \o udOld[m], update |-> UD!Updated(d.update, e.update),
                                      noupdate |-> UD!Updated(d.noupdate, e.noupdate)]
  BY DEF UD!AddRemote, AsParsed, d, e
<1> QED BY <1>1, <1>2 DEF AsParsed, d, e

LEMMA RemoteRuns ==
  ASSUME udCase \in Upgrades, UD!Assumption,
         udOld \in [UD!RemoteModules -> Seq(UD!Nodes(UD!Fields))]
  PROVE  \E h : /\ h[0] = AsParsed(<<>>) /\ h[Len(udCase.remote)] = UD!RemoteFiles
                /\ \A i \in 0 .. (Len(udCase.remote) - 1) :
                     h[i + 1] = UD!AddRemote(h[i], udCase.remote[i + 1])
                /\ \A i \in 0 .. Len(udCase.remote) : h[i] \in Collections
<1> DEFINE Op(x, j) == UD!AddRemote(x, udCase.remote[j])
           n == Len(udCase.remote)
           A == Collections
           base == [files |-> <<>>, update |-> UD!NoRecord, noupdate |-> UD!NoRecord]
           op == [x \in A \X (1 .. n) |-> Op(x[1], x[2])]
           f == CHOOSE g : g = [s \in SUBSET (1 .. n) |->
                   IF s = {} THEN base ELSE Op(g[s \ {UD!Max(s)}], UD!Max(s))]
           h == [i \in 0 .. n |-> f[1 .. i]]
<1>0. base = AsParsed(<<>>) /\ <<>> \in Seq(UD!Nodes(UD!Fields))
  <2>1. <<>> \in Seq(UD!Nodes(UD!Fields)) /\ Len(<<>>) = 0
    OBVIOUS
  <2>2. PICK g : /\ g[0] = [update |-> UD!NoRecord, noupdate |-> UD!NoRecord]
                 /\ g[Len(<<>>)] = UD!ParseFiles(<<>>)
    BY <2>1, ParseRuns
  <2>3. UD!ParseFiles(<<>>) = [update |-> UD!NoRecord, noupdate |-> UD!NoRecord]
    BY <2>1, <2>2
  <2> QED BY <2>1, <2>3 DEF AsParsed
<1>1. UD!RemoteFiles = f[1 .. n]
  <2>1. DOMAIN udCase.remote = 1 .. Len(udCase.remote)
    BY CaseModules
  <2> QED BY <2>1 DEF UD!RemoteFiles, UD!FoldLeft, UD!MapThenFoldSet
<1>2. n \in Nat /\ base \in A /\ \A x \in A, i \in 1 .. n : Op(x, i) \in A
  <2>1. /\ n \in Nat
        /\ \A i \in 1 .. n : /\ udCase.remote[i] \in UD!RemoteModules
                             /\ udOld[udCase.remote[i]] \in Seq(UD!Nodes(UD!Fields))
    BY CaseModules
  <2>2. ASSUME NEW a \in Seq(UD!Nodes(UD!Fields)), NEW i \in 1 .. n
        PROVE  Op(AsParsed(a), i) \in A
    <3>1. a \o udOld[udCase.remote[i]] \in Seq(UD!Nodes(UD!Fields))
      BY <2>1
    <3>2. Op(AsParsed(a), i) = AsParsed(a \o udOld[udCase.remote[i]])
      BY <2>1, RemoteAdded
    <3> QED BY <3>1, <3>2 DEF Collections
  <2>3. \A x \in A : \E a \in Seq(UD!Nodes(UD!Fields)) : x = AsParsed(a)
    BY DEF Collections
  <2>4. base \in A
    BY <1>0 DEF Collections
  <2> QED BY <2>1, <2>2, <2>3, <2>4
<1>3. \A i \in 0 .. (n - 1) : Op(h[i], i + 1) = UD!AddRemote(h[i], udCase.remote[i + 1])
  OBVIOUS
<1> HIDE DEF Op, n, A, base
<1>4. op \in [A \X (1 .. n) -> A] /\ \A x \in A, i \in 1 .. n : op[x, i] = Op(x, i)
  BY <1>2, Zenon
<1> HIDE DEF op
<1>5. PICK g : Folds(g, n, A, base, op)
  BY <1>2, <1>4, FoldExists, Zenon
<1>6. ASSUME NEW s \in SUBSET (1 .. n)
      PROVE  g[s] = IF s = {} THEN base ELSE Op(g[s \ {UD!Max(s)}], UD!Max(s))
  <2>1. s # {} => UD!Max(s) \in 1 .. n /\ g[s \ {UD!Max(s)}] \in A
    BY <1>2, <1>5, LastIndex, Zenon DEF Folds
  <2> QED BY <1>4, <1>5, <2>1, Zenon DEF Folds
<1>7. g = [s \in SUBSET (1 .. n) |->
             IF s = {} THEN base ELSE Op(g[s \ {UD!Max(s)}], UD!Max(s))]
  BY <1>5, <1>6, Zenon DEF Folds
<1>8. f = [s \in SUBSET (1 .. n) |->
             IF s = {} THEN base ELSE Op(f[s \ {UD!Max(s)}], UD!Max(s))]
  BY <1>7
<1> HIDE DEF f
<1>9. Follows(f, n, A, base, op)
  <2>1. \A s \in SUBSET (1 .. n) : s # {} => UD!Max(s) \in 1 .. n
    BY <1>2, LastIndex
  <2>2. {} \in SUBSET (1 .. n)
    OBVIOUS
  <2> QED BY <1>4, <1>8, <2>1, <2>2, Zenon DEF Follows
<1>10. IsChain(h, n, A, base, op)
  BY <1>2, <1>4, <1>9, Chain, Zenon
<1>11. h[n] = f[1 .. n] /\ \A i \in 0 .. (n - 1) : i \in 0 .. n /\ i + 1 \in 1 .. n
  BY <1>2
<1> HIDE DEF h
<1>12. \A i \in 0 .. (n - 1) : h[i + 1] = UD!AddRemote(h[i], udCase.remote[i + 1])
  BY <1>3, <1>4, <1>10, <1>11, Zenon DEF IsChain
<1>13. h[0] = base /\ h[n] = UD!RemoteFiles /\ \A i \in 0 .. n : h[i] \in A
  BY <1>1, <1>10, <1>11, Zenon DEF IsChain
<1> QED BY <1>0, <1>12, <1>13 DEF n, A

\* The files of the first i modules, as they are parsed.
Collected(g) ==
  /\ g[0] = <<>>
  /\ \A i \in 0 .. (Len(udCase.remote) - 1) : g[i + 1] = g[i] \o udOld[udCase.remote[i + 1]]
  /\ \A i \in 0 .. Len(udCase.remote) : g[i] \in Seq(UD!Nodes(UD!Fields))
  /\ UD!RemoteFiles = AsParsed(g[Len(udCase.remote)])

LEMMA RemoteParsed ==
  ASSUME udCase \in Upgrades, UD!Assumption,
         udOld \in [UD!RemoteModules -> Seq(UD!Nodes(UD!Fields))]
  PROVE  \E g : Collected(g)
<1> DEFINE n == Len(udCase.remote)
<1>1. n \in Nat /\ \A i \in 1 .. n : /\ udCase.remote[i] \in UD!RemoteModules
                                     /\ udOld[udCase.remote[i]] \in Seq(UD!Nodes(UD!Fields))
  BY CaseModules
<1>2. PICK h : /\ h[0] = AsParsed(<<>>) /\ h[n] = UD!RemoteFiles
               /\ \A i \in 0 .. (n - 1) : h[i + 1] = UD!AddRemote(h[i], udCase.remote[i + 1])
               /\ \A i \in 0 .. n : h[i] \in Collections
  BY RemoteRuns
<1> DEFINE g == [i \in 0 .. n |-> h[i].files]
<1>3. \A a : AsParsed(a).files = a
  BY DEF AsParsed
<1>4. \A i \in 0 .. n : g[i] \in Seq(UD!Nodes(UD!Fields)) /\ h[i] = AsParsed(g[i])
  BY <1>2, <1>3 DEF Collections
<1>5. g[0] = <<>> /\ UD!RemoteFiles = AsParsed(g[n])
  <2>1. 0 \in 0 .. n /\ n \in 0 .. n
    BY <1>1
  <2>2. g[0] = h[0].files /\ h[n] = AsParsed(g[n])
    BY <1>4, <2>1
  <2> HIDE DEF g
  <2> QED BY <1>2, <1>3, <2>2
<1>6. ASSUME NEW i \in 0 .. (n - 1) PROVE g[i + 1] = g[i] \o udOld[udCase.remote[i + 1]]
  <2>1. i \in 0 .. n /\ i + 1 \in 0 .. n /\ i + 1 \in 1 .. n
    BY <1>1
  <2>2. h[i + 1] = AsParsed(g[i] \o udOld[udCase.remote[i + 1]])
    <3> HIDE DEF g
    <3>1. h[i + 1] = UD!AddRemote(AsParsed(g[i]), udCase.remote[i + 1])
      BY <1>2, <1>4, <2>1
    <3> QED BY <1>1, <1>4, <2>1, <3>1, RemoteAdded
  <2> QED BY <1>3, <2>1, <2>2
<1> HIDE DEF g
<1>7. Collected(g)
  BY <1>4, <1>5, <1>6 DEF Collected
<1> QED BY <1>7

----------------------------------------------------------------------------
(* What a database holds of a record.                                        *)

\* Of the first i nodes, the last that gives a field; before them, it was there only if Given.
RecordHolds(base, id, nodes, i, k) ==
  /\ id \in DOMAIN base <=> id \in DOMAIN UD!Given \/ \E j \in 1 .. i : UD!Key(nodes[j]) = k
  /\ id \in DOMAIN base => Holds(base[id].values, nodes, i, k)

LEMMA RecordStep ==
  ASSUME udCase \in Upgrades, UD!Assumption, NEW base \in Databases, NEW nodes, NEW i \in Nat,
         NEW m \in UD!RemoteModules \cup {udCase.local}, NEW id, NEW k,
         nodes[i + 1] \in UD!Nodes(UD!Fields),
         UD!Id(m, nodes[i + 1]) = id <=> UD!Key(nodes[i + 1]) = k,
         RecordHolds(base, id, nodes, i, k)
  PROVE  RecordHolds(UD!InstallNode(base, UD!Id(m, nodes[i + 1]), nodes[i + 1]), id, nodes, i + 1, k)
<1> DEFINE node == nodes[i + 1]
           x == UD!Id(m, node)
           d == UD!InstallNode(base, x, node)
<1>1. d \in Databases /\ DOMAIN d = DOMAIN base \cup {x}
  <2>1. node \in UD!Nodes(UD!Fields)
    OBVIOUS
  <2> HIDE DEF node
  <2> QED BY <2>1, NodeInstalled
<1>2. 1 .. (i + 1) = (1 .. i) \cup {i + 1}
  OBVIOUS
<1>3. id \in DOMAIN d <=> id \in DOMAIN UD!Given \/ \E j \in 1 .. (i + 1) : UD!Key(nodes[j]) = k
  <2> HIDE DEF d
  <2> QED BY <1>1, <1>2 DEF RecordHolds
<1>4. \A y \in DOMAIN base : DOMAIN base[y].values = UD!Fields
  BY DEF Databases, RecordValues
<1>5. CASE x # id
  <2>1. id \in DOMAIN base => d[id] = base[id]
    <3>1. CASE x \in DOMAIN base
      BY <1>5, <3>1 DEF UD!InstallNode
    <3>2. CASE x \notin DOMAIN base
      BY <1>5, <3>2 DEF UD!InstallNode
    <3> QED BY <3>1, <3>2
  <2>2. UD!Key(node) # k
    BY <1>5
  <2> HIDE DEF d, x
  <2>3. ASSUME id \in DOMAIN d, NEW f \in UD!Fields
        PROVE  \/ LastGiven(nodes, i + 1, k, f, d[id].values[f])
               \/ NotGiven(nodes, i + 1, k, f) /\ d[id].values[f] = NoText
    <3>1. id \in DOMAIN base /\ d[id] = base[id]
      BY <1>1, <1>5, <2>1, <2>3
    <3>2. \/ LastGiven(nodes, i, k, f, base[id].values[f])
          \/ NotGiven(nodes, i, k, f) /\ base[id].values[f] = NoText
      BY <3>1 DEF RecordHolds, Holds
    <3>3. ~ Gives(nodes, i + 1, k, f)
      BY <2>2 DEF Gives
    <3> QED BY <3>1, <3>2, <3>3, GivenStep
  <2> QED BY <1>3, <2>3 DEF RecordHolds, Holds, d, x
<1>6. CASE x = id
  <2>1. id \in DOMAIN base => d[id].values = UD!Changed(base[id].values, node.fields)
    <3>1. \A y \in DOMAIN base : base[y] \in RecordValues
      BY DEF Databases
    <3>2. id \in DOMAIN base => d = [base EXCEPT ![id].values = UD!Changed(@, node.fields)]
      BY <1>6 DEF UD!InstallNode
    <3> HIDE DEF d
    <3> QED BY <3>1, <3>2 DEF RecordValues
  <2>2. id \notin DOMAIN base => d[id].values = UD!Complete(node.fields)
    BY <1>6 DEF UD!InstallNode
  <2>3. UD!Key(node) = k
    BY <1>6
  <2> HIDE DEF d, x
  <2>4. ASSUME NEW f \in UD!Fields
        PROVE  \/ LastGiven(nodes, i + 1, k, f, d[id].values[f])
               \/ NotGiven(nodes, i + 1, k, f) /\ d[id].values[f] = NoText
    <3>1. CASE f \in DOMAIN node.fields
      <4>1. d[id].values[f] = node.fields[f]
        BY <1>4, <2>1, <2>2, <3>1 DEF UD!Changed, UD!Complete
      <4>2. Gives(nodes, i + 1, k, f)
        BY <2>3, <3>1 DEF Gives
      <4> QED BY <4>1, <4>2, GivenStep
    <3>2. CASE f \notin DOMAIN node.fields
      <4>1. ~ Gives(nodes, i + 1, k, f)
        BY <3>2 DEF Gives
      <4>2. CASE id \in DOMAIN base
        <5>1. d[id].values[f] = base[id].values[f]
          BY <1>4, <2>1, <3>2, <4>2 DEF UD!Changed
        <5>2. \/ LastGiven(nodes, i, k, f, base[id].values[f])
              \/ NotGiven(nodes, i, k, f) /\ base[id].values[f] = NoText
          BY <4>2 DEF RecordHolds, Holds
        <5> QED BY <4>1, <5>1, <5>2, GivenStep
      <4>3. CASE id \notin DOMAIN base
        <5>1. d[id].values[f] = NoText
          BY <2>2, <3>2, <4>3 DEF UD!Complete
        <5>2. NotGiven(nodes, i, k, f)
          BY <4>3 DEF RecordHolds, NotGiven, Gives
        <5> QED BY <4>1, <5>1, <5>2, GivenStep
      <4> QED BY <4>2, <4>3
    <3> QED BY <3>1, <3>2
  <2> QED BY <1>3, <2>4 DEF RecordHolds, Holds, d, x
<1> QED BY <1>5, <1>6

\* The same with other nodes that begin alike.
LEMMA HoldsAlike ==
  ASSUME NEW i \in Nat, NEW a, NEW b, \A j \in 1 .. i : a[j] = b[j], NEW base, NEW id, NEW k,
         RecordHolds(base, id, a, i, k)
  PROVE  RecordHolds(base, id, b, i, k)
<1>1. \A f : \A j \in 1 .. i : Gives(a, j, k, f) <=> Gives(b, j, k, f)
  BY DEF Gives
<1>2. ASSUME NEW f PROVE NotGiven(a, i, k, f) => NotGiven(b, i, k, f)
  BY <1>1 DEF NotGiven
<1>3. ASSUME NEW f, NEW v, LastGiven(a, i, k, f, v) PROVE LastGiven(b, i, k, f, v)
  BY <1>1, <1>3 DEF LastGiven
<1>4. id \in DOMAIN base => Holds(base[id].values, b, i, k)
  BY <1>2, <1>3 DEF RecordHolds, Holds
<1> QED BY <1>4 DEF RecordHolds

\* A module more.
LEMMA ModuleHolds ==
  ASSUME udCase \in Upgrades, UD!Assumption, NEW base \in Databases,
         NEW m \in UD!RemoteModules \cup {udCase.local}, NEW a \in Seq(UD!Nodes(UD!Fields)),
         NEW nodes \in Seq(UD!Nodes(UD!Fields)), NEW id, NEW k,
         \A j \in 1 .. Len(nodes) : UD!Id(m, nodes[j]) = id <=> UD!Key(nodes[j]) = k,
         RecordHolds(base, id, a, Len(a), k)
  PROVE  RecordHolds(UD!InstallModule(base, m, nodes), id, a \o nodes, Len(a \o nodes), k)
<1> DEFINE n == Len(nodes)
           l == Len(a)
           u == a \o nodes
<1>1. /\ n \in Nat /\ l \in Nat /\ Len(u) = l + n
      /\ \A j \in 1 .. l : u[j] = a[j]
      /\ \A j \in 1 .. n : u[l + j] = nodes[j] /\ nodes[j] \in UD!Nodes(UD!Fields)
  OBVIOUS
<1>2. PICK h : /\ h[0] = base /\ h[n] = UD!InstallModule(base, m, nodes)
               /\ \A i \in 0 .. (n - 1) :
                    h[i + 1] = UD!InstallNode(h[i], UD!Id(m, nodes[i + 1]), nodes[i + 1])
               /\ \A i \in 0 .. n : h[i] \in Databases
  <2>1. UD!Assumption /\ udCase \in Upgrades
    OBVIOUS
  <2> QED BY ONLY <2>1, InstallRuns, base \in Databases, nodes \in Seq(UD!Nodes(UD!Fields)),
                  m \in UD!RemoteModules \cup {udCase.local}
<1> DEFINE S == {i \in 0 .. n : RecordHolds(h[i], id, u, l + i, k)}
<1> HIDE DEF n, l, u
<1>3. 0 \in S
  <2>1. 0 \in 0 .. n /\ l + 0 = l
    BY <1>1
  <2>2. RecordHolds(base, id, u, l, k)
    BY <1>1, HoldsAlike DEF l
  <2> QED BY <1>2, <2>1, <2>2
<1>4. ASSUME NEW i \in 0 .. (n - 1), i \in S PROVE i + 1 \in S
  <2>1. i \in 0 .. n /\ i + 1 \in 0 .. n /\ i + 1 \in 1 .. n /\ l + i \in Nat
        /\ l + (i + 1) = (l + i) + 1
    BY <1>1
  <2>2. /\ u[(l + i) + 1] = nodes[i + 1] /\ nodes[i + 1] \in UD!Nodes(UD!Fields)
        /\ UD!Id(m, nodes[i + 1]) = id <=> UD!Key(nodes[i + 1]) = k
        /\ h[i] \in Databases /\ RecordHolds(h[i], id, u, l + i, k)
        /\ h[i + 1] = UD!InstallNode(h[i], UD!Id(m, nodes[i + 1]), nodes[i + 1])
    BY <1>1, <1>2, <1>4, <2>1 DEF n
  <2> DEFINE j == l + i
  <2>3. j \in Nat /\ RecordHolds(h[i], id, u, j, k) /\ u[j + 1] = nodes[i + 1]
    BY <2>1, <2>2
  <2> HIDE DEF j, S
  <2>4. RecordHolds(UD!InstallNode(h[i], UD!Id(m, u[j + 1]), u[j + 1]), id, u, j + 1, k)
    BY <2>2, <2>3, RecordStep
  <2> QED BY <2>1, <2>2, <2>3, <2>4 DEF j, S
<1> HIDE DEF S
<1>5. n \in S
  <2>1. \A i \in 0 .. n : i \in S
    BY <1>1, <1>3, <1>4, UpTo
  <2> QED BY <1>1, <2>1
<1> QED BY <1>1, <1>2, <1>5 DEF S, u

\* Before any module is there.
LEMMA GivenHolds == \A id, k : RecordHolds(UD!Given, id, <<>>, Len(<<>>), k)
<1>1. Len(<<>>) = 0 /\ 1 .. 0 = {}
  OBVIOUS
<1>2. ASSUME NEW id \in DOMAIN UD!Given, NEW f \in UD!Fields PROVE UD!Given[id].values[f] = NoText
  BY DEF UD!Given, UD!Complete
<1> QED BY <1>1, <1>2 DEF RecordHolds, Holds, NotGiven

LEMMA OldHolds ==
  ASSUME udCase \in Upgrades, UD!Assumption,
         udOld \in [UD!RemoteModules -> Seq(UD!Nodes(UD!Fields))], NEW g, Collected(g), NEW id, NEW k,
         \A m \in UD!RemoteModules : \A j \in 1 .. Len(udOld[m]) :
            UD!Id(m, udOld[m][j]) = id <=> UD!Key(udOld[m][j]) = k
  PROVE  RecordHolds(UD!OldDatabase, id, g[Len(udCase.remote)], Len(g[Len(udCase.remote)]), k)
<1> DEFINE n == Len(udCase.remote)
<1>1. n \in Nat /\ \A i \in 1 .. n : /\ udCase.remote[i] \in UD!RemoteModules
                                     /\ udOld[udCase.remote[i]] \in Seq(UD!Nodes(UD!Fields))
  BY CaseModules
<1>2. PICK h : /\ h[0] = UD!Given /\ h[n] = UD!OldDatabase
               /\ \A i \in 0 .. (n - 1) :
                    h[i + 1] = UD!InstallModule(h[i], udCase.remote[i + 1], udOld[udCase.remote[i + 1]])
               /\ \A i \in 0 .. n : h[i] \in Databases
  BY OldRuns
<1>3. /\ g[0] = <<>>
      /\ \A i \in 0 .. (n - 1) : g[i + 1] = g[i] \o udOld[udCase.remote[i + 1]]
      /\ \A i \in 0 .. n : g[i] \in Seq(UD!Nodes(UD!Fields))
  BY DEF Collected
<1> DEFINE S == {i \in 0 .. n : RecordHolds(h[i], id, g[i], Len(g[i]), k)}
<1> HIDE DEF n
<1>4. 0 \in S
  BY <1>1, <1>2, <1>3, GivenHolds
<1>5. ASSUME NEW i \in 0 .. (n - 1), i \in S PROVE i + 1 \in S
  <2>1. i \in 0 .. n /\ i + 1 \in 0 .. n /\ i + 1 \in 1 .. n
    BY <1>1
  <2> DEFINE m == udCase.remote[i + 1]
  <2>2. /\ m \in UD!RemoteModules /\ udOld[m] \in Seq(UD!Nodes(UD!Fields))
        /\ h[i + 1] = UD!InstallModule(h[i], m, udOld[m]) /\ g[i + 1] = g[i] \o udOld[m]
        /\ h[i] \in Databases /\ g[i] \in Seq(UD!Nodes(UD!Fields))
        /\ RecordHolds(h[i], id, g[i], Len(g[i]), k)
    BY <1>1, <1>2, <1>3, <1>5, <2>1
  <2> HIDE DEF m, S
  <2>3. RecordHolds(UD!InstallModule(h[i], m, udOld[m]), id, g[i] \o udOld[m],
                    Len(g[i] \o udOld[m]), k)
    BY <2>2, ModuleHolds
  <2> QED BY <2>1, <2>2, <2>3 DEF S
<1> HIDE DEF S
<1>6. n \in S
  <2>1. \A i \in 0 .. n : i \in S
    BY <1>1, <1>4, <1>5, UpTo
  <2> QED BY <1>1, <2>1
<1> QED BY <1>2, <1>6 DEF S, n

LEMMA FreshHolds ==
  ASSUME udCase \in Upgrades, UD!Assumption, udNew \in Seq(UD!Nodes(UD!Fields)), NEW k \in XmlKeys
  PROVE  RecordHolds(UD!FreshDatabase, UD!DiffId(k), udNew, Len(udNew), k)
<1>1. <<>> \in Seq(UD!Nodes(UD!Fields)) /\ <<>> \o udNew = udNew
  OBVIOUS
<1>2. \A node \in UD!Nodes(UD!Fields) :
        UD!Id(udCase.local, node) = UD!DiffId(k) <=> UD!Key(node) = k
  <2>1. UD!Other # udCase.local
    BY CaseModules
  <2>2. \A node \in UD!Nodes(UD!Fields) : node.own \in BOOLEAN
    BY NodeFacts
  <2>3. k[1] \in BOOLEAN /\ k = <<k[1], k[2]>>
    BY DEF XmlKeys
  <2> QED BY <2>1, <2>2, <2>3 DEF UD!Id, UD!DiffId, UD!Key
<1>3. \A j \in 1 .. Len(udNew) : UD!Id(udCase.local, udNew[j]) = UD!DiffId(k) <=> UD!Key(udNew[j]) = k
  BY <1>2
<1>4. RecordHolds(UD!InstallModule(UD!Given, udCase.local, udNew), UD!DiffId(k), <<>> \o udNew,
                  Len(<<>> \o udNew), k)
  BY <1>1, <1>3, GivenIds, GivenHolds, ModuleHolds
<1> QED BY <1>1, <1>4 DEF UD!FreshDatabase

----------------------------------------------------------------------------
(* The record of an old version that a key of the new files means.           *)

OldRecordIds(k) ==
  {<<IF k[1] THEN m ELSE UD!Other, k[2]>> : m \in UD!RemoteModules} \cap DOMAIN UD!OldDatabase

LEMMA NonemptyRemote == ASSUME udCase \in Upgrades, UD!Assumption PROVE UD!RemoteModules # {}
<1>1. udCase.remote # <<>>
  BY DEF UD!Assumption
<1>2. udCase.remote \in Seq(UD!RemoteModules) /\ DOMAIN udCase.remote = 1 .. Len(udCase.remote)
      /\ Len(udCase.remote) \in Nat
  BY CaseModules
<1>3. Len(udCase.remote) # 0
  BY <1>1, <1>2
<1> QED BY <1>2, <1>3

\* One of the names that are followed is in one old module.
LEMMA OneModule ==
  ASSUME udCase \in Upgrades, UD!Assumption, NEW name \in UD!Followed
  PROVE  \E m \in UD!RemoteModules :
            /\ <<m, name>> \in DOMAIN UD!OldDatabase
            /\ \A x \in UD!RemoteModules : <<x, name>> \in DOMAIN UD!OldDatabase => x = m
<1> DEFINE M == {m \in UD!RemoteModules : <<m, name>> \in DOMAIN UD!OldDatabase}
<1>1. Cardinality(M) = 1
  <2>1. UD!Cardinality(M) = Cardinality(M)
    BY Zenon DEF UD!Cardinality, Cardinality
  <2>2. UD!Cardinality(M) = 1
    BY DEF UD!Followed
  <2> QED BY <2>1, <2>2
<1>2. PICK m : M = {m}
  <2> DEFINE f == [i \in 1 .. Len(udCase.remote) |-> udCase.remote[i]]
  <2>0. /\ Len(udCase.remote) \in Nat
        /\ UD!RemoteModules = {udCase.remote[i] : i \in 1 .. Len(udCase.remote)}
    BY CaseModules
  <2>1. IsFiniteSet(UD!RemoteModules)
    <3>1. f \in Surjection(1 .. Len(udCase.remote), UD!RemoteModules)
      BY <2>0 DEF Surjection
    <3> QED BY <2>0, <3>1, FS_Surjection, FS_Interval
  <2> QED BY <1>1, <2>1, FS_Subset, FS_Singleton
<1> QED BY <1>2

LEMMA OldRecord ==
  ASSUME udCase \in Upgrades, UD!Assumption,
         udOld \in [UD!RemoteModules -> Seq(UD!Nodes(UD!Fields))], NEW g, Collected(g),
         NEW k \in XmlKeys, k[1] => k[2] \in UD!Followed
  PROVE  \E id \in DOMAIN UD!OldDatabase :
            /\ OldRecordIds(k) = {id} /\ id = <<id[1], id[2]>> /\ id[2] = k[2]
            /\ k[1] => id[1] \in UD!RemoteModules
            /\ ~ k[1] => id[1] = UD!Other
            /\ Holds(UD!OldDatabase[id].values, g[Len(udCase.remote)],
                     Len(g[Len(udCase.remote)]), k)
            /\ k[1] => Occurs(g[Len(udCase.remote)], k)
<1>1. UD!Other \notin UD!RemoteModules
  BY CaseModules
<1>2. DOMAIN UD!OldDatabase = ({UD!Other} \X UD!XmlNames)
                                \cup UNION {LoadedIds(m, udOld[m]) : m \in UD!RemoteModules}
  BY OldIds
<1>3. k[1] \in BOOLEAN /\ k[2] \in UD!XmlNames /\ k = <<k[1], k[2]>>
  BY DEF XmlKeys
<1>4. ASSUME NEW m \in UD!RemoteModules, NEW j \in 1 .. Len(udOld[m])
      PROVE  udOld[m][j].own \in BOOLEAN /\ j \in DOMAIN udOld[m]
  <2>1. udOld[m] \in Seq(UD!Nodes(UD!Fields))
    OBVIOUS
  <2>2. udOld[m][j] \in UD!Nodes(UD!Fields) /\ j \in DOMAIN udOld[m]
    BY <2>1
  <2> QED BY <2>2, NodeFacts
<1> DEFINE old == UD!OldDatabase
           u == g[Len(udCase.remote)]
<1>5. CASE ~ k[1]
  <2> DEFINE id == <<UD!Other, k[2]>>
  <2>1. id \in DOMAIN old /\ OldRecordIds(k) = {id}
    BY <1>2, <1>3, <1>5, NonemptyRemote DEF OldRecordIds
  <2>2. \A m \in UD!RemoteModules : \A j \in 1 .. Len(udOld[m]) :
           UD!Id(m, udOld[m][j]) = id <=> UD!Key(udOld[m][j]) = k
    BY <1>1, <1>3, <1>4, <1>5 DEF UD!Id, UD!Key
  <2> HIDE DEF old, id
  <2>3. RecordHolds(old, id, u, Len(u), k)
    BY <2>2, OldHolds DEF old
  <2>4. Holds(old[id].values, u, Len(u), k)
    BY <2>1, <2>3 DEF RecordHolds
  <2> QED BY <1>5, <2>1, <2>4 DEF old, id
<1>6. CASE k[1]
  <2>1. PICK m \in UD!RemoteModules :
           /\ <<m, k[2]>> \in DOMAIN old
           /\ \A x \in UD!RemoteModules : <<x, k[2]>> \in DOMAIN old => x = m
    BY <1>6, OneModule
  <2> DEFINE id == <<m, k[2]>>
  <2>2. OldRecordIds(k) = {id}
    BY <1>6, <2>1 DEF OldRecordIds
  <2>3. ASSUME NEW x \in UD!RemoteModules, NEW j \in 1 .. Len(udOld[x])
        PROVE  UD!Id(x, udOld[x][j]) = id <=> UD!Key(udOld[x][j]) = k
    <3>1. UD!Id(x, udOld[x][j]) \in DOMAIN old
      BY <1>2, <1>4 DEF LoadedIds
    <3>2. UD!Id(x, udOld[x][j]) = id => UD!Key(udOld[x][j]) = k
      BY <1>1, <1>3, <1>4, <1>6 DEF UD!Id, UD!Key
    <3>3. UD!Key(udOld[x][j]) = k => UD!Id(x, udOld[x][j]) = <<x, k[2]>>
      BY <1>3, <1>4, <1>6 DEF UD!Id, UD!Key
    <3> QED BY <2>1, <3>1, <3>2, <3>3
  <2>4. id \in DOMAIN old /\ id \notin DOMAIN UD!Given
    BY <1>1, <2>1, GivenIds
  <2> HIDE DEF old, id
  <2>5. RecordHolds(old, id, u, Len(u), k)
    BY <2>3, OldHolds DEF old
  <2>6. Holds(old[id].values, u, Len(u), k) /\ Occurs(u, k)
    BY <2>4, <2>5 DEF RecordHolds, Occurs
  <2> QED BY <1>6, <2>1, <2>2, <2>4, <2>6 DEF old, id
<1> QED BY <1>3, <1>5, <1>6

----------------------------------------------------------------------------
(* The update of the database.                                               *)

\* The records get the name of the new module.
LEMMA RenamedRecords ==
  ASSUME udCase \in Upgrades, UD!Assumption,
         udOld \in [UD!RemoteModules -> Seq(UD!Nodes(UD!Fields))],
         NEW d \in Databases, DOMAIN d = DOMAIN UD!OldDatabase
  PROVE  /\ UD!Renamed(d) \in Databases
         /\ \A k \in XmlKeys : \A id : OldRecordIds(k) = {id} =>
               /\ UD!DiffId(k) \in DOMAIN UD!Renamed(d)
               /\ UD!Renamed(d)[UD!DiffId(k)] = d[id]
<1> DEFINE Names == (UD!RemoteModules \cup {udCase.local, UD!Other}) \X UD!XmlNames
           from(id) == IF id[1] = udCase.local
                       THEN {<<m, id[2]>> : m \in UD!RemoteModules} \cap DOMAIN d
                       ELSE {id} \cap DOMAIN d
           ids == {<<UD!ModuleMap(id[1]), id[2]>> : id \in DOMAIN d}
           r == [id \in ids |-> d[CHOOSE x \in from(id) : TRUE]]
<1>1. UD!Renamed(d) = r
  BY DEF UD!Renamed
<1>2. UD!Other \notin UD!RemoteModules /\ UD!Other # udCase.local
  BY CaseModules
<1>3. \A id \in DOMAIN d : /\ id[1] \in UD!RemoteModules \cup {UD!Other}
                           /\ id[2] \in UD!XmlNames /\ id = <<id[1], id[2]>>
  <2>1. DOMAIN d = ({UD!Other} \X UD!XmlNames)
                     \cup UNION {LoadedIds(m, udOld[m]) : m \in UD!RemoteModules}
    BY OldIds
  <2>2. ASSUME NEW m \in UD!RemoteModules, NEW id \in LoadedIds(m, udOld[m])
        PROVE  /\ id[1] \in UD!RemoteModules \cup {UD!Other}
               /\ id[2] \in UD!XmlNames /\ id = <<id[1], id[2]>>
    <3>1. udOld[m] \in Seq(UD!Nodes(UD!Fields))
      OBVIOUS
    <3>2. PICK node \in UD!Nodes(UD!Fields) : id = UD!Id(m, node)
      BY <3>1 DEF LoadedIds
    <3> QED BY <3>2, NodeFacts DEF UD!Id
  <2> QED BY <2>1, <2>2
<1>4. \A id \in DOMAIN d : d[id] \in RecordValues
  BY DEF Databases
<1>5. ASSUME NEW id \in DOMAIN d
      PROVE  LET x == <<UD!ModuleMap(id[1]), id[2]>> IN id \in from(x) /\ x \in Names
  BY <1>2, <1>3 DEF UD!ModuleMap
<1>6. \A x : from(x) \subseteq DOMAIN d
  OBVIOUS
<1>7. ASSUME NEW x \in ids PROVE (CHOOSE y \in from(x) : TRUE) \in from(x) /\ x \in Names
  <2>1. PICK id \in DOMAIN d : x = <<UD!ModuleMap(id[1]), id[2]>>
    OBVIOUS
  <2> HIDE DEF from, ids
  <2>2. id \in from(x) /\ x \in Names
    BY <1>5, <2>1
  <2> QED BY <2>2
<1>8. r \in Databases
  <2>1. \A x \in ids : d[CHOOSE y \in from(x) : TRUE] \in RecordValues
    <3> HIDE DEF from, ids
    <3> QED BY <1>4, <1>6, <1>7
  <2>2. ids \in SUBSET Names
    <3> HIDE DEF from, ids, Names
    <3> QED BY <1>7
  <2> HIDE DEF from, ids
  <2>3. r \in [ids -> RecordValues]
    BY <2>1
  <2> QED BY <2>2, <2>3 DEF Databases
<1>9. ASSUME NEW k \in XmlKeys, NEW id, OldRecordIds(k) = {id}
      PROVE  UD!DiffId(k) \in DOMAIN r /\ r[UD!DiffId(k)] = d[id]
  <2>1. k[1] \in BOOLEAN /\ k[2] \in UD!XmlNames
    BY DEF XmlKeys
  <2>2. id \in DOMAIN d /\ \E m \in UD!RemoteModules : id = <<IF k[1] THEN m ELSE UD!Other, k[2]>>
    BY <1>9 DEF OldRecordIds
  <2>3. from(UD!DiffId(k)) = {id}
    <3>1. CASE k[1]
      <4>1. UD!DiffId(k) = <<udCase.local, k[2]>>
        BY <3>1 DEF UD!DiffId
      <4>2. {<<m, k[2]>> : m \in UD!RemoteModules} \cap DOMAIN d = {id}
        BY <1>9, <3>1 DEF OldRecordIds
      <4> QED BY <4>1, <4>2
    <3>2. CASE ~ k[1]
      <4>1. UD!DiffId(k) = <<UD!Other, k[2]>> /\ id = <<UD!Other, k[2]>>
        BY <2>2, <3>2 DEF UD!DiffId
      <4>2. UD!DiffId(k)[1] # udCase.local
        BY <1>2, <4>1
      <4>3. from(UD!DiffId(k)) = {UD!DiffId(k)} \cap DOMAIN d
        BY <4>2, Zenon
      <4> HIDE DEF from
      <4> QED BY <2>2, <4>1, <4>3
    <3> QED BY <2>1, <3>1, <3>2
  <2>4. UD!DiffId(k) = <<UD!ModuleMap(id[1]), id[2]>>
    BY <1>2, <2>1, <2>2 DEF UD!DiffId, UD!ModuleMap
  <2>5. UD!DiffId(k) \in ids
    BY <2>2, <2>4
  <2> HIDE DEF from, ids
  <2>6. (CHOOSE y \in from(UD!DiffId(k)) : TRUE) = id
    BY <2>3
  <2> QED BY <2>5, <2>6
<1> HIDE DEF r
<1> QED BY <1>1, <1>8, <1>9

LEMMA NodeUpdated ==
  ASSUME udCase \in Upgrades, UD!Assumption, NEW d \in Databases, NEW node \in UD!Nodes(UD!Fields),
         NEW m \in UD!RemoteModules \cup {udCase.local}
  PROVE  LET id == UD!Id(m, node)
             r == UD!UpdateNode(d, id, node)
         IN  /\ r \in Databases
             /\ \A x \in DOMAIN d : /\ x \in DOMAIN r
                                    /\ x # id \/ node.noupdate \/ d[x].noupdate => r[x] = d[x]
<1> DEFINE id == UD!Id(m, node)
           r == UD!UpdateNode(d, id, node)
<1>1. CASE id \in DOMAIN d /\ (node.noupdate \/ d[id].noupdate)
  <2>1. r = d
    BY <1>1 DEF UD!UpdateNode
  <2> QED BY <2>1
<1>2. CASE ~ (id \in DOMAIN d /\ (node.noupdate \/ d[id].noupdate))
  <2>1. r = UD!InstallNode(d, id, node)
    BY <1>2 DEF UD!UpdateNode
  <2>2. r \in Databases /\ DOMAIN r = DOMAIN d \cup {id}
    BY <2>1, NodeInstalled
  <2>3. \A x \in DOMAIN d : x # id => r[x] = d[x]
    <3> HIDE DEF id
    <3>1. CASE id \in DOMAIN d
      BY <2>1, <3>1 DEF UD!InstallNode
    <3>2. CASE id \notin DOMAIN d
      BY <2>1, <3>2 DEF UD!InstallNode
    <3> QED BY <3>1, <3>2
  <2> HIDE DEF r, id
  <2> QED BY <1>2, <2>2, <2>3 DEF r, id
<1> QED BY <1>1, <1>2

\* Updating a module is a chain of databases.
LEMMA UpdateRuns ==
  ASSUME udCase \in Upgrades, UD!Assumption, NEW given \in Databases,
         NEW m \in UD!RemoteModules \cup {udCase.local}, NEW nodes \in Seq(UD!Nodes(UD!Fields))
  PROVE  \E h : /\ h[0] = given /\ h[Len(nodes)] = UD!UpdateFiles(given, m, nodes)
                /\ \A i \in 0 .. (Len(nodes) - 1) :
                     h[i + 1] = UD!UpdateNode(h[i], UD!Id(m, nodes[i + 1]), nodes[i + 1])
                /\ \A i \in 0 .. Len(nodes) : h[i] \in Databases
<1> DEFINE Op(x, j) == UD!UpdateNode(x, UD!Id(m, nodes[j]), nodes[j])
           n == Len(nodes)
           A == Databases
           base == given
           op == [x \in A \X (1 .. n) |-> Op(x[1], x[2])]
           f == CHOOSE g : g = [s \in SUBSET (1 .. n) |->
                   IF s = {} THEN base ELSE Op(g[s \ {UD!Max(s)}], UD!Max(s))]
           h == [i \in 0 .. n |-> f[1 .. i]]
<1>1. UD!UpdateFiles(given, m, nodes) = f[1 .. n]
  <2>1. DOMAIN nodes = 1 .. Len(nodes)
    OBVIOUS
  <2> QED BY <2>1 DEF UD!UpdateFiles, UD!FoldLeft, UD!MapThenFoldSet
<1>2. n \in Nat /\ base \in A /\ \A x \in A, i \in 1 .. n : Op(x, i) \in A
  <2>1. /\ n \in Nat /\ base \in Databases /\ \A i \in 1 .. n : nodes[i] \in UD!Nodes(UD!Fields)
    OBVIOUS
  <2>2. ASSUME NEW x \in Databases, NEW i \in 1 .. n PROVE Op(x, i) \in Databases
    <3>1. nodes[i] \in UD!Nodes(UD!Fields)
      BY <2>1
    <3> QED BY <3>1, NodeUpdated
  <2> QED BY <2>1, <2>2
<1>3. \A i \in 0 .. (n - 1) : Op(h[i], i + 1) = UD!UpdateNode(h[i], UD!Id(m, nodes[i + 1]), nodes[i + 1])
  OBVIOUS
<1> HIDE DEF Op, n, A, base
<1>4. op \in [A \X (1 .. n) -> A] /\ \A x \in A, i \in 1 .. n : op[x, i] = Op(x, i)
  BY <1>2, Zenon
<1> HIDE DEF op
<1>5. PICK g : Folds(g, n, A, base, op)
  BY <1>2, <1>4, FoldExists, Zenon
<1>6. ASSUME NEW s \in SUBSET (1 .. n)
      PROVE  g[s] = IF s = {} THEN base ELSE Op(g[s \ {UD!Max(s)}], UD!Max(s))
  <2>1. s # {} => UD!Max(s) \in 1 .. n /\ g[s \ {UD!Max(s)}] \in A
    BY <1>2, <1>5, LastIndex, Zenon DEF Folds
  <2> QED BY <1>4, <1>5, <2>1, Zenon DEF Folds
<1>7. g = [s \in SUBSET (1 .. n) |->
             IF s = {} THEN base ELSE Op(g[s \ {UD!Max(s)}], UD!Max(s))]
  BY <1>5, <1>6, Zenon DEF Folds
<1>8. f = [s \in SUBSET (1 .. n) |->
             IF s = {} THEN base ELSE Op(f[s \ {UD!Max(s)}], UD!Max(s))]
  BY <1>7
<1> HIDE DEF f
<1>9. Follows(f, n, A, base, op)
  <2>1. \A s \in SUBSET (1 .. n) : s # {} => UD!Max(s) \in 1 .. n
    BY <1>2, LastIndex
  <2>2. {} \in SUBSET (1 .. n)
    OBVIOUS
  <2> QED BY <1>4, <1>8, <2>1, <2>2, Zenon DEF Follows
<1>10. IsChain(h, n, A, base, op)
  BY <1>2, <1>4, <1>9, Chain, Zenon
<1>11. h[n] = f[1 .. n] /\ \A i \in 0 .. (n - 1) : i \in 0 .. n /\ i + 1 \in 1 .. n
  BY <1>2
<1> HIDE DEF h
<1>12. \A i \in 0 .. (n - 1) : h[i + 1] = UD!UpdateNode(h[i], UD!Id(m, nodes[i + 1]), nodes[i + 1])
  BY <1>3, <1>4, <1>10, <1>11, Zenon DEF IsChain
<1>13. h[0] = base /\ h[n] = UD!UpdateFiles(given, m, nodes) /\ \A i \in 0 .. n : h[i] \in A
  BY <1>1, <1>10, <1>11, Zenon DEF IsChain
<1> QED BY <1>12, <1>13 DEF n, A, base

LEMMA UpdateTyped ==
  ASSUME udCase \in Upgrades, UD!Assumption, NEW base \in Databases,
         NEW m \in UD!RemoteModules \cup {udCase.local}, NEW nodes \in Seq(UD!Nodes(UD!Fields))
  PROVE  UD!UpdateFiles(base, m, nodes) \in Databases
<1>1. PICK h : /\ h[0] = base /\ h[Len(nodes)] = UD!UpdateFiles(base, m, nodes)
               /\ \A i \in 0 .. (Len(nodes) - 1) :
                    h[i + 1] = UD!UpdateNode(h[i], UD!Id(m, nodes[i + 1]), nodes[i + 1])
               /\ \A i \in 0 .. Len(nodes) : h[i] \in Databases
  BY UpdateRuns
<1>2. Len(nodes) \in 0 .. Len(nodes)
  OBVIOUS
<1> QED BY <1>1, <1>2

\* An update leaves a record as it is that is protected, or that the new files protect.
LEMMA UpdateKeeps ==
  ASSUME udCase \in Upgrades, UD!Assumption, NEW base \in Databases,
         NEW m \in UD!RemoteModules \cup {udCase.local}, NEW nodes \in Seq(UD!Nodes(UD!Fields)),
         NEW id \in DOMAIN base,
         \/ base[id].noupdate
         \/ \A j \in 1 .. Len(nodes) : UD!Id(m, nodes[j]) = id => nodes[j].noupdate
  PROVE  /\ UD!UpdateFiles(base, m, nodes) \in Databases
         /\ id \in DOMAIN UD!UpdateFiles(base, m, nodes)
         /\ UD!UpdateFiles(base, m, nodes)[id] = base[id]
<1> DEFINE n == Len(nodes)
<1>1. n \in Nat /\ \A j \in 1 .. n : nodes[j] \in UD!Nodes(UD!Fields)
  OBVIOUS
<1>2. PICK h : /\ h[0] = base /\ h[n] = UD!UpdateFiles(base, m, nodes)
               /\ \A i \in 0 .. (n - 1) :
                    h[i + 1] = UD!UpdateNode(h[i], UD!Id(m, nodes[i + 1]), nodes[i + 1])
               /\ \A i \in 0 .. n : h[i] \in Databases
  <2>1. UD!Assumption /\ udCase \in Upgrades
    OBVIOUS
  <2> QED BY ONLY <2>1, UpdateRuns, SMTT(30), base \in Databases, nodes \in Seq(UD!Nodes(UD!Fields)),
                  m \in UD!RemoteModules \cup {udCase.local}
<1> DEFINE S == {i \in 0 .. n : id \in DOMAIN h[i] /\ h[i][id] = base[id]}
<1>3. 0 \in S
  BY <1>1, <1>2
<1>4. ASSUME NEW i \in 0 .. (n - 1), i \in S PROVE i + 1 \in S
  <2>1. i \in 0 .. n /\ i + 1 \in 0 .. n /\ i + 1 \in 1 .. n
    BY <1>1
  <2> DEFINE node == nodes[i + 1]
             d == h[i]
             r == UD!UpdateNode(d, UD!Id(m, node), node)
  <2>2. /\ node \in UD!Nodes(UD!Fields) /\ d \in Databases /\ h[i + 1] = r
        /\ id \in DOMAIN d /\ d[id] = base[id]
        /\ base[id].noupdate \/ (UD!Id(m, node) = id => node.noupdate)
    BY <1>1, <1>2, <1>4, <2>1
  <2> HIDE DEF S, node, d
  <2>3. id \in DOMAIN r /\ (id # UD!Id(m, node) \/ node.noupdate \/ d[id].noupdate => r[id] = d[id])
    BY <2>2, NodeUpdated
  <2>4. id \in DOMAIN r /\ r[id] = base[id]
    <3> HIDE DEF r
    <3> QED BY <2>2, <2>3
  <2> QED BY <2>1, <2>2, <2>4 DEF S
<1> HIDE DEF S
<1>5. n \in S
  <2>1. \A i \in 0 .. n : i \in S
    BY <1>1, <1>3, <1>4, UpTo
  <2> QED BY <1>1, <2>1
<1> QED BY <1>1, <1>2, <1>5 DEF S

----------------------------------------------------------------------------
(* The migration script.                                                     *)

\* A database holds of a record what the parsed element says.
LEMMA Agreed ==
  ASSUME NEW nodes, NEW i \in Nat, NEW k, NEW r, SaidBy(r, nodes, i, k),
         NEW values, Holds(values, nodes, i, k), NEW f \in UD!Fields
  PROVE  values[f] = IF f \in DOMAIN r THEN r[f] ELSE NoText
<1>1. CASE f \in DOMAIN r
  <2>1. LastGiven(nodes, i, k, f, r[f])
    BY <1>1 DEF SaidBy
  <2>2. LastGiven(nodes, i, k, f, values[f])
    BY <2>1, OneLast DEF Holds
  <2>3. values[f] = r[f]
    BY <2>1, <2>2, OneLast
  <2> QED BY <1>1, <2>3
<1>2. CASE f \notin DOMAIN r
  <2>1. NotGiven(nodes, i, k, f)
    BY <1>2 DEF SaidBy
  <2>2. ~ LastGiven(nodes, i, k, f, values[f])
    BY <2>1, OneLast
  <2>3. values[f] = NoText
    BY <2>2 DEF Holds
  <2> QED BY <1>2, <2>3
<1> QED BY <1>1, <1>2

\* What noupdate_changes.xml gives of a field.
LEMMA DiffGives ==
  ASSUME NEW remote, NEW local, NEW k \in DOMAIN local,
         k \in DOMAIN remote.noupdate \cup DOMAIN remote.update \/ ~ k[1],
         NEW before, before = UD!RecordOf(remote, k), NEW now, now = local[k],
         NEW d, d = UD!XmlDiff(remote, local), NEW f \in UD!KeptFields
  PROVE  /\ f \in DOMAIN now /\ (f \in DOMAIN before => before[f] # now[f])
              => k \in DOMAIN d /\ f \in DOMAIN d[k] /\ d[k][f] = now[f]
         /\ f \in DOMAIN before /\ f \notin DOMAIN now
              => k \in DOMAIN d /\ f \in DOMAIN d[k] /\ d[k][f] = NoText
         /\ f \in DOMAIN now /\ f \in DOMAIN before /\ before[f] = now[f]
              => (k \in DOMAIN d => f \notin DOMAIN d[k])
         /\ f \notin DOMAIN now /\ f \notin DOMAIN before
              => (k \in DOMAIN d => f \notin DOMAIN d[k])
<1> DEFINE gone(x) == {e \in DOMAIN UD!RecordOf(remote, x) \ DOMAIN local[x] : e \in UD!KeptFields}
           other(x) == {e \in DOMAIN local[x] :
                          e \in DOMAIN UD!RecordOf(remote, x) => UD!RecordOf(remote, x)[e] # local[x][e]}
           fields(x) == UD!Updated([e \in gone(x) |-> NoText], UD!Restrict(local[x], other(x)))
           known(x) == x \in DOMAIN remote.noupdate \cup DOMAIN remote.update
           K == {x \in DOMAIN local : (known(x) \/ ~ x[1]) /\ gone(x) \cup other(x) # {}}
<1>1. d = [x \in K |-> fields(x)]
  BY Zenon DEF UD!XmlDiff
<1>2. /\ DOMAIN fields(k) = gone(k) \cup other(k)
      /\ \A e \in other(k) : fields(k)[e] = local[k][e]
      /\ \A e \in gone(k) \ other(k) : fields(k)[e] = NoText
  <2> HIDE DEF gone, other
  <2> QED BY DEF UD!Updated, UD!Restrict
<1>3. k \in K <=> gone(k) \cup other(k) # {}
  OBVIOUS
<1> HIDE DEF fields, K
<1>4. k \in DOMAIN d <=> gone(k) \cup other(k) # {}
  BY <1>1, <1>3
<1>5. k \in DOMAIN d => d[k] = fields(k)
  BY <1>1
<1>6. /\ gone(k) = {e \in DOMAIN before \ DOMAIN now : e \in UD!KeptFields}
      /\ other(k) = {e \in DOMAIN now : e \in DOMAIN before => before[e] # now[e]}
  OBVIOUS
<1> HIDE DEF gone, other
<1> QED BY <1>2, <1>4, <1>5, <1>6

\* Loading it leaves what a user has edited and the developers have not changed, and brings
\* the rest to what a fresh installation gives.
Same(before, now, f) == IF f \in DOMAIN now THEN f \in DOMAIN before /\ before[f] = now[f]
                        ELSE f \notin DOMAIN before
EditedOld(values, id, edited) ==
  \A f \in UD!Fields :
     values[f] = IF <<id, f>> \in edited THEN UserValue ELSE UD!OldDatabase[id].values[f]
Diff == UD!XmlDiff(UD!RemoteFiles, UD!ParseFiles(udNew).noupdate)
Loaded(values, k) == IF k \in DOMAIN Diff THEN UD!Changed(values, Diff[k]) ELSE values
Meant(k, id) == OldRecordIds(k) = {id}
Due(k, id, f, edited) ==
  IF /\ Same(UD!RecordOf(UD!RemoteFiles, k), UD!ParseFiles(udNew).noupdate[k], f)
     /\ <<id, f>> \in edited
  THEN UserValue ELSE UD!FreshDatabase[UD!DiffId(k)].values[f]

LEMMA DiffLoaded ==
  ASSUME udCase \in Upgrades, UD!Assumption,
         udOld \in [UD!RemoteModules -> Seq(UD!Nodes(UD!Fields))],
         udNew \in Seq(UD!Nodes(UD!Fields)),
         NEW k \in DOMAIN UD!ParseFiles(udNew).noupdate, k[1] => k[2] \in UD!Followed,
         NEW id, Meant(k, id), NEW edited,
         NEW values \in [UD!Fields -> FieldValues], EditedOld(values, id, edited),
         NEW f \in UD!KeptFields
  PROVE  Loaded(values, k)[f] = Due(k, id, f, edited)
<1> DEFINE local == UD!ParseFiles(udNew).noupdate
           before == UD!RecordOf(UD!RemoteFiles, k)
           now == local[k]
           fresh == UD!FreshDatabase[UD!DiffId(k)].values
           old == UD!OldDatabase[id].values
           n == Len(udNew)
           after == Loaded(values, k)
<1>1. /\ k \in XmlKeys /\ SaidBy(now, udNew, n, k) /\ FirstIn(udNew, n, k, TRUE)
  <2>1. UD!ParseFiles(udNew) \in Parses /\ Parsed(UD!ParseFiles(udNew), udNew, n)
    BY ParsedFiles
  <2>2. k \in XmlKeys
    BY <2>1 DEF Parses, Blocks
  <2> QED BY <2>1, <2>2 DEF Parsed
<1>2. Holds(fresh, udNew, n, k)
  <2>1. RecordHolds(UD!FreshDatabase, UD!DiffId(k), udNew, n, k)
    BY <1>1, FreshHolds
  <2>2. UD!DiffId(k) \in DOMAIN UD!FreshDatabase
    BY <1>1, <2>1 DEF RecordHolds, FirstIn
  <2> QED BY <2>1, <2>2 DEF RecordHolds
<1>3. PICK g : Collected(g)
  BY RemoteParsed
<1> DEFINE u == g[Len(udCase.remote)]
<1>4. u \in Seq(UD!Nodes(UD!Fields)) /\ UD!RemoteFiles = AsParsed(u)
  <2>1. Len(udCase.remote) \in 0 .. Len(udCase.remote)
    BY CaseModules
  <2> QED BY <1>3, <2>1 DEF Collected
<1>5. /\ Holds(old, u, Len(u), k)
      /\ k[1] => Occurs(u, k)
  <2>1. PICK x \in DOMAIN UD!OldDatabase :
           /\ OldRecordIds(k) = {x} /\ Holds(UD!OldDatabase[x].values, u, Len(u), k)
           /\ k[1] => Occurs(u, k)
    BY <1>1, <1>3, OldRecord
  <2>2. x = id
    BY <2>1 DEF Meant
  <2> QED BY <2>1, <2>2
<1>6. before = UD!RecordOf(UD!ParseFiles(u), k)
  BY <1>4 DEF AsParsed, UD!RecordOf
<1>7. SaidBy(before, u, Len(u), k)
  BY <1>1, <1>4, <1>6, FilesKnown
<1>8. k \in DOMAIN UD!RemoteFiles.noupdate \cup DOMAIN UD!RemoteFiles.update \/ ~ k[1]
  <2>1. k[1] => k \in DOMAIN UD!ParseFiles(u).noupdate \cup DOMAIN UD!ParseFiles(u).update
    BY <1>1, <1>4, <1>5, FilesKnown
  <2> QED BY <1>4, <2>1 DEF AsParsed
<1>9. f \in UD!Fields
  BY DEF UD!Assumption, UD!KeptFields, UD!Fields
<1>10. n \in Nat /\ Len(u) \in Nat
  BY <1>4
<1> HIDE DEF local, before, now, fresh, old, n, u
<1>11. old[f] = IF f \in DOMAIN before THEN before[f] ELSE NoText
  BY <1>5, <1>7, <1>9, <1>10, Agreed
<1>12. fresh[f] = IF f \in DOMAIN now THEN now[f] ELSE NoText
  BY <1>1, <1>2, <1>9, <1>10, Agreed
<1>13. values[f] = IF <<id, f>> \in edited THEN UserValue ELSE old[f]
  BY <1>9 DEF EditedOld, old
<1>14. /\ f \in DOMAIN now /\ (f \in DOMAIN before => before[f] # now[f])
            => k \in DOMAIN Diff /\ f \in DOMAIN Diff[k] /\ Diff[k][f] = now[f]
       /\ f \in DOMAIN before /\ f \notin DOMAIN now
            => k \in DOMAIN Diff /\ f \in DOMAIN Diff[k] /\ Diff[k][f] = NoText
       /\ f \in DOMAIN now /\ f \in DOMAIN before /\ before[f] = now[f]
            => (k \in DOMAIN Diff => f \notin DOMAIN Diff[k])
       /\ f \notin DOMAIN now /\ f \notin DOMAIN before
            => (k \in DOMAIN Diff => f \notin DOMAIN Diff[k])
  BY <1>8, DiffGives DEF Diff, local, before, now
<1>15. /\ k \in DOMAIN Diff /\ f \in DOMAIN Diff[k] => after[f] = Diff[k][f]
       /\ ~ (k \in DOMAIN Diff /\ f \in DOMAIN Diff[k]) => after[f] = values[f]
  BY <1>9 DEF UD!Changed, Loaded
<1> HIDE DEF after
<1>16. after[f] = IF Same(before, now, f) /\ <<id, f>> \in edited THEN UserValue ELSE fresh[f]
  BY <1>11, <1>12, <1>13, <1>14, <1>15 DEF Same
<1> QED BY <1>16 DEF before, now, local, fresh, after, Due

----------------------------------------------------------------------------
(* The steps of an upgrade.                                                  *)

\* The old database, as a user has edited it.
EditedDb(base, edited) ==
  /\ base \in Databases /\ DOMAIN base = DOMAIN UD!OldDatabase
  /\ \A id \in DOMAIN base : /\ base[id].noupdate = UD!OldDatabase[id].noupdate
                           /\ EditedOld(base[id].values, id, edited)

\* The keys the analysis answers for.
Guarded(k) ==
  \/ \A id \in OldRecordIds(k) : UD!OldDatabase[id].noupdate
  \/ \A i \in DOMAIN udNew : UD!Key(udNew[i]) = k => udNew[i].noupdate
FollowedKeys ==
  {k \in DOMAIN UD!ParseFiles(udNew).noupdate : Guarded(k) /\ (k[1] => k[2] \in UD!Followed)}

\* The update leaves their records, under the new name; the script brings them up to date.
UpdatedDb(base, edited) ==
  /\ base \in Databases
  /\ \A k \in FollowedKeys : \A id : Meant(k, id) =>
        UD!DiffId(k) \in DOMAIN base /\ EditedOld(base[UD!DiffId(k)].values, id, edited)
UpgradedDb(base, edited) ==
  \A k \in FollowedKeys : \A id : Meant(k, id) =>
     \A f \in UD!KeptFields :
        base[UD!DiffId(k)].values[f] = Due(k, id, f, edited)

NoupdateInv ==
  /\ \A e \in udEdited : e = <<e[1], e[2]>>
  /\ udPhase = "writing" => udEdited = {}
  /\ udPhase \in {"installed", "analysed"} => EditedDb(udDb, udEdited)
  /\ udPhase \in {"analysed", "updated"} => udDiff = Diff
  /\ udPhase = "updated" => UpdatedDb(udDb, udEdited)
  /\ udPhase = "upgraded" => UpgradedDb(udDb, udEdited)

Typed == /\ udCase \in Upgrades
         /\ udOld \in [UD!RemoteModules -> Seq(UD!Nodes(UD!Fields))]
         /\ udNew \in Seq(UD!Nodes(UD!Fields))

\* The keys are those of files.
LEMMA FollowedFacts ==
  ASSUME UD!Assumption, Typed, NEW k \in FollowedKeys
  PROVE  /\ k \in XmlKeys /\ k \in DOMAIN UD!ParseFiles(udNew).noupdate
         /\ k[1] => k[2] \in UD!Followed
         /\ \E id \in DOMAIN UD!OldDatabase : Meant(k, id)
<1>1. udCase \in Upgrades /\ udOld \in [UD!RemoteModules -> Seq(UD!Nodes(UD!Fields))]
      /\ udNew \in Seq(UD!Nodes(UD!Fields))
  BY DEF Typed
<1>2. k \in DOMAIN UD!ParseFiles(udNew).noupdate /\ (k[1] => k[2] \in UD!Followed)
  BY DEF FollowedKeys
<1>3. k \in XmlKeys
  <2>1. UD!ParseFiles(udNew) \in Parses
    BY <1>1, ParsedFiles
  <2> QED BY <1>2, <2>1 DEF Parses, Blocks
<1>4. PICK g : Collected(g)
  BY <1>1, RemoteParsed
<1>5. \E id \in DOMAIN UD!OldDatabase : Meant(k, id)
  BY <1>1, <1>2, <1>3, <1>4, OldRecord DEF Meant
<1> QED BY <1>2, <1>3, <1>5

LEMMA OldTyped == ASSUME UD!Assumption, Typed PROVE UD!OldDatabase \in Databases
<1>1. Len(udCase.remote) \in 0 .. Len(udCase.remote)
  BY CaseModules DEF Typed
<1> QED BY <1>1, OldRuns DEF Typed

LEMMA UpdateStep ==
  ASSUME UD!Assumption, Typed, NEW base, NEW edited, EditedDb(base, edited)
  PROVE  UpdatedDb(UD!UpdateFiles(UD!Renamed(base), udCase.local, udNew), edited)
<1>1. udCase \in Upgrades /\ udOld \in [UD!RemoteModules -> Seq(UD!Nodes(UD!Fields))]
      /\ udNew \in Seq(UD!Nodes(UD!Fields))
  BY DEF Typed
<1> DEFINE r == UD!Renamed(base)
           after == UD!UpdateFiles(r, udCase.local, udNew)
<1>2. /\ r \in Databases
      /\ \A k \in XmlKeys : \A id : Meant(k, id) =>
            UD!DiffId(k) \in DOMAIN r /\ r[UD!DiffId(k)] = base[id]
  BY <1>1, RenamedRecords DEF EditedDb, Meant
<1>3. ASSUME NEW k \in FollowedKeys, NEW id, Meant(k, id)
      PROVE  UD!DiffId(k) \in DOMAIN after /\ EditedOld(after[UD!DiffId(k)].values, id, edited)
  <2>1. k \in XmlKeys
    BY FollowedFacts
  <2> DEFINE x == UD!DiffId(k)
  <2>2. x \in DOMAIN r /\ r[x] = base[id]
    BY <1>2, <1>3, <2>1
  <2>3. id \in DOMAIN base /\ id \in DOMAIN UD!OldDatabase
    BY <1>3 DEF Meant, OldRecordIds, EditedDb
  <2>4. base[id].noupdate = UD!OldDatabase[id].noupdate /\ EditedOld(base[id].values, id, edited)
    BY <2>3 DEF EditedDb
  <2>5. \A j \in 1 .. Len(udNew) : UD!Id(udCase.local, udNew[j]) = x => UD!Key(udNew[j]) = k
    <3>1. UD!Other # udCase.local
      BY <1>1, CaseModules
    <3>2. \A j \in 1 .. Len(udNew) : udNew[j].own \in BOOLEAN
      <4>1. \A j \in 1 .. Len(udNew) : udNew[j] \in UD!Nodes(UD!Fields)
        BY <1>1
      <4>2. \A node \in UD!Nodes(UD!Fields) : node.own \in BOOLEAN
        BY <1>1, NodeFacts
      <4> QED BY <4>1, <4>2
    <3>3. k[1] \in BOOLEAN /\ k = <<k[1], k[2]>>
      BY <2>1 DEF XmlKeys
    <3> QED BY <3>1, <3>2, <3>3 DEF UD!Id, UD!DiffId, UD!Key
  <2>6. \/ r[x].noupdate
        \/ \A j \in 1 .. Len(udNew) : UD!Id(udCase.local, udNew[j]) = x => udNew[j].noupdate
    <3>1. Guarded(k) /\ DOMAIN udNew = 1 .. Len(udNew)
      BY <1>1 DEF FollowedKeys
    <3> HIDE DEF r, x
    <3>2. CASE \A i \in OldRecordIds(k) : UD!OldDatabase[i].noupdate
      BY <1>3, <2>2, <2>4, <3>2 DEF Meant
    <3>3. CASE \A i \in DOMAIN udNew : UD!Key(udNew[i]) = k => udNew[i].noupdate
      BY <2>5, <3>1, <3>3
    <3> QED BY <3>1, <3>2, <3>3 DEF Guarded
  <2> HIDE DEF r, x
  <2>7. after \in Databases /\ x \in DOMAIN after /\ after[x] = r[x]
    BY <1>1, <1>2, <2>2, <2>6, UpdateKeeps
  <2>8. after[x].values = base[id].values
    BY <2>2, <2>7
  <2> HIDE DEF after
  <2> QED BY <2>4, <2>7, <2>8 DEF x
<1>4. after \in Databases
  <2> HIDE DEF r
  <2> QED BY <1>1, <1>2, UpdateTyped
<1> HIDE DEF after
<1>5. UpdatedDb(after, edited)
  BY <1>3, <1>4 DEF UpdatedDb
<1> QED BY <1>5 DEF after, r

LEMMA LoadStep ==
  ASSUME UD!Assumption, Typed, NEW base, NEW edited, UpdatedDb(base, edited), NEW after,
         after = [id \in DOMAIN base |->
                    IF \E k \in DOMAIN Diff : UD!DiffId(k) = id
                    THEN [base[id] EXCEPT !.values =
                            UD!Changed(@, Diff[CHOOSE k \in DOMAIN Diff : UD!DiffId(k) = id])]
                    ELSE base[id]]
  PROVE  UpgradedDb(after, edited)
<1>1. udCase \in Upgrades /\ udOld \in [UD!RemoteModules -> Seq(UD!Nodes(UD!Fields))]
      /\ udNew \in Seq(UD!Nodes(UD!Fields))
  BY DEF Typed
<1>2. DOMAIN Diff \subseteq XmlKeys
  <2>1. DOMAIN Diff \subseteq DOMAIN UD!ParseFiles(udNew).noupdate
    BY DEF Diff, UD!XmlDiff
  <2>2. UD!ParseFiles(udNew) \in Parses
    BY <1>1, ParsedFiles
  <2> QED BY <2>1, <2>2 DEF Parses, Blocks
<1>3. \A k, l \in XmlKeys : UD!DiffId(k) = UD!DiffId(l) => k = l
  <2>1. UD!Other # udCase.local
    BY <1>1, CaseModules
  <2> QED BY <2>1 DEF XmlKeys, UD!DiffId
<1>4. \A id \in DOMAIN base :
         after[id] = IF \E k \in DOMAIN Diff : UD!DiffId(k) = id
                     THEN [base[id] EXCEPT !.values =
                             UD!Changed(@, Diff[CHOOSE k \in DOMAIN Diff : UD!DiffId(k) = id])]
                     ELSE base[id]
  OBVIOUS
<1>5. ASSUME NEW k \in FollowedKeys, NEW id, Meant(k, id), NEW f \in UD!KeptFields
      PROVE  after[UD!DiffId(k)].values[f] = Due(k, id, f, edited)
  <2> DEFINE x == UD!DiffId(k)
             values == base[x].values
             new == Loaded(values, k)
  <2>1. /\ k \in XmlKeys /\ k \in DOMAIN UD!ParseFiles(udNew).noupdate
        /\ k[1] => k[2] \in UD!Followed
    BY FollowedFacts
  <2>2. x \in DOMAIN base /\ values \in [UD!Fields -> FieldValues] /\ EditedOld(values, id, edited)
    <3>1. x \in DOMAIN base /\ EditedOld(base[x].values, id, edited)
      BY <1>5 DEF UpdatedDb
    <3>2. base[x] \in RecordValues
      BY <3>1 DEF UpdatedDb, Databases
    <3> QED BY <3>1, <3>2 DEF RecordValues
  <2>3. after[x].values = new
    <3> HIDE DEF x
    <3>1. CASE k \in DOMAIN Diff
      <4>1. UD!DiffId(k) = x /\ \A l \in DOMAIN Diff : UD!DiffId(l) = x => l = k
        BY <1>2, <1>3, <2>1 DEF x
      <4>2. (CHOOSE l \in DOMAIN Diff : UD!DiffId(l) = x) = k
        BY <3>1, <4>1
      <4>3. after[x] = [base[x] EXCEPT !.values = UD!Changed(@, Diff[k])]
        BY <1>4, <2>2, <3>1, <4>1, <4>2
      <4>4. base[x] \in RecordValues
        BY <2>2 DEF UpdatedDb, Databases
      <4> QED BY <3>1, <4>3, <4>4 DEF RecordValues, Loaded
    <3>2. CASE k \notin DOMAIN Diff
      <4>1. ~ \E l \in DOMAIN Diff : UD!DiffId(l) = x
        BY <1>2, <1>3, <2>1, <3>2 DEF x
      <4>2. after[x] = base[x]
        BY <1>4, <2>2, <4>1
      <4>3. new = values
        BY ONLY <3>2 DEF Loaded
      <4> QED BY ONLY <4>2, <4>3
    <3> QED BY <3>1, <3>2
  <2> HIDE DEF new, values, x
  <2>4. new[f] = Due(k, id, f, edited)
    <3>1. UD!Assumption /\ k \in DOMAIN UD!ParseFiles(udNew).noupdate /\ f \in UD!KeptFields
      BY <2>1
    <3> QED BY ONLY <1>1, <1>5, <2>1, <2>2, <3>1, DiffLoaded DEF new
  <2> QED BY <2>3, <2>4 DEF x
<1> QED BY <1>5 DEF UpgradedDb

\* What the files mean does not change while they do not.
LEMMA SameParts ==
  ASSUME UNCHANGED <<udCase, udOld, udNew>>
  PROVE  /\ UD!Fields' = UD!Fields /\ UD!KeptFields' = UD!KeptFields /\ Databases' = Databases
         /\ UD!RemoteModules' = UD!RemoteModules
         /\ UD!ParseFiles(udNew)' = UD!ParseFiles(udNew) /\ UD!RemoteFiles' = UD!RemoteFiles
         /\ UD!Followed' = UD!Followed
<1>1. UD!Fields' = UD!Fields /\ UD!KeptFields' = UD!KeptFields /\ UD!XmlNames' = UD!XmlNames
      /\ UD!RemoteModules' = UD!RemoteModules
  BY DEF UD!Fields, UD!KeptFields, UD!RemoteModules, UD!Range, UD!XmlNames
<1>2. Databases' = Databases
  BY <1>1 DEF Databases, RecordValues
<1>3. UD!ParseFiles(udNew)' = UD!ParseFiles(udNew)
  BY DEF UD!ParseFiles, UD!FoldLeft, UD!MapThenFoldSet
<1>4. UD!RemoteFiles' = UD!RemoteFiles
  BY DEF UD!RemoteFiles, UD!AddRemote, UD!FoldLeft, UD!MapThenFoldSet
<1>5. UD!Followed' = UD!Followed
  BY <1>1, SameDatabases DEF UD!Followed
<1> QED BY <1>1, <1>2, <1>3, <1>4, <1>5

LEMMA SameMeaning ==
  ASSUME UNCHANGED <<udCase, udOld, udNew>>
  PROVE  /\ EditedDb(udDb, udEdited)' = EditedDb(udDb', udEdited')
         /\ UpdatedDb(udDb, udEdited)' = UpdatedDb(udDb', udEdited')
         /\ UpgradedDb(udDb, udEdited)' = UpgradedDb(udDb', udEdited')
         /\ Diff' = Diff
<1>1. UD!OldDatabase' = UD!OldDatabase /\ UD!FreshDatabase' = UD!FreshDatabase
  BY SameDatabases
<1>2. /\ UD!Fields' = UD!Fields /\ UD!KeptFields' = UD!KeptFields /\ Databases' = Databases
      /\ UD!RemoteModules' = UD!RemoteModules
      /\ UD!ParseFiles(udNew)' = UD!ParseFiles(udNew) /\ UD!RemoteFiles' = UD!RemoteFiles
      /\ UD!Followed' = UD!Followed
  BY SameParts
<1>3. EditedDb(udDb, udEdited)' = EditedDb(udDb', udEdited')
  BY <1>1, <1>2 DEF EditedDb, EditedOld
<1>4. \A k : OldRecordIds(k)' = OldRecordIds(k)
  BY <1>1, <1>2 DEF OldRecordIds
<1>5. FollowedKeys' = FollowedKeys
  BY <1>1, <1>2, <1>4 DEF FollowedKeys, Guarded
<1>6. UpdatedDb(udDb, udEdited)' = UpdatedDb(udDb', udEdited')
  BY <1>1, <1>2, <1>4, <1>5 DEF UpdatedDb, EditedOld, Meant, UD!DiffId
<1>7. UpgradedDb(udDb, udEdited)' = UpgradedDb(udDb', udEdited')
  <2>1. \A k : UD!RecordOf(UD!RemoteFiles, k)' = UD!RecordOf(UD!RemoteFiles, k)
    BY <1>2 DEF UD!RecordOf, UD!NoRecord
  <2>2. \A k, f : Same(UD!RecordOf(UD!RemoteFiles, k), UD!ParseFiles(udNew).noupdate[k], f)'
                    = Same(UD!RecordOf(UD!RemoteFiles, k), UD!ParseFiles(udNew).noupdate[k], f)
    BY <1>2, <2>1 DEF Same
  <2>3. \A k, id, f : Due(k, id, f, udEdited)' = Due(k, id, f, udEdited')
    BY <1>1, <2>2 DEF Due, UD!DiffId
  <2> QED BY <1>2, <1>4, <1>5, <2>3 DEF UpgradedDb, Meant, UD!DiffId
<1>8. Diff' = Diff
  BY <1>2 DEF Diff, UD!XmlDiff
<1> QED BY <1>3, <1>6, <1>7, <1>8

LEMMA NoupdateInit == UD!Init => NoupdateInv
BY DEF UD!Init, NoupdateInv

LEMMA NoupdateNext == ASSUME UD!Assumption, Typed, NoupdateInv, [UD!Next]_data PROVE NoupdateInv'
<1>1. /\ \A e \in udEdited : e = <<e[1], e[2]>>
      /\ udPhase = "writing" => udEdited = {}
      /\ udPhase \in {"installed", "analysed"} => EditedDb(udDb, udEdited)
      /\ udPhase \in {"analysed", "updated"} => udDiff = Diff
      /\ udPhase = "updated" => UpdatedDb(udDb, udEdited)
      /\ udPhase = "upgraded" => UpgradedDb(udDb, udEdited)
  BY DEF NoupdateInv
<1>2. ASSUME udPhase' = "writing", UNCHANGED udEdited, udPhase = "writing" PROVE NoupdateInv'
  BY <1>1, <1>2 DEF NoupdateInv
<1>3. ASSUME UNCHANGED <<udCase, udOld, udNew>>,
             /\ \A e \in udEdited' : e = <<e[1], e[2]>>
             /\ udPhase' = "writing" => udEdited' = {}
             /\ udPhase' \in {"installed", "analysed"} => EditedDb(udDb', udEdited')
             /\ udPhase' \in {"analysed", "updated"} => udDiff' = Diff
             /\ udPhase' = "updated" => UpdatedDb(udDb', udEdited')
             /\ udPhase' = "upgraded" => UpgradedDb(udDb', udEdited')
      PROVE  NoupdateInv'
  BY <1>3, SameMeaning DEF NoupdateInv
<1>4. ASSUME NEW m \in UD!RemoteModules, NEW node \in UD!Nodes(UD!Fields), UD!WriteOld(m, node)
      PROVE  NoupdateInv'
  BY <1>2, <1>4 DEF UD!WriteOld
<1>5. ASSUME NEW node \in UD!Nodes(UD!KeptFields), UD!WriteNew(node) PROVE NoupdateInv'
  BY <1>2, <1>5 DEF UD!WriteNew
<1>6. CASE UD!Install
  <2>1. /\ udDb' = UD!OldDatabase /\ udPhase' = "installed" /\ udEdited' = {}
        /\ UNCHANGED <<udCase, udOld, udNew>>
    BY <1>1, <1>6 DEF UD!Install
  <2>2. EditedDb(UD!OldDatabase, {})
    BY OldTyped DEF EditedDb, EditedOld
  <2> QED BY <1>3, <2>1, <2>2
<1>7. ASSUME NEW id \in DOMAIN udDb, NEW f \in UD!Fields, UD!Edit(id, f) PROVE NoupdateInv'
  <2>1. /\ udPhase = "installed" /\ udPhase' = "installed" /\ udEdited = {}
        /\ udDb' = [udDb EXCEPT ![id].values[f] = UserValue] /\ udEdited' = {<<id, f>>}
        /\ UNCHANGED <<udCase, udOld, udNew>>
    BY <1>7 DEF UD!Edit
  <2>2. EditedDb(udDb, {})
    BY <1>1, <2>1
  <2>3. \A x \in DOMAIN udDb : udDb[x] \in RecordValues
    BY <2>2 DEF EditedDb, Databases
  <2>4. /\ DOMAIN udDb' = DOMAIN udDb /\ \A x \in DOMAIN udDb : x # id => udDb'[x] = udDb[x]
        /\ udDb'[id].noupdate = udDb[id].noupdate
        /\ udDb'[id].values = [udDb[id].values EXCEPT ![f] = UserValue]
    BY <2>1, <2>3 DEF RecordValues
  <2>5. udDb' \in Databases
    <3>1. PICK D \in SUBSET ((UD!RemoteModules \cup {udCase.local, UD!Other}) \X UD!XmlNames) :
             udDb \in [D -> RecordValues]
      BY <2>2 DEF EditedDb, Databases
    <3>2. udDb' \in [D -> RecordValues]
      BY <2>1, <3>1 DEF RecordValues, FieldValues
    <3> QED BY <3>2 DEF Databases
  <2>6. ASSUME NEW x \in DOMAIN udDb
        PROVE  /\ udDb'[x].noupdate = UD!OldDatabase[x].noupdate
               /\ EditedOld(udDb'[x].values, x, {<<id, f>>})
    <3>1. /\ udDb[x].noupdate = UD!OldDatabase[x].noupdate
          /\ \A e \in UD!Fields : udDb[x].values[e] = UD!OldDatabase[x].values[e]
      BY <2>2 DEF EditedDb, EditedOld
    <3>2. CASE x # id
      BY <2>4, <3>1, <3>2 DEF EditedOld
    <3>3. CASE x = id
      <4>1. DOMAIN udDb[x].values = UD!Fields
        BY <2>3 DEF RecordValues
      <4> QED BY <2>4, <3>1, <3>3, <4>1 DEF EditedOld
    <3> QED BY <3>2, <3>3
  <2>7. EditedDb(udDb', {<<id, f>>})
    BY <2>2, <2>4, <2>5, <2>6 DEF EditedDb
  <2>8. EditedDb(udDb', udEdited') /\ udPhase' = "installed" /\ \A e \in udEdited' : e = <<e[1], e[2]>>
    BY <2>1, <2>7
  <2> QED BY <1>3, <2>1, <2>8
<1>8. CASE UD!Analyze
  <2>1. /\ udPhase = "installed" /\ udPhase' = "analysed" /\ udDiff' = Diff
        /\ UNCHANGED <<udCase, udOld, udNew, udDb, udEdited>>
    BY <1>8 DEF UD!Analyze, Diff
  <2> QED BY <1>1, <1>3, <2>1
<1>9. CASE UD!UpdateModule
  <2>1. /\ udPhase = "analysed" /\ udPhase' = "updated"
        /\ udDb' = UD!UpdateFiles(UD!Renamed(udDb), udCase.local, udNew)
        /\ UNCHANGED <<udCase, udOld, udNew, udEdited, udDiff>>
    BY <1>9 DEF UD!UpdateModule
  <2>2. UpdatedDb(UD!UpdateFiles(UD!Renamed(udDb), udCase.local, udNew), udEdited)
    BY <1>1, <2>1, UpdateStep
  <2>3. UpdatedDb(udDb', udEdited')
    BY <2>1, <2>2
  <2> QED BY <1>1, <1>3, <2>1, <2>3
<1>10. CASE UD!LoadDiff
  <2>1. /\ udPhase = "updated" /\ udPhase' = "upgraded"
        /\ UNCHANGED <<udCase, udOld, udNew, udEdited, udDiff>>
        /\ udDiff = Diff /\ UpdatedDb(udDb, udEdited)
    BY <1>1, <1>10 DEF UD!LoadDiff
  <2>2. udDb' = [id \in DOMAIN udDb |->
                   IF \E k \in DOMAIN Diff : UD!DiffId(k) = id
                   THEN [udDb[id] EXCEPT !.values =
                           UD!Changed(@, Diff[CHOOSE k \in DOMAIN Diff : UD!DiffId(k) = id])]
                   ELSE udDb[id]]
    <3>1. udDiff = Diff
      BY <2>1
    <3> QED BY <1>10, <3>1, Zenon DEF UD!LoadDiff
  <2>3. UpgradedDb(udDb', udEdited)
    BY <2>1, <2>2, LoadStep
  <2> QED BY <1>1, <1>3, <2>1, <2>3
<1>11. CASE UNCHANGED data
  BY <1>1, <1>3, <1>11 DEF data
<1> QED BY <1>4, <1>5, <1>6, <1>7, <1>8, <1>9, <1>10, <1>11 DEF UD!Next

LEMMA NoupdateTells == ASSUME UD!Assumption, Typed, NoupdateInv PROVE UD!NoupdateUpgraded
<1> DEFINE local == UD!ParseFiles(udNew).noupdate
           edits(k, f) == {e \in udEdited : e[1] \in OldRecordIds(k) /\ e[2] = f}
           same(k, f) == Same(UD!RecordOf(UD!RemoteFiles, k), local[k], f)
           fresh(k, f) == UD!FreshDatabase[UD!DiffId(k)].values[f]
<1>1. ASSUME udPhase = "upgraded", NEW k \in FollowedKeys, NEW f \in UD!KeptFields
      PROVE  LET value == udDb[UD!DiffId(k)].values[f]
             IN  IF edits(k, f) # {} /\ same(k, f)
                      /\ \A id \in OldRecordIds(k) : UD!OldDatabase[id].noupdate
                 THEN value = UserValue
                 ELSE \/ value = fresh(k, f)
                      \/ same(k, f) /\ edits(k, f) # {} /\ value = UserValue
  <2>1. PICK id \in DOMAIN UD!OldDatabase : Meant(k, id)
    BY FollowedFacts
  <2>2. udDb[UD!DiffId(k)].values[f]
          = IF same(k, f) /\ <<id, f>> \in udEdited THEN UserValue ELSE fresh(k, f)
    BY <1>1, <2>1 DEF NoupdateInv, UpgradedDb, Due
  <2>3. edits(k, f) # {} <=> <<id, f>> \in udEdited
    BY <2>1 DEF NoupdateInv, Meant
  <2> HIDE DEF same, fresh, edits
  <2> QED BY <2>2, <2>3
<1>2. ASSUME NEW k \in DOMAIN local,
             \/ \A id \in OldRecordIds(k) : UD!OldDatabase[id].noupdate
             \/ \A i \in DOMAIN udNew : UD!Key(udNew[i]) = k => udNew[i].noupdate,
             k[1] => k[2] \in UD!Followed
      PROVE  k \in FollowedKeys
  BY <1>2 DEF FollowedKeys, Guarded
<1> QED BY <1>1, <1>2 DEF UD!NoupdateUpgraded, OldRecordIds, Same

----------------------------------------------------------------------------
(* The composition: this part goes on alone if it was chosen first.          *)

MaintenanceData == part = "data" => DataInv /\ NoupdateInv

\* While the part goes on, the report and the changes are those of the files that are there.
THEOREM DataInvariance == MaintenanceSpec => []MaintenanceData
<1>1. MaintenanceInit => MaintenanceData
  BY DataInit, NoupdateInit DEF MaintenanceInit, MaintenanceData
<1>2. MaintenanceData /\ [MaintenanceNext]_all => MaintenanceData'
  <2> SUFFICES ASSUME MaintenanceData, [MaintenanceNext]_all PROVE MaintenanceData'
    OBVIOUS
  <2>1. part' = part /\ (part = "data" => [UD!Next]_data)
    BY DEF MaintenanceNext, Step, all
  <2>2. DataInv => Typed
    BY DEF DataInv, Typed
  <2> QED BY <2>1, <2>2, MaintenanceAssumption, DataNext, NoupdateNext DEF MaintenanceData
<1> QED BY <1>1, <1>2, PTL DEF MaintenanceSpec

(* The analysis tells each XML id that an old module had and the new one does *)
(* not, each that it adds, and of those that both have exactly the ones whose *)
(* noupdate flag has changed, whatever modules were renamed or merged.        *)
(* upgrade_analysis/compare.py:352-458.                                       *)
THEOREM XmlidsCorrect == MaintenanceSpec => []XmlidsTold
<1>1. MaintenanceData => XmlidsTold
  BY DataTells DEF MaintenanceData, XmlidsTold
<1> QED BY <1>1, DataInvariance, PTL

(* Loading the changes after the update brings every noupdate record that the *)
(* old version had to what a fresh installation gives, and leaves what a user *)
(* has edited and the developers have not changed, whichever files say it.    *)
(* upgrade_analysis/models/upgrade_analysis.py:258-426.                       *)
THEOREM NoupdateCorrect == MaintenanceSpec => []NoupdateUpgraded
<1>1. MaintenanceData => NoupdateUpgraded
  <2>1. DataInv => Typed
    BY DEF DataInv, Typed
  <2> QED BY <2>1, MaintenanceAssumption, NoupdateTells DEF MaintenanceData, NoupdateUpgraded
<1> QED BY <1>1, DataInvariance, PTL

============================================================================
