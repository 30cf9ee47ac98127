--------------------------- MODULE Documents_proofs ---------------------------
(***************************************************************************)
(* That changedPaths() reports exactly what moved, for all documents of    *)
(* two levels over any keys and values, as long as no key has a dot in it. *)
(*                                                                         *)
(* Walk is a recursive function, so the first thing to show is that there  *)
(* is one that satisfies its equation: on documents of two levels the      *)
(* equation is solved by unfolding it twice.                               *)
(***************************************************************************)
EXTENDS Documents, SequenceTheorems, TLAPS

(* No key has a dot in it, and undefined is no document. *)
Undotted == \A key \in Keys : \E s : key = <<s>>
NoneIsNothing == Nothing \notin Docs

LEMMA Shapes ==
  /\ Docs = TopTables \cup Leaves /\ InnerTables \subseteq TopTables
  /\ \A d \in Leaves : ~IsTable(d)
  /\ \A d \in TopTables :
       /\ IsTable(d) /\ DOMAIN d.table \subseteq Keys
       /\ \A key \in DOMAIN d.table : d.table[key] \in Leaves \cup InnerTables
       /\ d = [table |-> d.table] /\ d.table = [key \in DOMAIN d.table |-> d.table[key]]
  /\ \A d \in InnerTables : \A key \in DOMAIN d.table : d.table[key] \in Leaves
<1>1. \A set : \A f \in TablesOf(set) :
        /\ DOMAIN f \subseteq Keys /\ f = [key \in DOMAIN f |-> f[key]]
        /\ \A key \in DOMAIN f : f[key] \in set
  BY DEF TablesOf
<1>2. TablesOf(Leaves) \subseteq TablesOf(Leaves \cup InnerTables)
  BY DEF TablesOf
<1>3. \A d \in TopTables : IsTable(d) /\ d.table \in TablesOf(Leaves \cup InnerTables)
                           /\ d = [table |-> d.table]
  BY DEF TopTables, IsTable
<1>4. \A d \in InnerTables : d.table \in TablesOf(Leaves) /\ d \in TopTables
  BY <1>2 DEF InnerTables, TopTables
<1>5. \A d \in Leaves : ~IsTable(d)
  BY DEF Leaves, IsTable
<1>6. Docs = TopTables \cup Leaves
  BY <1>4 DEF Docs
<1> QED
  BY <1>1, <1>3, <1>4, <1>5, <1>6

-----------------------------------------------------------------------------
(* What the walk does on two documents, given what it answers further down. *)

Turns(f, left, right) ==
  IF ~IsTable(left) \/ ~IsTable(right)
    THEN IF left # right THEN {<<>>} ELSE {}
    ELSE UNION {
      IF key \in DOMAIN left.table \cap DOMAIN right.table
        THEN {key \o rest : rest \in f[left.table[key]][right.table[key]]}
        ELSE {key} : key \in DOMAIN left.table \cup DOMAIN right.table}

Unfold(f) == [left \in Docs |-> [right \in Docs |-> Turns(f, left, right)]]

(* It looks no further than the keys both tables have. *)
LEMMA TurnsLocal ==
  ASSUME NEW f, NEW g, NEW left \in Docs, NEW right \in Docs,
         IsTable(left) /\ IsTable(right) =>
           \A key \in DOMAIN left.table \cap DOMAIN right.table :
             f[left.table[key]][right.table[key]] = g[left.table[key]][right.table[key]]
  PROVE  Turns(f, left, right) = Turns(g, left, right)
<1>1. CASE ~IsTable(left) \/ ~IsTable(right)
  BY <1>1 DEF Turns
<1>2. CASE IsTable(left) /\ IsTable(right)
  <2> DEFINE P(h, key) == IF key \in DOMAIN left.table \cap DOMAIN right.table
                            THEN {key \o rest : rest \in h[left.table[key]][right.table[key]]}
                            ELSE {key}
  <2>1. \A key \in DOMAIN left.table \cup DOMAIN right.table : P(f, key) = P(g, key)
    BY <1>2
  <2>2. /\ Turns(f, left, right) = UNION {P(f, key) : key \in DOMAIN left.table \cup DOMAIN right.table}
        /\ Turns(g, left, right) = UNION {P(g, key) : key \in DOMAIN left.table \cup DOMAIN right.table}
    BY <1>2 DEF Turns
  <2> HIDE DEF P
  <2> QED
    BY <2>1, <2>2
<1> QED
  BY <1>1, <1>2

LEMMA WalkUnfolds == Walk = Unfold(Walk)
<1> DEFINE g0 == Unfold([left \in Docs |-> [right \in Docs |-> {}]])
           g1 == Unfold(g0)
           g2 == Unfold(g1)
<1>1. \A d \in Docs : IsTable(d) => d \in TopTables
  BY Shapes
<1>2. \A f, g : \A left, right \in Leaves : Turns(f, left, right) = Turns(g, left, right)
  BY Shapes DEF Turns
<1>3. \A f : \A left, right \in Docs : Unfold(f)[left][right] = Turns(f, left, right)
  BY DEF Unfold
<1>4. \A left, right \in Leaves : g0[left][right] = g1[left][right]
  BY <1>2, <1>3, Shapes
<1>5. \A left, right \in Leaves \cup InnerTables : g1[left][right] = g2[left][right]
  <2> HIDE DEF g0, g1, g2
  <2> SUFFICES ASSUME NEW left \in Leaves \cup InnerTables, NEW right \in Leaves \cup InnerTables
               PROVE  g1[left][right] = g2[left][right]
    OBVIOUS
  <2>1. IsTable(left) /\ IsTable(right) =>
          \A key \in DOMAIN left.table \cap DOMAIN right.table :
            g0[left.table[key]][right.table[key]] = g1[left.table[key]][right.table[key]]
    BY <1>4, Shapes
  <2>2. Turns(g0, left, right) = Turns(g1, left, right)
    BY <2>1, TurnsLocal, Shapes
  <2> QED
    BY <1>3, <2>2, Shapes DEF g1, g2
<1>6. \A left, right \in Docs : Turns(g1, left, right) = Turns(g2, left, right)
  <2> HIDE DEF g0, g1, g2
  <2> SUFFICES ASSUME NEW left \in Docs, NEW right \in Docs
               PROVE  Turns(g1, left, right) = Turns(g2, left, right)
    OBVIOUS
  <2>1. IsTable(left) /\ IsTable(right) =>
          \A key \in DOMAIN left.table \cap DOMAIN right.table :
            g1[left.table[key]][right.table[key]] = g2[left.table[key]][right.table[key]]
    BY <1>1, <1>5, Shapes
  <2> QED
    BY <2>1, TurnsLocal
<1>7. g2 = Unfold(g2)
  <2> HIDE DEF g0, g1
  <2> QED
    BY <1>6 DEF Unfold
<1>8. \E g : g = Unfold(g)
  BY <1>7
<1>9. Walk = CHOOSE g : g = Unfold(g)
  BY DEF Walk, Unfold, Turns
<1> QED
  BY <1>8, <1>9
-----------------------------------------------------------------------------
(* What changedPaths() reports. *)

Differ(old, new, s) == Below(old, s) # Below(new, s)
Tables(old, new, s) == {Below(old, s), Below(new, s)} \subseteq InnerTables

LEMMA BelowIsThere ==
  ASSUME NoneIsNothing, NEW d \in Docs, NEW s
  PROVE  /\ IsTable(d) /\ <<s>> \in DOMAIN d.table =>
              Below(d, s) = d.table[<<s>>] /\ Below(d, s) # Nothing
         /\ ~(IsTable(d) /\ <<s>> \in DOMAIN d.table) => Below(d, s) = Nothing
         /\ d \in TopTables => Below(d, s) \in Leaves \cup InnerTables \cup {Nothing}
         /\ d \in InnerTables => Below(d, s) \in Leaves \cup {Nothing}
         /\ d \in Leaves => Below(d, s) = Nothing
<1>1. d # Nothing
  BY DEF NoneIsNothing
<1>2. CASE IsTable(d) /\ <<s>> \in DOMAIN d.table
  <2>1. Below(d, s) = d.table[<<s>>] /\ d \in TopTables
    BY <1>1, <1>2, Shapes DEF Below
  <2>2. Below(d, s) \in Leaves \cup InnerTables /\ (d \in InnerTables => Below(d, s) \in Leaves)
    <3>1. \A key \in DOMAIN d.table : d.table[key] \in Leaves \cup InnerTables
      BY <2>1, Shapes
    <3>2. d \in InnerTables => \A key \in DOMAIN d.table : d.table[key] \in Leaves
      BY Shapes
    <3> QED
      BY <1>2, <2>1, <3>1, <3>2
  <2>3. Below(d, s) \in Docs
    BY <2>2, Shapes
  <2> QED
    BY <1>2, <2>1, <2>2, <2>3, Shapes DEF NoneIsNothing
<1>3. CASE ~(IsTable(d) /\ <<s>> \in DOMAIN d.table)
  <2>1. Below(d, s) = Nothing
    BY <1>3 DEF Below
  <2> QED
    BY <1>3, <2>1
<1> QED
  BY <1>2, <1>3

LEMMA Joined ==
  ASSUME NEW s, NEW t
  PROVE  <<s>> \o <<t>> = <<s, t>> /\ <<s>> \o <<>> = <<s>>
<1>1. <<s>> \o <<>> = <<s>>
  OBVIOUS
<1>2. <<s>> \in Seq({s, t}) /\ <<t>> \in Seq({s, t}) /\ <<s, t>> \in Seq({s, t})
  OBVIOUS
<1>3. /\ <<s>> \o <<t>> \in Seq({s, t}) /\ Len(<<s>> \o <<t>>) = 2
      /\ (<<s>> \o <<t>>)[1] = s /\ (<<s>> \o <<t>>)[2] = t
  <2>1. Len(<<s>>) = 1 /\ Len(<<t>>) = 1 /\ <<s>>[1] = s /\ <<t>>[1] = t
    OBVIOUS
  <2>2. /\ <<s>> \o <<t>> \in Seq({s, t}) /\ Len(<<s>> \o <<t>>) = Len(<<s>>) + Len(<<t>>)
        /\ \A i \in 1..(Len(<<s>>) + Len(<<t>>)) : (<<s>> \o <<t>>)[i] =
             IF i <= Len(<<s>>) THEN <<s>>[i] ELSE <<t>>[i - Len(<<s>>)]
    BY <1>2, ConcatProperties
  <2>3. \A i \in 1..2 : (<<s>> \o <<t>>)[i] = IF i <= 1 THEN <<s>>[i] ELSE <<t>>[i - 1]
    BY <2>1, <2>2
  <2>4. (<<s>> \o <<t>>)[1] = <<s>>[1]
    BY <2>3
  <2>5. (<<s>> \o <<t>>)[2] = <<t>>[1]
    <3>1. (<<s>> \o <<t>>)[2] = <<t>>[2 - 1]
      BY <2>3
    <3> QED
      BY <3>1
  <2>6. Len(<<s>> \o <<t>>) = 2
    BY <2>1, <2>2
  <2> QED
    BY <2>1, <2>2, <2>4, <2>5, <2>6
<1>4. <<s>> \o <<t>> = <<s, t>>
  <2> DEFINE u == <<s>> \o <<t>>
             v == <<s, t>>
  <2>1. Len(v) = 2 /\ v[1] = s /\ v[2] = t
    OBVIOUS
  <2>2. u \in Seq({s, t}) /\ v \in Seq({s, t}) /\ Len(u) = 2 /\ u[1] = s /\ u[2] = t
    BY <1>2, <1>3
  <2> HIDE DEF u, v
  <2>3. \A i \in 1..Len(u) : u[i] = v[i]
    BY <2>1, <2>2
  <2>4. u = v
    BY <2>1, <2>2, <2>3, SeqEqual
  <2> QED
    BY <2>4 DEF u, v
<1> QED
  BY <1>1, <1>4

(* Of two values that are not both tables: whether they differ. *)
LEMMA WalkOfValues ==
  ASSUME NEW left \in Docs, NEW right \in Docs, ~(IsTable(left) /\ IsTable(right))
  PROVE  Walk[left][right] = IF left # right THEN {<<>>} ELSE {}
<1>1. Walk[left][right] = Unfold(Walk)[left][right]
  BY WalkUnfolds
<1> QED
  BY <1>1 DEF Unfold, Turns

(* Of two tables: what is reported for a key of either. *)
Both(left, right, s) == <<s>> \in DOMAIN left.table \cap DOMAIN right.table
Either(left, right, s) == <<s>> \in DOMAIN left.table \cup DOMAIN right.table
For(left, right, s, p) ==
  \/ /\ Both(left, right, s)
     /\ \E rest \in Walk[left.table[<<s>>]][right.table[<<s>>]] : p = <<s>> \o rest
  \/ Either(left, right, s) /\ ~Both(left, right, s) /\ p = <<s>>

LEMMA WalkOfTables ==
  ASSUME Undotted, NEW left \in TopTables, NEW right \in TopTables, NEW p
  PROVE  p \in Walk[left][right] <=> \E s : For(left, right, s, p)
<1>1. Walk[left][right] = Turns(Walk, left, right)
  <2>1. Walk[left][right] = Unfold(Walk)[left][right]
    BY WalkUnfolds
  <2> QED
    BY <2>1, Shapes DEF Unfold
<1> DEFINE Said(key) == IF key \in DOMAIN left.table \cap DOMAIN right.table
                          THEN {key \o rest : rest \in Walk[left.table[key]][right.table[key]]}
                          ELSE {key}
<1>2. Walk[left][right] = UNION {Said(key) : key \in DOMAIN left.table \cup DOMAIN right.table}
  BY <1>1, Shapes DEF Turns
<1>3. p \in Walk[left][right] <=>
        \E key \in DOMAIN left.table \cup DOMAIN right.table : p \in Said(key)
  BY <1>2
<1>4. \A key \in DOMAIN left.table \cup DOMAIN right.table : \E s : key = <<s>>
  BY Shapes DEF Undotted
<1>5. \A s : Either(left, right, s) /\ p \in Said(<<s>>) <=> For(left, right, s, p)
  BY DEF Either, Both, For
<1> HIDE DEF Said
<1> QED
  BY <1>3, <1>4, <1>5 DEF Either, For, Both

(* Of tables of values: the keys under which they differ. *)
LEMMA WalkOfInnerTables ==
  ASSUME Undotted, NoneIsNothing, NEW left \in InnerTables, NEW right \in InnerTables, NEW p
  PROVE  p \in Walk[left][right] <=> \E s : p = <<s>> /\ Differ(left, right, s)
<1>1. /\ left \in TopTables /\ right \in TopTables /\ IsTable(left) /\ IsTable(right)
      /\ left \in Docs /\ right \in Docs
  BY Shapes
<1> SUFFICES ASSUME NEW s
             PROVE  For(left, right, s, p) <=> p = <<s>> /\ Differ(left, right, s)
  BY <1>1, WalkOfTables
<1>2. CASE Both(left, right, s)
  <2>1. left.table[<<s>>] \in Leaves /\ right.table[<<s>>] \in Leaves
    BY <1>2, Shapes DEF Both
  <2>2. Walk[left.table[<<s>>]][right.table[<<s>>]] =
          IF left.table[<<s>>] # right.table[<<s>>] THEN {<<>>} ELSE {}
    BY <2>1, WalkOfValues, Shapes
  <2>3. <<s>> \o <<>> = <<s>>
    BY Joined
  <2>4. Below(left, s) = left.table[<<s>>] /\ Below(right, s) = right.table[<<s>>]
    BY <1>1, <1>2, BelowIsThere DEF Both
  <2> QED
    BY <1>2, <2>2, <2>3, <2>4 DEF Differ, For
<1>3. CASE ~Both(left, right, s)
  <2>1. Either(left, right, s) <=> Differ(left, right, s)
    BY <1>1, <1>3, BelowIsThere DEF Differ, Either, Both
  <2> QED
    BY <1>3, <2>1 DEF For
<1> QED
  BY <1>2, <1>3

(* Of the whole: a key under which they differ, or a path of two where both *)
(* have a table.                                                            *)
Moved(old, new, p) ==
  \/ \E s : p = <<s>> /\ Differ(old, new, s) /\ ~Tables(old, new, s)
  \/ \E s, t : /\ p = <<s, t>> /\ Tables(old, new, s)
               /\ Differ(Below(old, s), Below(new, s), t)

LEMMA WalkOfDocuments ==
  ASSUME Undotted, NoneIsNothing, NEW left \in TopTables, NEW right \in TopTables, NEW p
  PROVE  p \in Walk[left][right] <=> Moved(left, right, p)
<1>1. IsTable(left) /\ IsTable(right) /\ left \in Docs /\ right \in Docs
  BY Shapes
<1> DEFINE L(s) == Below(left, s)
           R(s) == Below(right, s)
           Under(s) == \/ p = <<s>> /\ Differ(left, right, s) /\ ~Tables(left, right, s)
                       \/ /\ Tables(left, right, s)
                          /\ \E t : p = <<s, t>> /\ Differ(L(s), R(s), t)
<1>2. ASSUME NEW s, Both(left, right, s) PROVE For(left, right, s, p) <=> Under(s)
  <2>1. L(s) = left.table[<<s>>] /\ R(s) = right.table[<<s>>]
    BY <1>1, <1>2, BelowIsThere DEF Both
  <2>2. left.table[<<s>>] \in Leaves \cup InnerTables /\ right.table[<<s>>] \in Leaves \cup InnerTables
    BY <1>2, Shapes DEF Both
  <2>3. L(s) \in Leaves \cup InnerTables /\ R(s) \in Leaves \cup InnerTables
    BY <2>1, <2>2
  <2>4. For(left, right, s, p) <=> \E rest \in Walk[L(s)][R(s)] : p = <<s>> \o rest
    BY <1>2, <2>1 DEF For
  <2> HIDE DEF L, R
  <2>5. CASE Tables(left, right, s)
    <3>1. L(s) \in InnerTables /\ R(s) \in InnerTables
      BY <2>5 DEF Tables, L, R
    <3>2. \A rest : rest \in Walk[L(s)][R(s)] <=> \E t : rest = <<t>> /\ Differ(L(s), R(s), t)
      BY <3>1, WalkOfInnerTables
    <3>3. \A t : <<s>> \o <<t>> = <<s, t>>
      BY Joined
    <3> QED
      BY <2>4, <2>5, <3>2, <3>3
  <2>6. CASE ~Tables(left, right, s)
    <3>1. ~(IsTable(L(s)) /\ IsTable(R(s)))
      BY <2>3, <2>6, Shapes DEF Tables, L, R
    <3>2. Walk[L(s)][R(s)] = IF L(s) # R(s) THEN {<<>>} ELSE {}
      BY <2>3, <3>1, WalkOfValues, Shapes
    <3>3. <<s>> \o <<>> = <<s>>
      BY Joined
    <3>4. L(s) # R(s) <=> Differ(left, right, s)
      BY DEF Differ, L, R
    <3> QED
      BY <2>4, <2>6, <3>2, <3>3, <3>4
  <2> QED
    BY <2>5, <2>6
<1>3. ASSUME NEW s, ~Both(left, right, s) PROVE For(left, right, s, p) <=> Under(s)
  <2>1. Nothing \notin InnerTables
    BY Shapes DEF NoneIsNothing
  <2>2. /\ ~Tables(left, right, s)
        /\ Either(left, right, s) <=> Differ(left, right, s)
    BY <1>1, <1>3, <2>1, BelowIsThere DEF Differ, Tables, Either, Both
  <2> QED
    BY <1>3, <2>2 DEF For
<1>4. \A s : For(left, right, s, p) <=> Under(s)
  <2> HIDE DEF Under
  <2> QED
    BY <1>2, <1>3
<1>5. (\E s : Under(s)) <=> Moved(left, right, p)
  BY Zenon DEF Moved
<1> HIDE DEF Under
<1> QED
  BY <1>4, <1>5, WalkOfTables
-----------------------------------------------------------------------------
(* What at() reads. *)

LEMMA Reading ==
  ASSUME NEW d, NEW n \in 1..3, NEW p, Len(p) = n
  PROVE  /\ n = 1 => at(d, p) = Below(d, p[1])
         /\ n = 2 => at(d, p) = Below(Below(d, p[1]), p[2])
         /\ n = 3 => at(d, p) = Below(Below(Below(d, p[1]), p[2]), p[3])
<1> DEFINE Onward(f) == [k \in 0..n |-> IF k = 0 THEN d ELSE Below(f[k - 1], p[k])]
           one == Below(d, p[1])
           two == Below(one, p[2])
           three == Below(two, p[3])
           g == [k \in 0..n |-> IF k = 0 THEN d ELSE IF k = 1 THEN one
                                ELSE IF k = 2 THEN two ELSE three]
<1>1. g = Onward(g)
  <2> SUFFICES ASSUME NEW k \in 0..n
               PROVE  g[k] = IF k = 0 THEN d ELSE Below(g[k - 1], p[k])
    OBVIOUS
  <2>1. k = 0 \/ k = 1 \/ k = 2 \/ k = 3
    OBVIOUS
  <2>2. CASE k = 0
    BY <2>2
  <2>3. CASE k = 1
    <3>1. g[0] = d
      OBVIOUS
    <3> QED
      BY <2>3, <3>1
  <2>4. CASE k = 2
    <3>1. g[1] = one
      BY <2>4
    <3> QED
      BY <2>4, <3>1
  <2>5. CASE k = 3
    <3>1. g[2] = two
      BY <2>5
    <3> QED
      BY <2>5, <3>1
  <2> QED
    BY <2>1, <2>2, <2>3, <2>4, <2>5
<1> DEFINE f == CHOOSE f : f = Onward(f)
<1>2. f = Onward(f)
  <2>1. \E h : h = Onward(h)
    BY <1>1
  <2> HIDE DEF Onward
  <2> QED
    BY <2>1
<1>3. at(d, p) = f[n]
  BY DEF at
<1> HIDE DEF f
<1>4. f[0] = d /\ \A k \in 1..n : f[k] = Below(f[k - 1], p[k])
  BY <1>2
<1>5. f[1] = one
  BY <1>4
<1>6. n \in {2, 3} => f[2] = two
  <2>1. n \in {2, 3} => f[2] = Below(f[2 - 1], p[2])
    BY <1>4
  <2> QED
    BY <1>5, <2>1
<1>7. n = 3 => f[3] = three
  <2>1. n = 3 => f[3] = Below(f[3 - 1], p[3])
    BY <1>4
  <2> QED
    BY <1>6, <2>1
<1> QED
  BY <1>3, <1>5, <1>6, <1>7
-----------------------------------------------------------------------------
(* The report is exact. *)

LEMMA Heads ==
  ASSUME NEW T, NEW p \in Seq(T), NEW q \in Seq(T), Len(p) <= Len(q)
  PROVE  p = SubSeq(q, 1, Len(p)) <=> \A i \in 1..Len(p) : p[i] = q[i]
<1>1. Len(p) \in Nat /\ Len(q) \in Nat
  BY LenProperties
<1>2. \A i \in 1..Len(p) : q[i] \in T
  <2>1. \A i \in 1..Len(p) : i \in 1..Len(q)
    BY <1>1
  <2> QED
    BY <2>1, ElementOfSeq
<1>3. PICK head : head = SubSeq(q, 1, Len(p))
  OBVIOUS
<1>4. /\ head \in Seq(T)
      /\ Len(head) = IF 1 <= Len(p) THEN Len(p) - 1 + 1 ELSE 0
      /\ \A i \in 1..(Len(p) - 1 + 1) : head[i] = q[1 + i - 1]
  <2>1. 1 \in Int /\ Len(p) \in Int
    BY <1>1
  <2> QED
    BY <1>2, <1>3, <2>1, SubSeqProperties
<1>5. Len(head) = Len(p)
  BY <1>1, <1>4
<1>6. \A i \in 1..Len(p) : head[i] = q[i]
  <2>1. \A i \in 1..Len(p) : i \in 1..(Len(p) - 1 + 1) /\ 1 + i - 1 = i
    BY <1>1
  <2> QED
    BY <1>4, <2>1
<1> QED
  BY <1>3, <1>4, <1>5, <1>6, SeqEqual

LEMMA WhatAPrefixIs ==
  ASSUME NEW T, NEW p \in Seq(T), NEW q \in Seq(T)
  PROVE  IsPrefix(p, q) <=> Len(p) <= Len(q) /\ \A i \in 1..Len(p) : p[i] = q[i]
<1>1. SubSeq(p, 1, Len(p)) = p
  BY SubSeqFull
<1>2. IsPrefix(p, q) <=> Len(p) <= Len(q) /\ p = SubSeq(q, 1, Len(p))
  BY <1>1, Zenon DEF IsPrefix
<1>3. CASE Len(p) <= Len(q)
  BY <1>2, <1>3, Heads
<1>4. CASE ~(Len(p) <= Len(q))
  BY <1>2, <1>4
<1> QED
  BY <1>3, <1>4

(* A path under which they differ is reported there, or above, or below.    *)
LEMMA TableDiffers ==
  ASSUME NoneIsNothing, Undotted, NEW left \in InnerTables, NEW right \in InnerTables, left # right
  PROVE  \E t : Differ(left, right, t)
<1>1. left \in TopTables /\ right \in TopTables
  BY Shapes
<1>2. left.table # right.table
  BY <1>1, Shapes
<1>3. \E key \in DOMAIN left.table \cup DOMAIN right.table :
        ~(key \in DOMAIN left.table /\ key \in DOMAIN right.table
           /\ left.table[key] = right.table[key])
  <2> SUFFICES ASSUME \A key \in DOMAIN left.table \cup DOMAIN right.table :
                        key \in DOMAIN left.table /\ key \in DOMAIN right.table
                        /\ left.table[key] = right.table[key]
               PROVE  FALSE
    BY Zenon
  <2>1. DOMAIN left.table = DOMAIN right.table
    OBVIOUS
  <2>2. /\ left.table = [key \in DOMAIN left.table |-> left.table[key]]
        /\ right.table = [key \in DOMAIN right.table |-> right.table[key]]
    BY <1>1, Shapes
  <2> QED
    BY <1>2, <2>1, <2>2
<1>4. PICK key \in DOMAIN left.table \cup DOMAIN right.table :
        ~(key \in DOMAIN left.table /\ key \in DOMAIN right.table
           /\ left.table[key] = right.table[key])
  BY <1>3
<1>5. PICK t : key = <<t>>
  BY <1>1, Shapes DEF Undotted
<1>6. IsTable(left) /\ IsTable(right) /\ left \in Docs /\ right \in Docs
  BY <1>1, Shapes
<1>7. Differ(left, right, t)
  BY <1>4, <1>5, <1>6, BelowIsThere DEF Differ
<1> QED
  BY <1>7

(* The paths of a report, seen as sequences. *)
LEMMA PathsAreSequences ==
  ASSUME Undotted, NoneIsNothing, NEW left \in TopTables, NEW right \in TopTables,
         NEW s, Differ(left, right, s)
  PROVE  /\ s \in Segments
         /\ Tables(left, right, s) =>
              \A t : Differ(Below(left, s), Below(right, s), t) => t \in Segments
<1>1. \A d \in Docs : \A t : Below(d, t) # Nothing => t \in Segments
  <2> SUFFICES ASSUME NEW d \in Docs, NEW t, Below(d, t) # Nothing PROVE t \in Segments
    OBVIOUS
  <2>1. IsTable(d) /\ <<t>> \in DOMAIN d.table
    BY BelowIsThere
  <2>2. <<t>> \in Keys
    BY <2>1, Shapes
  <2>3. t \in ToSet(<<t>>)
    <3>1. <<t>>[1] = t /\ 1 \in DOMAIN <<t>>
      OBVIOUS
    <3> QED
      BY <3>1 DEF ToSet
  <2> QED
    BY <2>2, <2>3 DEF Segments
<1>2. left \in Docs /\ right \in Docs
  BY Shapes
<1>3. Below(left, s) # Nothing \/ Below(right, s) # Nothing
  BY DEF Differ
<1>4. ASSUME Tables(left, right, s), NEW t, Differ(Below(left, s), Below(right, s), t)
      PROVE  t \in Segments
  <2>1. Below(left, s) \in Docs /\ Below(right, s) \in Docs
    BY <1>4, Shapes DEF Tables
  <2>2. \/ Below(Below(left, s), t) # Nothing
        \/ Below(Below(right, s), t) # Nothing
    BY <1>4 DEF Differ
  <2> QED
    BY <1>1, <2>1, <2>2
<1> QED
  BY <1>1, <1>2, <1>3, <1>4

(* With no document yet, at() reads as from an empty one. *)
LEMMA OrEmptyIsThere ==
  ASSUME NoneIsNothing, TypeOK
  PROVE  /\ OrEmpty(before) \in TopTables /\ OrEmpty(after) = after /\ after \in TopTables
         /\ \A s : Below(before, s) = Below(OrEmpty(before), s)
<1>1. OrEmpty(after) = after /\ after \in TopTables
  BY Shapes DEF TypeOK, OrEmpty, NoneIsNothing
<1>2. CASE before = Nothing
  <2>1. OrEmpty(before) = [table |-> <<>>]
    BY <1>2 DEF OrEmpty
  <2>2. <<>> \in TablesOf(Leaves \cup InnerTables)
    <3>1. <<>> \in [{} -> Leaves \cup InnerTables] /\ {} \in SUBSET Keys
      OBVIOUS
    <3> QED
      BY <3>1 DEF TablesOf
  <2>3. OrEmpty(before) \in TopTables
    BY <2>1, <2>2 DEF TopTables
  <2>4. \A s : Below(OrEmpty(before), s) = Nothing
    <3>1. OrEmpty(before).table = <<>> /\ \A s : <<s>> \notin DOMAIN <<>>
      BY <2>1
    <3> QED
      BY <3>1 DEF Below
  <2>5. \A s : Below(before, s) = Nothing
    BY <1>2 DEF Below
  <2> QED
    BY <1>1, <2>3, <2>4, <2>5
<1>3. CASE before # Nothing
  BY <1>1, <1>3 DEF TypeOK, OrEmpty
<1> QED
  BY <1>2, <1>3

LEMMA UnderAKey ==
  ASSUME NEW T, NEW s \in T, NEW t \in T, NEW q \in Seq(T)
  PROVE  /\ IsPrefix(<<s>>, q) <=> Len(q) >= 1 /\ q[1] = s
         /\ IsPrefix(<<s, t>>, q) <=> Len(q) >= 2 /\ q[1] = s /\ q[2] = t
<1>1. Len(q) \in Nat
  BY LenProperties
<1>2. IsPrefix(<<s>>, q) <=> Len(q) >= 1 /\ q[1] = s
  <2>1. <<s>> \in Seq(T) /\ Len(<<s>>) = 1 /\ <<s>>[1] = s
    OBVIOUS
  <2>2. \A p \in Seq(T) : IsPrefix(p, q) <=>
          Len(p) <= Len(q) /\ \A i \in 1..Len(p) : p[i] = q[i]
    BY WhatAPrefixIs
  <2>3. IsPrefix(<<s>>, q) <=>
          Len(<<s>>) <= Len(q) /\ \A i \in 1..Len(<<s>>) : <<s>>[i] = q[i]
    BY <2>1, <2>2, Zenon
  <2> QED
    BY <1>1, <2>1, <2>3
<1>3. IsPrefix(<<s, t>>, q) <=> Len(q) >= 2 /\ q[1] = s /\ q[2] = t
  <2>1. <<s, t>> \in Seq(T) /\ Len(<<s, t>>) = 2 /\ <<s, t>>[1] = s /\ <<s, t>>[2] = t
    OBVIOUS
  <2>2. \A p \in Seq(T) : IsPrefix(p, q) <=>
          Len(p) <= Len(q) /\ \A i \in 1..Len(p) : p[i] = q[i]
    BY WhatAPrefixIs
  <2>3. IsPrefix(<<s, t>>, q) <=>
          Len(<<s, t>>) <= Len(q) /\ \A i \in 1..Len(<<s, t>>) : <<s, t>>[i] = q[i]
    BY <2>1, <2>2, Zenon
  <2> QED
    BY <1>1, <2>1, <2>3
<1> QED
  BY <1>2, <1>3

(***************************************************************************)
(* Whatever the document before an install, the report says exactly what   *)
(* moved: this is changedPaths() against what at() reads from either side. *)
(* Of a first document it says nothing.                                    *)
(***************************************************************************)
THEOREM ReportsAreExact ==
  ASSUME Undotted, NoneIsNothing, TypeOK
  PROVE  ReportIsExact
<1> DEFINE old == OrEmpty(before)
           new == after
           moved == changedPaths(before, after)
<1>1. /\ old \in TopTables /\ new \in TopTables
      /\ \A s : Below(before, s) = Below(old, s)
  BY OrEmptyIsThere
<1>2. \A p : p \in moved <=> Moved(old, new, p)
  <2>1. \A p : p \in Walk[old][new] <=> Moved(old, new, p)
    BY <1>1, WalkOfDocuments
  <2>2. moved = Walk[old][new] \ {<<>>}
    BY OrEmptyIsThere DEF changedPaths
  <2>3. ~Moved(old, new, <<>>)
    BY DEF Moved
  <2> QED
    BY <2>1, <2>2, <2>3
<1>3. \A s : Differ(old, new, s) => s \in Segments
  BY <1>1, PathsAreSequences
<1>4. \A s, t : Tables(old, new, s) /\ Differ(Below(old, s), Below(new, s), t)
                => Differ(old, new, s) /\ s \in Segments /\ t \in Segments
  <2>1. \A s, t : Differ(Below(old, s), Below(new, s), t) => Differ(old, new, s)
    BY DEF Differ
  <2> QED
    BY <1>1, <1>3, <2>1, PathsAreSequences
<1> HIDE DEF old, new, moved
<1>5. ASSUME NEW p \in moved PROVE at(before, p) # at(after, p)
  <2>1. CASE \E s : p = <<s>> /\ Differ(old, new, s)
    <3>1. PICK s : p = <<s>> /\ Differ(old, new, s)
      BY <2>1
    <3>2. Len(p) = 1 /\ p[1] = s
      BY <3>1
    <3>3. at(before, p) = Below(before, s) /\ at(after, p) = Below(after, s)
      BY <3>2, Reading
    <3> QED
      BY <1>1, <3>1, <3>3 DEF Differ, new
  <2>2. CASE \E s, t : p = <<s, t>> /\ Differ(Below(old, s), Below(new, s), t)
    <3>1. PICK s, t : p = <<s, t>> /\ Differ(Below(old, s), Below(new, s), t)
      BY <2>2
    <3>2. Len(p) = 2 /\ p[1] = s /\ p[2] = t
      BY <3>1
    <3>3. at(before, p) = Below(Below(before, s), t) /\ at(after, p) = Below(Below(after, s), t)
      BY <3>2, Reading
    <3> QED
      BY <1>1, <3>1, <3>3 DEF Differ, new
  <2> QED
    BY <1>2, <2>1, <2>2 DEF Moved
<1>6. ASSUME NEW p \in moved, NEW q \in moved, IsPrefix(p, q) PROVE p = q
  <2>1. /\ q \in Seq(Segments)
        /\ \/ \E s : q = <<s>> /\ ~Tables(old, new, s)
           \/ \E s, t : q = <<s, t>> /\ Tables(old, new, s)
    <3>1. Moved(old, new, q)
      BY <1>2
    <3>2. CASE \E s : q = <<s>> /\ s \in Segments /\ ~Tables(old, new, s)
      BY <3>2
    <3>3. CASE \E s, t : /\ q = <<s, t>> /\ s \in Segments /\ t \in Segments
                         /\ Tables(old, new, s)
      BY <3>3
    <3> QED
      BY <3>1, <3>2, <3>3, <1>3, <1>4 DEF Moved
  <2>2. CASE \E s \in Segments : p = <<s>> /\ ~Tables(old, new, s)
    <3>1. PICK s \in Segments : p = <<s>> /\ ~Tables(old, new, s)
      BY <2>2
    <3>2. q[1] = s
      BY <1>6, <2>1, <3>1, UnderAKey
    <3> QED
      BY <2>1, <3>1, <3>2
  <2>3. CASE \E s, t \in Segments : p = <<s, t>>
    <3>1. PICK s \in Segments, t \in Segments : p = <<s, t>>
      BY <2>3
    <3>2. Len(q) >= 2 /\ q[1] = s /\ q[2] = t
      BY <1>6, <2>1, <3>1, UnderAKey
    <3>3. \A u : Len(<<u>>) = 1
      OBVIOUS
    <3> QED
      BY <2>1, <3>1, <3>2, <3>3
  <2> QED
    BY <1>2, <1>3, <1>4, <2>2, <2>3 DEF Moved
<1>7. ASSUME NEW p \in Paths, at(before, p) # at(after, p)
      PROVE  \E q \in moved : Comparable(p, q)
  <2>1. PICK n \in 1..3 : p \in [1..n -> Segments]
    BY <1>7 DEF Paths
  <2>2. /\ p \in Seq(Segments) /\ Len(p) = n /\ p[1] \in Segments
        /\ n >= 2 => p[2] \in Segments
    BY <2>1
  <2> DEFINE s == p[1]
             t == p[2]
  <2>3. /\ n = 1 => at(before, p) = Below(before, s) /\ at(after, p) = Below(after, s)
        /\ n = 2 => /\ at(before, p) = Below(Below(before, s), t)
                    /\ at(after, p) = Below(Below(after, s), t)
        /\ n = 3 => /\ at(before, p) = Below(Below(Below(before, s), t), p[3])
                    /\ at(after, p) = Below(Below(Below(after, s), t), p[3])
    BY <2>2, Reading
  <2>4. s = p[1] /\ t = p[2] /\ s \in Segments /\ (n >= 2 => t \in Segments)
    BY <2>2
  <2> HIDE DEF s, t
  <2>5. Differ(old, new, s)
    BY <1>1, <1>7, <2>3 DEF Differ, new
  <2>6. n >= 2 => Differ(Below(old, s), Below(new, s), t)
    BY <1>1, <1>7, <2>3 DEF Differ, new
  <2>7. CASE ~Tables(old, new, s)
    <3>1. <<s>> \in moved
      BY <1>2, <2>5, <2>7 DEF Moved
    <3>2. IsPrefix(<<s>>, p)
      <4>1. Len(p) >= 1
        BY <2>2
      <4> QED
        BY <2>2, <2>4, <4>1, UnderAKey
    <3> QED
      BY <3>1, <3>2 DEF Comparable
  <2>8. CASE Tables(old, new, s) /\ n >= 2
    <3>1. <<s, t>> \in moved
      BY <1>2, <2>6, <2>8 DEF Moved
    <3>2. IsPrefix(<<s, t>>, p)
      <4>1. Len(p) >= 2 /\ p[1] = s /\ p[2] = t /\ s \in Segments /\ t \in Segments
        BY <2>2, <2>4, <2>8
      <4>2. p \in Seq(Segments)
        BY <2>2
      <4>3. \A a, b \in Segments :
              IsPrefix(<<a, b>>, p) <=> Len(p) >= 2 /\ p[1] = a /\ p[2] = b
        BY <4>2, UnderAKey
      <4> QED
        BY <4>1, <4>3, Zenon
    <3> QED
      BY <3>1, <3>2 DEF Comparable
  <2>9. CASE Tables(old, new, s) /\ n = 1
    <3>1. PICK u : Differ(Below(old, s), Below(new, s), u)
      BY <2>5, <2>9, TableDiffers DEF Tables, Differ
    <3>2. <<s, u>> \in moved /\ s \in Segments /\ u \in Segments
      BY <1>2, <1>4, <2>9, <3>1 DEF Moved
    <3>3. p = <<s>>
      BY <2>1, <2>2, <2>9 DEF s
    <3>4. IsPrefix(p, <<s, u>>)
      <4>1. <<s, u>> \in Seq(Segments) /\ Len(<<s, u>>) >= 1 /\ <<s, u>>[1] = s
        BY <3>2
      <4> QED
        BY <3>2, <3>3, <4>1, UnderAKey
    <3> QED
      BY <3>2, <3>4 DEF Comparable
  <2> QED
    BY <2>7, <2>8, <2>9
<1>8. CASE before = Nothing
  <2>1. Reported(before, after) = {}
    BY <1>8 DEF Reported
  <2> QED
    BY <1>8, <2>1 DEF ReportIsExact
<1>9. CASE before # Nothing
  <2>1. Reported(before, after) = moved
    BY <1>9 DEF Reported, moved
  <2> QED
    BY <1>5, <1>6, <1>7, <2>1 DEF ReportIsExact
<1> QED
  BY <1>8, <1>9
=============================================================================
