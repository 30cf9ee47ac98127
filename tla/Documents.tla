------------------------------ MODULE Documents ------------------------------
(***************************************************************************)
(* What moved between two documents: changedPaths() and at() of index.js,  *)
(* from which events() reports an install and onChange() and get() read.   *)
(*                                                                         *)
(* A path is the sequence of its segments, and so is a key: one with a dot *)
(* in it has two.  An array is a value, compared whole as the code does.   *)
(***************************************************************************)
EXTENDS Integers, SequencesExt

CONSTANTS
  Keys,     \* the keys a table may have
  Values,   \* the values that are not tables
  Nothing   \* undefined: no document, no value

Segments == UNION {ToSet(key) : key \in Keys}

(* Documents of two levels. *)
Leaves == [value : Values]
TablesOf(S) == UNION {[keys -> S] : keys \in SUBSET Keys}
InnerTables == [table : TablesOf(Leaves)]
TopTables == [table : TablesOf(Leaves \cup InnerTables)]

VARIABLES before, after  \* the documents of the last install and of this one

vars == <<before, after>>

TypeOK == before \in TopTables \cup {Nothing} /\ after \in TopTables

Init == before = Nothing /\ after \in TopTables

(* Bound: one install after the first; a report depends on two documents. *)
Install ==
  /\ before = Nothing
  /\ before' = after /\ after' \in TopTables

Spec == Init /\ [][Install]_vars

-----------------------------------------------------------------------------
IsTable(d) == "table" \in DOMAIN d

Docs == TopTables \cup Leaves \cup InnerTables

(* A mistake: a key the new document alone has is not looked for. *)
WalkOld ==
  LET walk[left \in Docs] == [right \in Docs |->
        IF ~IsTable(left) \/ ~IsTable(right)
          THEN IF left # right THEN {<<>>} ELSE {}
          ELSE UNION {
            IF key \in DOMAIN right.table
              THEN {key \o rest : rest \in walk[left.table[key]][right.table[key]]}
              ELSE {key} : key \in DOMAIN left.table}]
  IN walk

(* The paths that differ: through tables, key by key of either side. *)
Walk ==
  LET walk[left \in Docs] == [right \in Docs |->
        IF ~IsTable(left) \/ ~IsTable(right)
          THEN IF left # right THEN {<<>>} ELSE {}
          ELSE UNION {
            IF key \in DOMAIN left.table \cap DOMAIN right.table
              THEN {key \o rest : rest \in walk[left.table[key]][right.table[key]]}
              ELSE {key} : key \in DOMAIN left.table \cup DOMAIN right.table}]
  IN walk

OrEmpty(d) == IF d = Nothing THEN [table |-> <<>>] ELSE d

changedPaths(old, new) == Walk[OrEmpty(old)][OrEmpty(new)] \ {<<>>}

(* What events() says of an install: nothing, when no document was before. *)
Reported(old, new) == IF old = Nothing THEN {} ELSE changedPaths(old, new)

Below(current, segment) ==
  IF current = Nothing \/ ~IsTable(current) \/ <<segment>> \notin DOMAIN current.table
    THEN Nothing ELSE current.table[<<segment>>]

(* One segment at a time, through tables. *)
at(document, path) ==
  LET current[n \in 0..Len(path)] ==
        IF n = 0 THEN document ELSE Below(current[n - 1], path[n])
  IN current[Len(path)]

-----------------------------------------------------------------------------
Paths == UNION {[1..n -> Segments] : n \in 1..3}

Comparable(p, q) == IsPrefix(p, q) \/ IsPrefix(q, p)

(***************************************************************************)
(* The paths an install reports are the ones whose values moved: at each   *)
(* the two documents differ, no reported path lies under another, and      *)
(* wherever two documents differ the report says so, there, above or       *)
(* below.  A listener that watches a path by this report misses nothing    *)
(* after the first document, of which it is told nothing.                  *)
(***************************************************************************)
ReportIsExact ==
  LET moved == Reported(before, after) IN
    /\ \A p \in moved : at(before, p) # at(after, p)
    /\ \A p, q \in moved : IsPrefix(p, q) => p = q
    /\ before # Nothing =>
         \A p \in Paths : at(before, p) # at(after, p) => \E q \in moved : Comparable(p, q)
=============================================================================
