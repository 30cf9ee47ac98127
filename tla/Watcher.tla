------------------------------- MODULE Watcher -------------------------------
(***************************************************************************)
(* Who owns the file watcher: watch(), stopWatching() and running() of a   *)
(* configuration and of a group (index.js), and the one slot a             *)
(* configuration has for the handle of its watcher (config.rs).            *)
(*                                                                         *)
(* A lifetime is a watch({ signal }) or a running() block; it covers one   *)
(* configuration or the members of a group, in their order.  Everything    *)
(* here is synchronous on the loop; lifetimes begin and end in any order.  *)
(***************************************************************************)
EXTENDS Integers, Sequences, FiniteSets

CONSTANTS
  Members,    \* the configurations
  Lifetimes,  \* the lifetimes of a program
  Blocks,     \* those that are running() blocks; the others have a signal
  Covers,     \* Covers[l]: the members lifetime l watches, in order
  Failing     \* the members whose watch() may fail

VARIABLES
  slot,      \* slot[m]: the lifetime whose watcher m runs, or None
  listens,   \* listens[l]: the members an abort of l's signal will stop
  at,        \* at[l]: where lifetime l is
  reached    \* history: the members whose watch() lifetime l got through

vars == <<slot, listens, at, reached>>

None == "none"
Over(l) == {Covers[l][i] : i \in DOMAIN Covers[l]}

TypeOK ==
  /\ slot \in [Members -> Lifetimes \cup {None}]
  /\ {listens, reached} \subseteq [Lifetimes -> SUBSET Members]
  /\ at \in [Lifetimes -> {"ready", "on", "threw", "over"}]
  /\ \A l \in Lifetimes : listens[l] \subseteq reached[l] /\ reached[l] \subseteq Over(l)

Init ==
  /\ slot = [m \in Members |-> None]
  /\ listens = [l \in Lifetimes |-> {}]
  /\ at = [l \in Lifetimes |-> "ready"]
  /\ reached = [l \in Lifetimes |-> {}]

-----------------------------------------------------------------------------
First(l, n) == {Covers[l][i] : i \in 1..n}
Given(s, members, whose) == [m \in Members |-> IF m \in members THEN whose ELSE s[m]]

(* watch() on the first n members; the handle of a watcher that was there  *)
(* is dropped, which ends it.  Only a signal leaves a listener behind.     *)
Started(l, n) ==
  /\ slot' = Given(slot, First(l, n), l)
  /\ listens' = [listens EXCEPT ![l] = IF l \in Blocks THEN {} ELSE First(l, n)]
  /\ reached' = [reached EXCEPT ![l] = First(l, n)]

Begin(l) ==
  /\ at[l] = "ready"
  /\ Started(l, Len(Covers[l]))
  /\ at' = [at EXCEPT ![l] = "on"]

(* A member refuses and the call throws: a block before its `try`. *)
BeginFails(l) ==
  /\ at[l] = "ready"
  /\ \E n \in DOMAIN Covers[l] : Covers[l][n] \in Failing /\ Started(l, n - 1)
  /\ at' = [at EXCEPT ![l] = "threw"]

(* The signal had aborted: each watcher is stopped as soon as it started. *)
BeginAborted(l) ==
  /\ at[l] = "ready" /\ l \notin Blocks
  /\ slot' = Given(slot, Over(l), None)
  /\ at' = [at EXCEPT ![l] = "over"]
  /\ reached' = [reached EXCEPT ![l] = Over(l)]
  /\ UNCHANGED listens

(* A mistake: what a block started is stopped when its body returns, and   *)
(* not when it throws.                                                     *)
BodyReturns(l) ==
  /\ l \in Blocks /\ at[l] = "on"
  /\ \E threw \in BOOLEAN :
       slot' = IF threw THEN slot ELSE Given(slot, Over(l), None)
  /\ at' = [at EXCEPT ![l] = "over"]
  /\ UNCHANGED <<listens, reached>>

(* The `finally` of a block: stopWatching() on every member. *)
BodyEnds(l) ==
  /\ l \in Blocks /\ at[l] = "on"
  /\ slot' = Given(slot, Over(l), None)
  /\ at' = [at EXCEPT ![l] = "over"]
  /\ UNCHANGED <<listens, reached>>

(* The signal aborts: every listener calls stopWatching(), once. *)
Abort(l) ==
  /\ l \notin Blocks /\ at[l] \in {"on", "threw"}
  /\ slot' = Given(slot, listens[l], None)
  /\ listens' = [listens EXCEPT ![l] = {}]
  /\ at' = [at EXCEPT ![l] = "over"]
  /\ UNCHANGED reached

(* stopWatching(), by anybody, at any time. *)
StopWatching(m) ==
  /\ slot' = [slot EXCEPT ![m] = None]
  /\ UNCHANGED <<listens, at, reached>>

Next ==
  \/ \E l \in Lifetimes :
       Begin(l) \/ BeginFails(l) \/ BeginAborted(l) \/ BodyEnds(l) \/ Abort(l)
  \/ \E m \in Members : StopWatching(m)

Spec == Init /\ [][Next]_vars

-----------------------------------------------------------------------------
(* A signal is there until it aborts, whatever watch() did; a block is over *)
(* when it has thrown as well as when its body has ended.                  *)
Ended(l) == at[l] = "over" \/ (l \in Blocks /\ at[l] = "threw")

(* A block whose members can only refuse before any of them was watched:   *)
(* always so for a configuration's own block, not for a group's.           *)
FirstsFail ==
  \A l \in Blocks : \A n \in DOMAIN Covers[l] : n > 1 => Covers[l][n] \notin Failing

(***************************************************************************)
(* No watcher outlives the lifetime that started it: "the watcher cannot   *)
(* be left running by an exception on the way out", "whatever owns the     *)
(* lifetime owns the streams tied to it".  A block that throws because     *)
(* watch() did is over too.                                                *)
(***************************************************************************)
NoneOutlivesItsLifetime ==
  \A m \in Members : slot[m] # None => ~Ended(slot[m])
=============================================================================
