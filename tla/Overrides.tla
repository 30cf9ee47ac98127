------------------------------ MODULE Overrides ------------------------------
(***************************************************************************)
(* `overrides(values, body)` (index.js): pins for the duration of a block. *)
(* A block takes note of the pins it finds, adds its own, reloads, runs    *)
(* its body, puts back what it found and reloads again.  The two reloads   *)
(* and the body are awaited; what lies between them runs without a break.  *)
(*                                                                         *)
(* `#overrides` of the facade and the override layer of the native half    *)
(* are written together, so one variable stands for both.                  *)
(***************************************************************************)
EXTENDS Integers, SequencesExt

CONSTANTS
  Blocks,      \* the blocks a program runs
  Paths,       \* the paths that can be pinned
  Pins,        \* Pins[b]: the paths block b pins, each to a value of its own
  Refusals,    \* TRUE if the layer may refuse to pin a path
  Concurrent   \* TRUE if a block may begin or end while another is inside it

Program == "program"   \* a pin the program made outside any block
Nobody == "nobody"     \* no pin: the sources decide

VARIABLES
  pinned,   \* whose pin each path has: the layer
  served,   \* whose pin the document in force was resolved with
  at,       \* at[b]: where block b is
  before,   \* before[b]: the pins it found
  open,     \* the blocks under way, the innermost last
  found,    \* history: the pins before any block ran
  unread    \* history: TRUE once a block ended in a reload that failed

vars == <<pinned, served, at, before, open, found, unread>>

Pinning == [Paths -> Blocks \cup {Program, Nobody}]

TypeOK ==
  /\ {pinned, served, found} \subseteq Pinning /\ before \in [Blocks -> Pinning]
  /\ at \in [Blocks -> {"ready", "entering", "body", "leaving", "done", "refused"}]
  /\ open \in Seq(Blocks) /\ unread \in BOOLEAN
  /\ \A b \in Blocks : at[b] \in {"entering", "body", "leaving"} <=>
       \E i \in DOMAIN open : open[i] = b

Init ==
  /\ found \in [Paths -> {Program, Nobody}]
  /\ pinned = found /\ served = found
  /\ at = [b \in Blocks |-> "ready"]
  /\ before = [b \in Blocks |-> found]
  /\ open = <<>> /\ unread = FALSE

-----------------------------------------------------------------------------
With(pins, paths, b) == [p \in Paths |-> IF p \in paths THEN b ELSE pins[p]]

(* A program whose blocks nest starts one in the body of the innermost.    *)
Innermost(b) == open # <<>> /\ open[Len(open)] = b
MayBegin == Concurrent \/ (open # <<>> => at[open[Len(open)]] = "body")
MayStep(b) == Concurrent \/ Innermost(b)

(* The pins, one by one, and the call of reload(). *)
Enter(b) ==
  /\ at[b] = "ready" /\ MayBegin
  /\ before' = [before EXCEPT ![b] = pinned]
  /\ pinned' = With(pinned, Pins[b], b)
  /\ at' = [at EXCEPT ![b] = "entering"]
  /\ open' = Append(open, b)
  /\ UNCHANGED <<served, found, unread>>

(* The layer refuses one of them: the call throws before its `try`, with   *)
(* the pins made so far in place.                                          *)
EnterRefused(b) ==
  /\ Refusals /\ at[b] = "ready" /\ MayBegin
  /\ \E refused \in Pins[b] : \E made \in SUBSET (Pins[b] \ {refused}) :
       pinned' = With(pinned, made, b)
  /\ at' = [at EXCEPT ![b] = "refused"]
  /\ UNCHANGED <<served, before, open, found, unread>>

(* A mistake: the body runs on the document there is. *)
EnteredUnloaded(b) ==
  /\ at[b] = "entering" /\ MayStep(b)
  /\ at' = [at EXCEPT ![b] = "body"]
  /\ UNCHANGED <<pinned, served, before, open, found, unread>>

(* The reload resolves the layers as they are by then. *)
Entered(b) ==
  /\ at[b] = "entering" /\ MayStep(b)
  /\ served' = pinned
  /\ at' = [at EXCEPT ![b] = "body"]
  /\ UNCHANGED <<pinned, before, open, found, unread>>

(* A mistake: the layer is emptied. *)
LeaveEmpty(b) ==
  /\ at[b] \in {"entering", "body"} /\ MayStep(b)
  /\ pinned' = [p \in Paths |-> Nobody]
  /\ at' = [at EXCEPT ![b] = "leaving"]
  /\ UNCHANGED <<served, before, open, found, unread>>

(* The finally block: the first reload failed, or the body returned or     *)
(* threw.  The layer is cleared, what was found goes in again.             *)
Leave(b) ==
  /\ at[b] \in {"entering", "body"} /\ MayStep(b)
  /\ pinned' = before[b]
  /\ at' = [at EXCEPT ![b] = "leaving"]
  /\ UNCHANGED <<served, before, open, found, unread>>

Ends(b) ==
  /\ at[b] = "leaving" /\ MayStep(b)
  /\ at' = [at EXCEPT ![b] = "done"]
  /\ \E i \in DOMAIN open : open[i] = b /\ open' = RemoveAt(open, i)

Left(b) == Ends(b) /\ served' = pinned /\ UNCHANGED <<pinned, before, found, unread>>

(* The second reload failed; the failure is swallowed. *)
LeftUnread(b) ==
  /\ Ends(b)
  /\ unread' = TRUE
  /\ UNCHANGED <<pinned, served, before, found>>

Next ==
  \E b \in Blocks :
    \/ Enter(b) \/ EnterRefused(b) \/ Entered(b)
    \/ Leave(b) \/ Left(b) \/ LeftUnread(b)

Spec == Init /\ [][Next]_vars

-----------------------------------------------------------------------------
(***************************************************************************)
(* "Puts them back after": once no block is under way the pins are those   *)
(* the program had made before the first, and so is the document, however  *)
(* the blocks nested and whichever reloads or bodies failed, provided the  *)
(* layer took every pin and the reloads on the way out went through.       *)
(***************************************************************************)
NoneRefused == \A b \in Blocks : at[b] # "refused"

PinsAreRestored ==
  NoneRefused /\ open = <<>> => pinned = found /\ (~unread => served = found)

(***************************************************************************)
(* The body of the innermost block runs on a document resolved with every  *)
(* pin of that block, also after blocks inside it came and went.           *)
(***************************************************************************)
BodySeesItsPins ==
  ~unread /\ NoneRefused =>
    \A b \in Blocks : Innermost(b) /\ at[b] = "body" =>
      \A p \in Pins[b] : served[p] = b
=============================================================================
