------------------------------ MODULE Publication ------------------------------
(***************************************************************************)
(* What a configuration promises those who read it and those who listen:   *)
(* one document at a time, accepted or handed in as it is, each written,   *)
(* counted and announced before the next one is written, and never a       *)
(* validation that an announced one has overtaken.                         *)
(*                                                                         *)
(* No threads, no engine, no staging area: Install is shown to implement   *)
(* this for a program that awaits its operations.                          *)
(***************************************************************************)
EXTENDS Integers, Sequences

CONSTANTS
  Documents,  \* what can be published
  Valid,      \* the trees the validator may accept
  NoDoc       \* nothing published yet

VARIABLES
  document,    \* the document a reader is given
  generation,  \* the number of documents written
  announced,   \* the documents handed to the hooks, in order
  stage        \* how far the last document written has come

state == <<document, generation, announced, stage>>

Init ==
  /\ document = NoDoc /\ generation = 0
  /\ announced = <<>> /\ stage = "announced"

(* A validation that was accepted, no candidate's, and not overtaken; or a *)
(* document handed to replace().                                           *)
MayFollow(d) ==
  \/ d.by = "replace"
  \/ /\ d.by # "load" /\ d.tree \in Valid
     /\ \A i \in DOMAIN announced : announced[i].sequence < d.sequence

Write ==
  /\ stage = "announced" /\ stage' = "written"
  /\ document' \in Documents /\ MayFollow(document')
  /\ UNCHANGED <<generation, announced>>

Count ==
  /\ stage = "written" /\ stage' = "counted"
  /\ generation' = generation + 1
  /\ UNCHANGED <<document, announced>>

Announce ==
  /\ stage = "counted" /\ stage' = "announced"
  /\ announced' = Append(announced, document)
  /\ UNCHANGED <<document, generation>>

Next == Write \/ Count \/ Announce

Spec == Init /\ [][Next]_state
=============================================================================
