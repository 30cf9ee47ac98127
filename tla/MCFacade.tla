------------------------------ MODULE MCFacade ------------------------------
(* Small instances of Facade.                                              *)
EXTENDS Facade, TLC

CONSTANTS w1, watcher, loop, a, b

(* A program that awaits its reloads and replaces documents in between. *)
AwaitedDoes == (w1 :> {"init", "reload", "load"}) @@ (loop :> {"replace"})

(* A program that replaces while the watcher reloads. *)
ReplacedDoes == (watcher :> {"watch"}) @@ (loop :> {"replace"})
=============================================================================
