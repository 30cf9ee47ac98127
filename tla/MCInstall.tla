------------------------------ MODULE MCInstall ------------------------------
(* Small instances of Install: which threads there are and what they do.   *)
EXTENDS Install, TLC

CONSTANTS w1, w2,   \* workers of libuv's pool
          watcher,  \* the file watcher's thread
          loop,     \* the event loop
          a, b, c   \* trees

(* Loads of every kind on two workers, commits and replaces on the loop. *)
EverythingDoes == (w1 :> {"init", "reload", "load", "prepare"}) @@ (w2 :> {"load", "prepare"})
                    @@ (loop :> {"commit", "replace"})

(* No prepared commits: reloads, candidates and replaces. *)
ReloadsDo == (w1 :> {"init", "reload", "load"}) @@ (w2 :> {"reload", "load"})
               @@ (loop :> {"replace"})

(* Two installers that overlap, and a candidate load between them. *)
OverlapDoes == (w1 :> {"reload", "load"}) @@ (watcher :> {"watch"}) @@ (loop :> {"replace"})

(* As many installers as there are threads. *)
CrowdDoes == (w1 :> {"reload"}) @@ (w2 :> {"reload"}) @@ (watcher :> {"watch"})

(* A group's use of one member: prepares that are committed or discarded. *)
GroupDoes == (w1 :> {"reload", "prepare"}) @@ (loop :> {"commit"})

(* The watcher beside a program that reloads, nothing else. *)
WatchedDoes == (w1 :> {"reload"}) @@ (watcher :> {"watch"})
=============================================================================
