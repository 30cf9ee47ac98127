----------------------------- MODULE StoreWatch -----------------------------
(***************************************************************************)
(* The watch of a store of the remote package: `Watching` of watching.rs.  *)
(* A thread of its own is inside the store's client for most of its life,  *)
(* and queues what it learns for two callbacks on the event loop; stop()   *)
(* sets a flag and resolves when a worker has joined that thread.          *)
(*                                                                         *)
(* The clients are not in the repository.  A blocking one looks at the     *)
(* flag between its requests, a streaming one is dropped when the thread's *)
(* poll sees it; either way a document may still come in after the flag    *)
(* was set and before it was seen.                                         *)
(***************************************************************************)
EXTENDS Integers, Sequences

CONSTANTS
  Stops,     \* the calls of stop()
  Mints,     \* TRUE if the watch asks the loop for a credential first
  MaxMoves   \* bound: the documents the store comes to hold

VARIABLES
  thread,     \* where the watch's thread is
  keepGoing,  \* the flag: FALSE once it was asked to stop
  handle,     \* TRUE while the thread's join handle waits in the mutex
  moved,      \* the documents the thread has been given
  documents,  \* deliveries queued for on_change
  failures,   \* calls queued for on_error
  stop        \* stop[c]: where a call of stop() is

vars == <<thread, keepGoing, handle, moved, documents, failures, stop>>

Joining == {"joining", "empty"}   \* with the handle, or with nothing to join

TypeOK ==
  /\ thread \in {"starting", "asking", "ended"}
  /\ {keepGoing, handle} \subseteq BOOLEAN
  /\ moved \in 0..MaxMoves
  /\ documents \in Seq(1..MaxMoves) /\ Len(documents) <= moved
  /\ failures \in 0..1
  /\ stop \in [Stops -> {"ready", "joined", "resolved"} \cup Joining]

Init ==
  /\ thread = IF Mints THEN "starting" ELSE "asking"
  /\ keepGoing = TRUE /\ handle = TRUE
  /\ moved = 0 /\ documents = <<>> /\ failures = 0
  /\ stop = [c \in Stops |-> "ready"]

-----------------------------------------------------------------------------
(* The watch's thread. *)

(* The loop answered with a credential: the watch begins. *)
Started ==
  /\ thread = "starting" /\ thread' = "asking"
  /\ UNCHANGED <<keepGoing, handle, moved, documents, failures, stop>>

(* A request or the stream brought a document, asked to stop or not. *)
HandOver ==
  /\ thread = "asking" /\ moved < MaxMoves
  /\ moved' = moved + 1 /\ documents' = Append(documents, moved + 1)
  /\ UNCHANGED <<thread, keepGoing, handle, failures, stop>>

(* No credential, no connection, or the store's client gave up. *)
Fail ==
  /\ thread \in {"starting", "asking"}
  /\ thread' = "ended" /\ failures' = failures + 1
  /\ UNCHANGED <<keepGoing, handle, moved, documents, stop>>

(* The flag is seen: the client's loop returns, or its future is dropped. *)
Notice ==
  /\ thread = "asking" /\ ~keepGoing
  /\ thread' = "ended"
  /\ UNCHANGED <<keepGoing, handle, moved, documents, failures, stop>>

-----------------------------------------------------------------------------
(* stop(), its worker and its promise. *)

(* A mistake: the thread is joined and not told. *)
StopUnflagged(c) ==
  /\ stop[c] = "ready"
  /\ stop' = [stop EXCEPT ![c] = IF handle THEN "joining" ELSE "empty"]
  /\ handle' = FALSE
  /\ UNCHANGED <<thread, keepGoing, moved, documents, failures>>

(* A mistake: the flag is set and the thread is left to end by itself. *)
StopUnjoined(c) ==
  /\ stop[c] = "ready"
  /\ keepGoing' = FALSE /\ handle' = FALSE
  /\ stop' = [stop EXCEPT ![c] = "empty"]
  /\ UNCHANGED <<thread, moved, documents, failures>>

(* The first call takes the handle; the others find none. *)
Stop(c) ==
  /\ stop[c] = "ready"
  /\ keepGoing' = FALSE /\ handle' = FALSE
  /\ stop' = [stop EXCEPT ![c] = IF handle THEN "joining" ELSE "empty"]
  /\ UNCHANGED <<thread, moved, documents, failures>>

Join(c) ==
  /\ stop[c] = "empty" \/ (stop[c] = "joining" /\ thread = "ended")
  /\ stop' = [stop EXCEPT ![c] = "joined"]
  /\ UNCHANGED <<thread, keepGoing, handle, moved, documents, failures>>

Resolve(c) ==
  /\ stop[c] = "joined"
  /\ stop' = [stop EXCEPT ![c] = "resolved"]
  /\ UNCHANGED <<thread, keepGoing, handle, moved, documents, failures>>

-----------------------------------------------------------------------------
(* The loop takes the callbacks' queues and the workers' answers in any     *)
(* order: they are different sources of events.                             *)

Resolved == \E c \in Stops : stop[c] = "resolved"

OnChange ==
  /\ documents # <<>> /\ documents' = Tail(documents)
  /\ UNCHANGED <<thread, keepGoing, handle, moved, failures, stop>>

OnError ==
  /\ failures > 0 /\ failures' = failures - 1
  /\ UNCHANGED <<thread, keepGoing, handle, moved, documents, stop>>

Next ==
  \/ Started \/ HandOver \/ Fail \/ Notice \/ OnChange \/ OnError
  \/ \E c \in Stops : Stop(c) \/ Join(c) \/ Resolve(c)

(* A request ends by its own wait and a poll comes every 100 ms; the loop  *)
(* answers for a credential or the wait for one runs out.                  *)
Fairness ==
  /\ WF_vars(Started) /\ WF_vars(Notice) /\ WF_vars(OnChange) /\ WF_vars(OnError)
  /\ \A c \in Stops : WF_vars(Join(c)) /\ WF_vars(Resolve(c))

Spec == Init /\ [][Next]_vars /\ Fairness

-----------------------------------------------------------------------------
(***************************************************************************)
(* Once every stop() that was called has resolved the thread has ended and *)
(* queues nothing more, however often and whenever stop() was called.      *)
(***************************************************************************)
AllStopsWaited ==
  Resolved /\ (\A c \in Stops : stop[c] \in {"ready", "resolved"}) => thread = "ended"

(***************************************************************************)
(* Every stop() resolves, also one called while the thread waits for the   *)
(* loop, in a request, or after it has ended.                              *)
(***************************************************************************)
EveryStopResolves == \A c \in Stops : stop[c] # "ready" ~> stop[c] = "resolved"

(***************************************************************************)
(* "It waits for the loop to notice": what a caller of stop() is told when *)
(* its promise resolves, whoever else has called stop().                   *)
(***************************************************************************)
StopWaits == Resolved => thread = "ended"
=============================================================================
