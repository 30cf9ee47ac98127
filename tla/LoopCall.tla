------------------------------- MODULE LoopCall -------------------------------
(***************************************************************************)
(* How a thread asks the event loop for an answer it cannot go on without: *)
(* a validation (`Door.validate` of validate.rs), the document of a store  *)
(* written in JavaScript (`Shim.fetch` of remote.rs), a credential that    *)
(* rotates (`Rotating.current` of watching.rs).  All three queue a call,   *)
(* each with a channel of its own for the answer, and wait for PATIENCE.   *)
(*                                                                         *)
(* The loop runs the calls one at a time, as soon or as late as the        *)
(* program lets it, and may go away for good.                              *)
(***************************************************************************)
EXTENDS Integers, Sequences

CONSTANTS
  Threads,    \* the threads that ask
  MaxCalls    \* bound: calls ever made

VARIABLES
  calls,      \* calls made so far; a call is known by its number
  asked,      \* asked[t]: the call thread t waits for, or Nothing
  queue,      \* the calls waiting for the loop
  running,    \* the call whose function the loop is in, or Nothing
  channel,    \* channel[n]: what was sent on the channel of call n
  alive,      \* TRUE until the loop goes away
  got         \* history: got[n]: what came of call n

vars == <<calls, asked, queue, running, channel, alive, got>>

Nothing == 0
Calls == 1..MaxCalls

(* An answer is named by the call whose function computed it.              *)
Outcomes == [what : {"answer", "thrown"}, of : Calls]
Unsent == [what |-> "unsent"]
Open == [what |-> "open"]
Refused == [what |-> "refused"]

TypeOK ==
  /\ calls \in 0..MaxCalls
  /\ asked \in [Threads -> 0..calls] /\ running \in Calls \cup {Nothing}
  /\ queue \in Seq(Calls)
  /\ channel \in [Calls -> Outcomes \cup {Unsent}]
  /\ alive \in BOOLEAN
  /\ got \in [Calls -> Outcomes \cup {Open, Refused}]

Init ==
  /\ calls = 0 /\ asked = [t \in Threads |-> Nothing]
  /\ queue = <<>> /\ running = Nothing
  /\ channel = [n \in Calls |-> Unsent]
  /\ alive = TRUE /\ got = [n \in Calls |-> Open]

-----------------------------------------------------------------------------
Listened(n) == \E t \in Threads : asked[t] = n
Ends(t, outcome) ==
  /\ got' = [got EXCEPT ![asked[t]] = outcome]
  /\ asked' = [asked EXCEPT ![t] = Nothing]

(* The call is queued with the sending end of a new channel. *)
Ask(t) ==
  /\ asked[t] = Nothing /\ calls < MaxCalls /\ alive
  /\ calls' = calls + 1
  /\ asked' = [asked EXCEPT ![t] = calls + 1]
  /\ queue' = Append(queue, calls + 1)
  /\ UNCHANGED <<running, channel, alive, got>>

(* A mistake: a call that was not taken is waited for. *)
UnreachableAwaited(t) ==
  /\ asked[t] = Nothing /\ calls < MaxCalls /\ ~alive
  /\ asked' = [asked EXCEPT ![t] = calls + 1]
  /\ UNCHANGED <<calls, queue, running, channel, alive, got>>

(* A loop that has gone away takes no call: the status says so. *)
Unreachable(t) ==
  /\ asked[t] = Nothing /\ calls < MaxCalls /\ ~alive
  /\ calls' = calls + 1
  /\ got' = [got EXCEPT ![calls + 1] = Refused]
  /\ UNCHANGED <<asked, queue, running, channel, alive>>

(* The loop enters the function of the first call in its queue. *)
Run ==
  /\ alive /\ running = Nothing /\ queue # <<>>
  /\ running' = Head(queue) /\ queue' = Tail(queue)
  /\ UNCHANGED <<calls, asked, channel, alive, got>>

(* A mistake: one channel for the calls of a thread, drained by nobody, so *)
(* that what comes late is there for the thread's next call.               *)
AnswerWhoeverWaits ==
  /\ alive /\ running # Nothing
  /\ \E what \in {"answer", "thrown"}, n \in Calls :
       /\ Listened(n)
       /\ channel' = [channel EXCEPT ![n] = [what |-> what, of |-> running]]
  /\ running' = Nothing
  /\ UNCHANGED <<calls, asked, queue, alive, got>>

(* It returned or threw; the send fails where nobody listens any more. *)
Answer ==
  /\ alive /\ running # Nothing
  /\ \E what \in {"answer", "thrown"} :
       channel' = IF Listened(running)
                  THEN [channel EXCEPT ![running] = [what |-> what, of |-> running]]
                  ELSE channel
  /\ running' = Nothing
  /\ UNCHANGED <<calls, asked, queue, alive, got>>

Receive(t) ==
  /\ asked[t] # Nothing /\ channel[asked[t]] # Unsent
  /\ Ends(t, channel[asked[t]])
  /\ UNCHANGED <<calls, queue, running, channel, alive>>

(* PATIENCE has passed, or the loop dropped the sending end. *)
GiveUp(t) ==
  /\ asked[t] # Nothing /\ channel[asked[t]] = Unsent
  /\ Ends(t, Refused)
  /\ UNCHANGED <<calls, queue, running, channel, alive>>

(* The loop goes away with the calls it had not run. *)
GoAway ==
  /\ alive /\ alive' = FALSE
  /\ queue' = <<>> /\ running' = Nothing
  /\ UNCHANGED <<calls, asked, channel, got>>

Next ==
  \/ \E t \in Threads : Ask(t) \/ Unreachable(t) \/ Receive(t) \/ GiveUp(t)
  \/ Run \/ Answer \/ GoAway

Spec == Init /\ [][Next]_vars

-----------------------------------------------------------------------------
(***************************************************************************)
(* Whatever a call came to, it is the answer of its own function: one that *)
(* comes after the wait was given up is never taken for a later call's.    *)
(***************************************************************************)
AnswersAreOwn ==
  \A n \in Calls : got[n] \in Outcomes => got[n].of = n
=============================================================================
