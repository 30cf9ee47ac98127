------------------------------- MODULE Streams -------------------------------
(***************************************************************************)
(* `changes()` and `events()` (index.js): async generators over the reload *)
(* hook and, for events(), the failure hook.  A reload moves the engine's  *)
(* status on its own thread and calls the hooks some time later, reloads   *)
(* that overlap in any order; replace() does both on the loop, in between. *)
(* A call of a hook waits for the loop.  The generator runs on the loop,   *)
(* when a hook wakes it or its consumer comes back for more, and reads a   *)
(* status that may have moved on since.  The calls of the stream's reload  *)
(* hook are numbered from 1, in their order: the generator deals in these  *)
(* numbers, and `handed` says which document each of them carried.         *)
(***************************************************************************)
EXTENDS Integers, SequencesExt

CONSTANT
  MaxReloads    \* bound: reloads, refused or not, and documents replaced

None == 0       \* `undefined`: documents and calls are numbered from 1

VARIABLES
  events,       \* TRUE for events(), FALSE for changes()
  attentive,    \* TRUE if the stream is awake again before the next reload
  consecutive,  \* status().consecutiveFailures
  happened,     \* history: the reloads, in order: a document, or None
  unqueued,     \* documents published whose hooks were not called yet
  untold,       \* how many refusals did not call their hooks yet
  handed,       \* history: the document of each call of the reload hook
  reloadCalls,  \* calls of the reload hook waiting for the loop
  failureCalls, \* how many calls of the failure hook are waiting
  pending, refused, failures,      \* the generator's variables
  at,           \* where the generator is
  document,     \* the call it took and has not yielded yet
  aborted,      \* the caller's signal
  yielded,      \* history: the events, in order: the call told, or None
  covers        \* history: how many reloads the failures counted are among

stream == <<events, attentive>>
engine == <<consecutive, happened, unqueued, untold>>
queues == <<handed, reloadCalls, failureCalls>>
generator == <<pending, refused, failures, at, document, yielded, covers>>
vars == <<stream, engine, queues, generator, aborted>>

Documents == 1..MaxReloads

TypeOK ==
  /\ {events, attentive} \subseteq BOOLEAN
  /\ consecutive \in 0..MaxReloads
  /\ happened \in Seq(Documents \cup {None}) /\ Len(happened) <= MaxReloads
  /\ unqueued \subseteq Documents /\ untold \in Nat
  /\ handed \in Seq(Documents)
  /\ reloadCalls \in Seq(Nat) /\ failureCalls \in Nat
  /\ pending \in Nat /\ document \in Nat
  /\ refused \in BOOLEAN /\ failures \in 0..MaxReloads
  /\ at \in {"new", "reading", "hooking", "waiting", "awake", "yielded", "ended"}
  /\ aborted \in BOOLEAN
  /\ yielded \in Seq(Nat) /\ covers \in 0..MaxReloads

Init ==
  /\ events \in BOOLEAN /\ attentive \in BOOLEAN
  /\ consecutive = 0 /\ happened = <<>> /\ unqueued = {} /\ untold = 0
  /\ handed = <<>> /\ reloadCalls = <<>> /\ failureCalls = 0
  /\ pending = None /\ refused = FALSE /\ failures = 0
  /\ at = "new" /\ document = None /\ aborted = FALSE
  /\ yielded = <<>> /\ covers = 0

(* The generator has the loop to itself.                                   *)
Running == at \in {"reading", "hooking", "awake"}

(* Its hooks are in the lists: none of a generator that did not get there, *)
(* or that is finished.                                                    *)
Hooked == at \notin {"new", "reading", "ended"}
HookedFailures == events /\ Hooked /\ at # "hooking"

-----------------------------------------------------------------------------
(* Reloads, on their own threads. *)

Undisturbed ==
  /\ unqueued = {} /\ untold = 0 /\ reloadCalls = <<>> /\ failureCalls = 0
  /\ at = "waiting"

Reload(outcome) ==
  /\ Len(happened) < MaxReloads
  /\ attentive => Undisturbed
  /\ happened' = Append(happened, outcome)

Published == Len(happened) + 1

Installs ==
  /\ Reload(Published)
  /\ consecutive' = 0 /\ unqueued' = unqueued \cup {Published}
  /\ UNCHANGED <<stream, untold, queues, generator, aborted>>

Refuses ==
  /\ Reload(None)
  /\ consecutive' = consecutive + 1 /\ untold' = untold + 1
  /\ UNCHANGED <<stream, unqueued, queues, generator, aborted>>

(* A reload the engine accepted, and a later one published over: no hooks. *)
Overtaken ==
  /\ ~attentive
  /\ consecutive' = 0
  /\ UNCHANGED <<stream, happened, unqueued, untold, queues, generator, aborted>>

Hand(d) ==
  IF Hooked
    THEN /\ handed' = Append(handed, d)
         /\ reloadCalls' = Append(reloadCalls, Len(handed) + 1)
    ELSE UNCHANGED <<handed, reloadCalls>>

QueueReload(d) ==
  /\ d \in unqueued
  /\ unqueued' = unqueued \ {d}
  /\ Hand(d)
  /\ UNCHANGED <<stream, consecutive, happened, untold, failureCalls, generator, aborted>>

QueueFailure ==
  /\ untold > 0
  /\ untold' = untold - 1
  /\ failureCalls' = IF HookedFailures THEN failureCalls + 1 ELSE failureCalls
  /\ UNCHANGED <<stream, consecutive, happened, unqueued, handed, reloadCalls, generator, aborted>>

-----------------------------------------------------------------------------
(* The event loop.  A generator that was woken runs in the microtask that  *)
(* follows the hook, before any other callback.                            *)

(* replace(): the document and its hooks at once, the status as it was.    *)
Replaces ==
  /\ ~Running
  /\ Reload(Published)
  /\ Hand(Published)
  /\ UNCHANGED <<stream, consecutive, unqueued, untold, failureCalls, generator, aborted>>

Woken == IF at = "waiting" THEN "awake" ELSE at

(* A mistake: the slot is filled and nobody woken. *)
ReloadHookUnheard ==
  /\ ~Running /\ reloadCalls # <<>>
  /\ reloadCalls' = Tail(reloadCalls)
  /\ pending' = Head(reloadCalls)
  /\ UNCHANGED <<stream, engine, handed, failureCalls, refused, failures, at, document, yielded, covers, aborted>>

ReloadHook ==
  /\ ~Running /\ reloadCalls # <<>>
  /\ reloadCalls' = Tail(reloadCalls)
  /\ pending' = Head(reloadCalls) /\ at' = Woken
  /\ UNCHANGED <<stream, engine, handed, failureCalls, refused, failures, document, yielded, covers, aborted>>

FailureHook ==
  /\ ~Running /\ failureCalls > 0
  /\ failureCalls' = failureCalls - 1
  /\ refused' = TRUE /\ at' = Woken
  /\ UNCHANGED <<stream, engine, handed, reloadCalls, pending, failures, document, yielded, covers, aborted>>

Abort ==
  /\ ~Running /\ ~aborted
  /\ aborted' = TRUE /\ at' = Woken
  /\ UNCHANGED <<stream, engine, queues, pending, refused, failures, document, yielded, covers>>

(***************************************************************************)
(* The consumer's first next(): events() reads how many failures there     *)
(* are, and both put their hooks in the lists, one after the other, while  *)
(* the threads go on.                                                      *)
(***************************************************************************)
Start ==
  /\ at = "new"
  /\ failures' = (IF events THEN consecutive ELSE 0)
  /\ covers' = Len(happened) /\ at' = "reading"
  /\ UNCHANGED <<stream, engine, queues, pending, refused, document, yielded, aborted>>

FirstTurn == IF aborted THEN "awake" ELSE "waiting"

HookReloads ==
  /\ at = "reading"
  /\ at' = IF events THEN "hooking" ELSE FirstTurn
  /\ UNCHANGED <<stream, engine, queues, pending, refused, failures, document, yielded, covers, aborted>>

HookFailures ==
  /\ at = "hooking"
  /\ at' = FirstTurn
  /\ UNCHANGED <<stream, engine, queues, pending, refused, failures, document, yielded, covers, aborted>>

(* `return`, and the finally block behind it: both hooks are removed. *)
End ==
  /\ at = "awake" /\ aborted
  /\ at' = "ended"
  /\ UNCHANGED <<stream, engine, queues, pending, refused, failures, document, yielded, covers, aborted>>

(* What the generator yields once it took what the hooks left.             *)
TellRefusal ==
  /\ yielded' = Append(yielded, None) /\ covers' = Len(happened)
  /\ document' = pending /\ at' = "yielded"

(* A mistake: the document stays behind. *)
TellDocumentAndKeep(d) ==
  /\ yielded' = Append(yielded, d) /\ UNCHANGED covers
  /\ document' = d /\ at' = "yielded"

TellDocument(d) ==
  /\ yielded' = Append(yielded, d) /\ UNCHANGED covers
  /\ document' = None /\ at' = "yielded"

(* Two mistakes: a count of failures that is never updated, ... *)
TakeUncounted ==
  /\ at = "awake" /\ ~aborted
  /\ pending' = None /\ refused' = FALSE
  /\ IF events /\ consecutive > failures THEN TellRefusal
     ELSE IF pending # None THEN TellDocument(pending)
     ELSE at' = "waiting" /\ document' = None /\ UNCHANGED <<yielded, covers>>
  /\ UNCHANGED <<stream, engine, queues, aborted, failures>>

(* ... and one that only ever grows. *)
TakeGrowing ==
  /\ at = "awake" /\ ~aborted
  /\ pending' = None /\ refused' = FALSE
  /\ failures' = IF events /\ consecutive > failures THEN consecutive ELSE failures
  /\ IF events /\ consecutive > failures THEN TellRefusal
     ELSE IF pending # None THEN TellDocument(pending)
     ELSE at' = "waiting" /\ document' = None /\ UNCHANGED <<yielded, covers>>
  /\ UNCHANGED <<stream, engine, queues, aborted>>

(* Awake: the slots are emptied, and the status is read as it is now.      *)
Take ==
  /\ at = "awake" /\ ~aborted
  /\ pending' = None /\ refused' = FALSE
  /\ failures' = IF events THEN consecutive ELSE failures
  /\ IF events /\ consecutive > failures THEN TellRefusal
     ELSE IF pending # None THEN TellDocument(pending)
     ELSE at' = "waiting" /\ document' = None /\ UNCHANGED <<yielded, covers>>
  /\ UNCHANGED <<stream, engine, queues, aborted>>

(***************************************************************************)
(* The consumer asks for the next event: the document that waits behind a  *)
(* refusal, or another turn of the generator's loop.                       *)
(***************************************************************************)
Resume ==
  /\ at = "yielded"
  /\ IF document # None THEN TellDocument(document)
     ELSE /\ at' = IF aborted \/ pending # None \/ refused THEN "awake" ELSE "waiting"
          /\ UNCHANGED <<document, yielded, covers>>
  /\ UNCHANGED <<stream, engine, queues, pending, refused, failures, aborted>>

(* `break` in the consumer's loop: the generator's finally block runs. *)
Break ==
  /\ at = "yielded"
  /\ at' = "ended"
  /\ UNCHANGED <<stream, engine, queues, pending, refused, failures, document, yielded, covers, aborted>>

Loop == ReloadHook \/ FailureHook \/ HookReloads \/ HookFailures \/ End \/ Take \/ Resume
Threads == Installs \/ Refuses \/ Overtaken \/ (\E d \in Documents : QueueReload(d)) \/ QueueFailure
Next == Threads \/ Replaces \/ Start \/ Loop \/ Abort \/ Break

Spec == Init /\ [][Next]_vars

(* Calls are delivered, a generator that runs goes on, and the consumer    *)
(* comes back.                                                             *)
FairSpec ==
  Spec /\ WF_vars(ReloadHook) /\ WF_vars(FailureHook)
       /\ WF_vars(HookReloads) /\ WF_vars(HookFailures)
       /\ WF_vars(End) /\ WF_vars(Take) /\ WF_vars(Resume)

-----------------------------------------------------------------------------
Settled == Undisturbed /\ pending = None /\ ~refused

(***************************************************************************)
(* Latest wins: a consumer that keeps asking is handed the document of the *)
(* last call of its hook, whatever was overwritten in the slot while it    *)
(* was busy.                                                               *)
(***************************************************************************)
NewestIsYielded ==
  <>(at = "ended" \/ [](handed = <<>> \/ Len(handed) \in ToSet(yielded)))

(***************************************************************************)
(* Documents are yielded in the order in which the hook was called with    *)
(* them, and none twice: not the order in which they were published.       *)
(***************************************************************************)
DocumentsInOrder ==
  \A i, j \in DOMAIN yielded :
    i < j /\ yielded[i] # None /\ yielded[j] # None => yielded[i] < yielded[j]

(***************************************************************************)
(* A reloadFailed event stands for a refusal that no earlier one told, and *)
(* that came after the stream began.                                       *)
(***************************************************************************)
NoRefusalToldTwice ==
  [][Len(yielded') > Len(yielded) /\ yielded'[Len(yielded')] = None =>
       \E i \in (covers + 1)..Len(happened) : happened[i] = None]_vars

(***************************************************************************)
(* With a stream that is awake in time, the events are the reloads, one    *)
(* for one: the count of failures it compares with follows the engine's,   *)
(* which an install sets back and replace() does not.                      *)
(***************************************************************************)
Told == [i \in DOMAIN yielded |-> IF yielded[i] = None THEN None ELSE handed[yielded[i]]]

EventsAreTheReloads == events /\ attentive /\ Settled => Told = happened

(***************************************************************************)
(* "A refusal followed by an install arrives as both events, refusal       *)
(* first": when a document is told, so were the refusals before it.        *)
(***************************************************************************)
RefusalComesFirst ==
  \A i \in DOMAIN happened :
    /\ events /\ happened[i] = None
    /\ \E j \in DOMAIN Told : Told[j] > i
    => covers >= i

(***************************************************************************)
(* "A consumer that falls behind is handed the document in force": once    *)
(* nothing is under way, the last document told is the last published.     *)
(***************************************************************************)
LastIsInForce ==
  \A i \in DOMAIN Told :
    Settled /\ Told[i] # None /\ (\A j \in DOMAIN Told : j > i => Told[j] = None)
    => \A d \in ToSet(happened) : d <= Told[i]
=============================================================================
