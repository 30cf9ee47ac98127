------------------------------- MODULE Facade -------------------------------
(***************************************************************************)
(* The read path of `DynamicConfig` (index.js) over the publication of     *)
(* Install: `#cached` and `#generation`, the hook the constructor          *)
(* registers, `#pull`, the turn of the loop init() and reload() wait for,  *)
(* and one onChange() listener.  Everything here runs on the event loop,   *)
(* one callback at a time, while the threads of Install go on.             *)
(***************************************************************************)
EXTENDS Install

CONSTANT Midway  \* TRUE if onChange() may be called at any time

VARIABLES
  cached,    \* #cached
  seen,      \* #generation
  pulling,   \* where #pull is: it makes two calls into the native half
  awaiting,  \* awaiting[t]: how far the init() or reload() of t has resolved
  listening, \* how far onChange() has come
  listener,  \* the token of its hook
  last       \* what it compares with: a tree stands for the value at its path

listeners == <<listening, listener, last>>
facade == <<cached, seen, pulling, awaiting, listeners>>
allVars == <<vars, facade>>

FacadeTypeOK ==
  /\ TypeOK
  /\ cached \in Doc \cup {NoDoc} /\ seen \in 0..generation
  /\ pulling \in {"no", "document", "generation"}
  /\ awaiting \in [Threads -> {"no", "answered", "turn"}]
  /\ listening \in {"no", "reading", "on"} /\ listener \in 0..MaxHooks
  /\ last \in Trees \cup {NoTree}

FacadeInit ==
  /\ Init
  /\ cached = NoDoc /\ seen = 0 /\ pulling = "no"
  /\ awaiting = [t \in Threads |-> "no"]
  /\ listening = "no" /\ listener = 0 /\ last = NoTree

LoopThread(t) == Does[t] \cap {"commit", "replace"} # {}

(* The loop is inside a function of the facade. *)
Inside == pulling # "no" \/ listening = "reading"
LoopReady == LoopIsFree /\ ~Inside

(***************************************************************************)
(* A step of Install.  A caller begins nothing while it awaits (nor does   *)
(* anybody, candidates aside, in a program that awaits its calls); the     *)
(* loop enters a native call only between callbacks; replace() is followed *)
(* by a #pull, a successful init() or reload() by #settle.                 *)
(***************************************************************************)
Native(t) ==
  /\ pc[t] = "idle" => awaiting[t] = "no" /\ (LoopThread(t) \/ ~Midway => ~Inside)
  /\ Load(t) \/ Commit(t)
  /\ Awaited /\ pc[t] = "idle" /\ kind'[t] # "load" =>
       \A other \in Threads : awaiting[other] = "no"
  /\ pulling' = IF kind[t] = "replace" /\ pc'[t] = "idle" THEN "document" ELSE pulling
  /\ awaiting' = IF Finishes(t) THEN [awaiting EXCEPT ![t] = "answered"] ELSE awaiting
  /\ UNCHANGED <<cached, seen, listeners>>

(* Two mistakes: the generation counted instead of asked for, ... *)
FacadeHookCounting ==
  /\ ~Inside /\ Deliver(1)
  /\ cached' = Head(queue[1]) /\ seen' = seen + 1
  /\ UNCHANGED <<pulling, awaiting, listeners>>

(* ... and the generation not noted at all. *)
FacadeHookUnnoted ==
  /\ ~Inside /\ Deliver(1)
  /\ cached' = Head(queue[1])
  /\ UNCHANGED <<seen, pulling, awaiting, listeners>>

(* The hook of the constructor: the document comes with the call, the      *)
(* generation is asked for when it runs.                                   *)
FacadeHook ==
  /\ ~Inside /\ Deliver(1)
  /\ cached' = Head(queue[1]) /\ seen' = generation
  /\ UNCHANGED <<pulling, awaiting, listeners>>

(* The hooks of the program; onChange's keeps what it compares with. *)
ProgramHook(h) ==
  /\ h # 1 /\ ~Inside /\ Deliver(h)
  /\ last' = IF h = listener THEN Head(queue[h]).tree ELSE last
  /\ UNCHANGED <<cached, seen, pulling, awaiting, listening, listener>>

Subscribe ==
  /\ ~Inside /\ Subscription
  /\ UNCHANGED facade

(* tryCurrent(), when the generation moved; when it did not, it is a read. *)
TryCurrent ==
  /\ LoopReady /\ seen # generation
  /\ pulling' = "document"
  /\ UNCHANGED <<vars, cached, seen, awaiting, listeners>>

PullDocument ==
  /\ pulling = "document"
  /\ cached' = cache /\ pulling' = "generation"
  /\ UNCHANGED <<vars, seen, awaiting, listeners>>

PullGeneration ==
  /\ pulling = "generation"
  /\ seen' = generation /\ pulling' = "no"
  /\ UNCHANGED <<vars, cached, awaiting, listeners>>

(***************************************************************************)
(* When a program that does not call onChange() at any time calls it: with *)
(* nothing under way, and not between two of the hook calls that wait, the *)
(* first of which brings back a document that is no longer in force.       *)
(***************************************************************************)
MayListen ==
  /\ LoopReady /\ listening = "no" /\ nextHook <= MaxHooks
  /\ Midway \/ (Quiet /\ (queue[1] = <<>> \/ seen # generation))

(* A mistake: onChange() takes the cached document as it is. *)
OnChangeUnpulled ==
  /\ MayListen
  /\ listening' = "reading"
  /\ UNCHANGED <<vars, cached, seen, pulling, awaiting, listener, last>>

(* onChange(): first tryCurrent(), for the value to compare with ... *)
OnChange ==
  /\ MayListen
  /\ listening' = "reading"
  /\ pulling' = IF seen # generation THEN "document" ELSE "no"
  /\ UNCHANGED <<vars, cached, seen, awaiting, listener, last>>

(* ... and then the hook. *)
Listen ==
  /\ listening = "reading" /\ pulling = "no" /\ OnReload
  /\ listening' = "on" /\ listener' = nextHook
  /\ last' = IF cached = NoDoc THEN NoTree ELSE cached.tree
  /\ UNCHANGED <<cached, seen, pulling, awaiting>>

(* #settle: a pull, then setImmediate. *)
Settle(t) ==
  /\ LoopReady /\ awaiting[t] = "answered"
  /\ pulling' = "document"
  /\ awaiting' = [awaiting EXCEPT ![t] = "turn"]
  /\ UNCHANGED <<vars, cached, seen, listeners>>

(* The turn: how many of the calls that wait are run before it is up is for *)
(* libuv and Node-API to say.                                               *)
Turn(t) ==
  /\ LoopReady /\ awaiting[t] = "turn"
  /\ awaiting' = [awaiting EXCEPT ![t] = "no"]
  /\ UNCHANGED <<vars, cached, seen, pulling, listeners>>

FacadeNext ==
  \/ \E t \in Threads : Native(t) \/ Settle(t) \/ Turn(t)
  \/ Subscribe \/ OnChange \/ Listen
  \/ FacadeHook \/ \E h \in HookTokens : ProgramHook(h)
  \/ TryCurrent \/ PullDocument \/ PullGeneration

(***************************************************************************)
(* A call that began goes on, and the event loop runs what is waiting for  *)
(* it; nothing makes the program begin another operation, or read.         *)
(***************************************************************************)
FacadeSpec == FacadeInit /\ [][FacadeNext]_allVars

FairFacadeSpec ==
  /\ FacadeSpec
  /\ WF_allVars(FacadeHook) /\ WF_allVars(\E h \in HookTokens : ProgramHook(h))
  /\ WF_allVars(PullDocument) /\ WF_allVars(PullGeneration) /\ WF_allVars(Listen)
  /\ WF_allVars(\E t \in Threads : Settle(t) \/ Turn(t))
  /\ \A t \in Threads : WF_allVars(pc[t] # "idle" /\ Native(t))

-----------------------------------------------------------------------------
(***************************************************************************)
(* current() is "the document in force": between two callbacks, once the   *)
(* hook has run for everything published, nothing the loop did meanwhile   *)
(* (a pull across two publications, a late hook) leaves an old document    *)
(* behind under the newest generation.                                     *)
(***************************************************************************)
DrainedIsInForce ==
  LoopReady /\ Quiet /\ queue[1] = <<>> => seen = generation /\ cached = cache

(***************************************************************************)
(* A read that finds the generation it knows answers the document in       *)
(* force: "`current()` and `generation` here are the replaced document's". *)
(***************************************************************************)
ReadsAreInForce == LoopReady /\ Quiet /\ seen = generation => cached = cache

(***************************************************************************)
(* Once an onChange() hook has run for everything published since it was   *)
(* registered, the value it will compare the next document with is the     *)
(* value in force: it is not called for a change that was none, and not    *)
(* left out of one that was.                                               *)
(***************************************************************************)
ListenerIsCurrent ==
  LoopReady /\ Quiet /\ listener \in hooks /\ queue[listener] = <<>> /\ cache # NoDoc
    => last = cache.tree

(***************************************************************************)
(* Whatever is published is what the program has at hand in the end, by    *)
(* the hook alone, although it never asks.                                 *)
(***************************************************************************)
ReadsCatchUp == <>[](cached = cache /\ seen = generation)
(***************************************************************************)
(* "Waits for the hooks this install queued": when an awaited reload()     *)
(* comes back, the hook has run for what it published.                     *)
(***************************************************************************)
HookHasSeenIt ==
  [][\A t \in Threads : awaiting[t] = "turn" /\ awaiting'[t] = "no" => queue[1] = <<>>]_allVars
=============================================================================
