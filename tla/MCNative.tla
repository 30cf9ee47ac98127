------------------------------- MODULE MCNative -------------------------------
(***************************************************************************)
(* Small instances of the parts of the native halves that share no state:  *)
(* the calls of a thread on the loop, the watch of a store, the sources    *)
(* and layers of a configuration, the log bridge, and the requests of the  *)
(* stores.  A behaviour exercises the one `part` it starts with: their     *)
(* interleavings would bring none of them into a state it does not reach   *)
(* alone.                                                                  *)
(***************************************************************************)
EXTENDS Integers, Sequences

VARIABLES
  part,
  calls, asked, queue, running, channel, alive, got,                   \* LoopCall
  thread, keepGoing, handle, moved, documents, failures, stop,         \* StoreWatch
  phase, builder, publishers, layers, call, serving, owed, accepted, refused,  \* Sources
  level, sink, logger, setting, gone, emitting, lines, heard, crossed, \* LogBridge
  class, given, store, rotation, task                                  \* Stores

CONSTANTS
  Threads, MaxCalls,
  Stops, Mints, MaxMoves,
  Sources, Misspelt, Settings, Operations,
  Emitters, MaxLines,
  Fetches, WatchTask, MaxRotations

L == INSTANCE LoopCall
W == INSTANCE StoreWatch
D == INSTANCE Sources WITH Calls <- Operations
B == INSTANCE LogBridge
S == INSTANCE Stores

loopVars == <<calls, asked, queue, running, channel, alive, got>>
watchVars == <<thread, keepGoing, handle, moved, documents, failures, stop>>
sourcesVars == <<phase, builder, publishers, layers, call, serving, owed, accepted, refused>>
logVars == <<level, sink, logger, setting, gone, emitting, lines, heard, crossed>>
storesVars == <<class, given, store, rotation, task>>

Parts == {"loop", "watch", "sources", "log", "stores"}

ASSUME NativeAssumption ==
  /\ {MaxCalls, MaxMoves, MaxLines, MaxRotations} \subseteq Nat
  /\ Mints \in BOOLEAN
  /\ Sources \cap Settings = {} /\ Misspelt \subseteq Sources /\ WatchTask \notin Fetches

(* The others stay as they began; the stores, in one of their beginnings.   *)
Init ==
  /\ part \in Parts
  /\ L!Init /\ W!Init /\ D!Init /\ B!Init /\ S!Init
  /\ part # "stores" => class = S!Git /\ given = {}

InLoop == part = "loop" /\ UNCHANGED <<part, watchVars, sourcesVars, logVars, storesVars>>
InWatch == part = "watch" /\ UNCHANGED <<part, loopVars, sourcesVars, logVars, storesVars>>
InSources == part = "sources" /\ UNCHANGED <<part, loopVars, watchVars, logVars, storesVars>>
InLog == part = "log" /\ UNCHANGED <<part, loopVars, watchVars, sourcesVars, storesVars>>
InStores == part = "stores" /\ UNCHANGED <<part, loopVars, watchVars, sourcesVars, logVars>>

(* The next-state relations of the five, action by action. *)
Next ==
  \/ \E t \in Threads :
       \/ InLoop /\ L!Ask(t)
       \/ InLoop /\ L!Unreachable(t)
       \/ InLoop /\ L!Receive(t)
       \/ InLoop /\ L!GiveUp(t)
  \/ InLoop /\ L!Run
  \/ InLoop /\ L!Answer
  \/ InLoop /\ L!GoAway
  \/ InWatch /\ W!Started
  \/ InWatch /\ W!HandOver
  \/ InWatch /\ W!Fail
  \/ InWatch /\ W!Notice
  \/ InWatch /\ W!OnChange
  \/ InWatch /\ W!OnError
  \/ \E c \in Stops :
       \/ InWatch /\ W!Stop(c)
       \/ InWatch /\ W!Join(c)
       \/ InWatch /\ W!Resolve(c)
  \/ \E s \in Sources :
       \/ InSources /\ D!Declare(s)
       \/ InSources /\ D!Refuse(s)
  \/ \E s \in Settings :
       \/ InSources /\ D!SetLayer(s)
       \/ InSources /\ D!ClearLayer(s)
  \/ \E c \in Operations :
       \/ InSources /\ D!Begin(c)
       \/ InSources /\ D!Enter(c)
       \/ InSources /\ D!Complete(c)
       \/ InSources /\ D!Fail(c)
       \/ InSources /\ D!Watch(c)
       \/ InSources /\ D!Diagnose(c)
  \/ InLog /\ B!SetSink
  \/ InLog /\ B!SetEngineSink
  \/ InLog /\ B!ClearEngineSink("clear")
  \/ InLog /\ B!ClearEngineSink("reset")
  \/ InLog /\ B!Take
  \/ InLog /\ B!SetLevel
  \/ InLog /\ B!LoopGone
  \/ \E t \in Emitters :
       \/ InLog /\ B!Emit(t, "info")
       \/ InLog /\ B!Emit(t, "warn")
       \/ InLog /\ B!ReadSink(t)
       \/ InLog /\ B!Call(t)
  \/ InStores /\ S!Construct
  \/ InStores /\ S!Rotate
  \/ InStores /\ S!AskAgain
  \/ \E t \in S!Tasks :
       \/ InStores /\ S!Begin(t)
       \/ InStores /\ S!Mint(t)
       \/ InStores /\ S!MintFails(t)
       \/ InStores /\ S!Unbuilt(t)
       \/ InStores /\ S!Send(t)
       \/ InStores /\ S!Answered(t)

vars == <<part, loopVars, watchVars, sourcesVars, logVars, storesVars>>

(* The fairness StoreWatch states, while it is the part.                   *)
Spec ==
  /\ Init /\ [][Next]_vars
  /\ WF_vars(InWatch /\ W!Started) /\ WF_vars(InWatch /\ W!Notice)
  /\ WF_vars(InWatch /\ W!OnChange) /\ WF_vars(InWatch /\ W!OnError)
  /\ \A c \in Stops : WF_vars(InWatch /\ W!Join(c)) /\ WF_vars(InWatch /\ W!Resolve(c))

-----------------------------------------------------------------------------
(***************************************************************************)
(* The type invariants of the five parts.                                  *)
(***************************************************************************)
NativeTypeOK == L!TypeOK /\ W!TypeOK /\ D!TypeOK /\ B!TypeOK /\ S!TypeOK

(***************************************************************************)
(* LoopCall: whatever a call of a thread on the loop came to, it is the    *)
(* answer of its own function.                                             *)
(***************************************************************************)
AnswersAreOwn == L!AnswersAreOwn

(***************************************************************************)
(* StoreWatch: once every stop() that was called has resolved the thread   *)
(* of the watch has ended.                                                 *)
(***************************************************************************)
AllStopsWaited == W!AllStopsWaited

(***************************************************************************)
(* StoreWatch: every stop() resolves, whatever the thread was at.          *)
(***************************************************************************)
EveryStopResolves == W!EveryStopResolves

(***************************************************************************)
(* Sources: every accepted source is in every document loaded, and so is   *)
(* every layer setting its load had to find.                               *)
(***************************************************************************)
ServedWithAllAccepted == D!ServedWithAllAccepted

(***************************************************************************)
(* LogBridge: whatever setLogger() does meanwhile, a line the engine emits *)
(* is queued for a logger or written to stderr, unless the logger was      *)
(* taken away while the line was inside the sink.                          *)
(***************************************************************************)
EveryLineIsHeard == B!EveryLineIsHeard

(***************************************************************************)
(* Stores: no request goes out with less identity than its store was given *)
(* a part of.                                                              *)
(***************************************************************************)
NeverAnonymous == S!NeverAnonymous

(***************************************************************************)
(* Stores: a fetch carries a credential no older than the one that was     *)
(* current when it was called.                                             *)
(***************************************************************************)
CarriesCurrent == S!CarriesCurrent
=============================================================================
