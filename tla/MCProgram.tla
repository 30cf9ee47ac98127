------------------------------ MODULE MCProgram ------------------------------
(***************************************************************************)
(* Small instances of the parts of the JavaScript halves that share no     *)
(* state: onReloadAsync(), stores written in JavaScript, the lifetimes of  *)
(* file watchers, the blocks of overrides, the two streams, and what an    *)
(* install reports as changed.  As in MCNative a behaviour exercises the   *)
(* one `part` it starts with.                                              *)
(***************************************************************************)
EXTENDS Integers, Sequences

VARIABLES
  part,
  policy, installs, running, queued, controller, active, aborted, started, threw,  \* AsyncHook
  stores, awaited, source, slot, layer, call, fills,                 \* Remote
  watching, listens, lifetime, reached,                              \* Watcher
  pinned, served, inside, before, open, found, unread,               \* Overrides
  events, attentive, consecutive, happened, unqueued, untold, handed, reloadCalls,
  failureCalls, pending, refused, failures, turn, document, signalled, yielded, covers,  \* Streams
  older, newer                                                       \* Documents

CONSTANTS
  MaxInstalls,
  Refreshes, MaxStores,
  m1, m2, signal, block, groupSignal, groupBlock, Failing,
  b1, b2, b3, p, q, Refusals, Concurrent,
  MaxReloads,
  Dotted, Values, Nothing

Lifetimes == {signal, block, groupSignal, groupBlock}

(* A signal and a block of m1 alone, and of groups that share it, in which *)
(* it comes last and first.                                                *)
Covers ==
  [l \in Lifetimes |-> CASE l \in {signal, block} -> <<m1>>
                       [] l = groupSignal        -> <<m2, m1>>
                       [] OTHER                  -> <<m1, m2>>]

(* Three blocks whose pins meet on a path. *)
Pins == [b \in {b1, b2, b3} |-> CASE b = b1 -> {p} [] b = b2 -> {p, q} [] OTHER -> {q}]

(* The keys of the tables of a document; one may have a dot in it. *)
Keys == {<<"a">>, <<"b">>} \cup (IF Dotted THEN {<<"a", "b">>} ELSE {})

A == INSTANCE AsyncHook
R == INSTANCE Remote WITH Calls <- Refreshes
W == INSTANCE Watcher WITH Members <- {m1, m2}, Blocks <- {block, groupBlock},
                           slot <- watching, at <- lifetime
O == INSTANCE Overrides WITH Blocks <- {b1, b2, b3}, Paths <- {p, q}, at <- inside
S == INSTANCE Streams WITH at <- turn, aborted <- signalled
D == INSTANCE Documents WITH before <- older, after <- newer

hookVars == <<policy, installs, running, queued, controller, active, aborted, started, threw>>
remoteVars == <<stores, awaited, source, slot, layer, call, fills>>
watcherVars == <<watching, listens, lifetime, reached>>
overridesVars == <<pinned, served, inside, before, open, found, unread>>
streamVars ==
  <<events, attentive, consecutive, happened, unqueued, untold, handed, reloadCalls,
    failureCalls, pending, refused, failures, turn, document, signalled, yielded, covers>>
documentVars == <<older, newer>>

Parts == {"hook", "remote", "watcher", "overrides", "streams", "documents"}

ASSUME ProgramAssumption ==
  /\ {MaxInstalls, MaxReloads} \subseteq Nat /\ MaxStores \in Nat \ {0}
  /\ {Refusals, Concurrent, Dotted} \subseteq BOOLEAN
  /\ Failing \subseteq {m1, m2} /\ Nothing \notin D!Docs

(* The others stay as they began, in one of their beginnings. *)
Init ==
  /\ part \in Parts
  /\ A!Init /\ R!Init /\ W!Init /\ O!Init /\ S!Init /\ D!Init
  /\ part # "hook" => policy = "latest"
  /\ part # "overrides" => \A path \in {p, q} : found[path] = O!Nobody
  /\ part # "streams" => events /\ attentive
  /\ part # "documents" => newer = [table |-> <<>>]

InHook ==
  /\ part = "hook"
  /\ UNCHANGED <<part, remoteVars, watcherVars, overridesVars, streamVars, documentVars>>
InRemote ==
  /\ part = "remote"
  /\ UNCHANGED <<part, hookVars, watcherVars, overridesVars, streamVars, documentVars>>
InWatcher ==
  /\ part = "watcher"
  /\ UNCHANGED <<part, hookVars, remoteVars, overridesVars, streamVars, documentVars>>
InOverrides ==
  /\ part = "overrides"
  /\ UNCHANGED <<part, hookVars, remoteVars, watcherVars, streamVars, documentVars>>
InStreams ==
  /\ part = "streams"
  /\ UNCHANGED <<part, hookVars, remoteVars, watcherVars, overridesVars, documentVars>>
InDocuments ==
  /\ part = "documents"
  /\ UNCHANGED <<part, hookVars, remoteVars, watcherVars, overridesVars, streamVars>>

(* The next-state relations of the six, action by action. *)
Next ==
  \/ InHook /\ A!Install
  \/ \E d \in A!Documents :
       \/ InHook /\ A!Settle(d)
       \/ InHook /\ A!ReportThrows(d)
  \/ InRemote /\ R!SetRemoteAsync
  \/ InRemote /\ R!UseStore
  \/ InRemote /\ R!ClearRemote
  \/ \E c \in Refreshes :
       \/ InRemote /\ R!Refresh(c)
       \/ InRemote /\ R!StoreFetched(c)
       \/ InRemote /\ R!Fetched(c)
       \/ InRemote /\ R!FetchRejects(c)
       \/ InRemote /\ R!Enter(c)
       \/ InRemote /\ R!Answer(c)
       \/ InRemote /\ R!NothingWaits(c)
       \/ InRemote /\ R!Dropped(c)
       \/ InRemote /\ R!Fill(c)
       \/ \E s \in R!Stores : InRemote /\ R!HandleRefresh(c, s)
  \/ \E l \in Lifetimes :
       \/ InWatcher /\ W!Begin(l)
       \/ InWatcher /\ W!BeginFails(l)
       \/ InWatcher /\ W!BeginAborted(l)
       \/ InWatcher /\ W!BodyEnds(l)
       \/ InWatcher /\ W!Abort(l)
  \/ \E m \in {m1, m2} : InWatcher /\ W!StopWatching(m)
  \/ \E b \in {b1, b2, b3} :
       \/ InOverrides /\ O!Enter(b)
       \/ InOverrides /\ O!EnterRefused(b)
       \/ InOverrides /\ O!Entered(b)
       \/ InOverrides /\ O!Leave(b)
       \/ InOverrides /\ O!Left(b)
       \/ InOverrides /\ O!LeftUnread(b)
  \/ InStreams /\ S!Installs
  \/ InStreams /\ S!Refuses
  \/ InStreams /\ S!Overtaken
  \/ \E d \in S!Documents : InStreams /\ S!QueueReload(d)
  \/ InStreams /\ S!QueueFailure
  \/ InStreams /\ S!Replaces
  \/ InStreams /\ S!Start
  \/ InStreams /\ S!HookReloads
  \/ InStreams /\ S!HookFailures
  \/ InStreams /\ S!ReloadHook
  \/ InStreams /\ S!FailureHook
  \/ InStreams /\ S!End
  \/ InStreams /\ S!Take
  \/ InStreams /\ S!Resume
  \/ InStreams /\ S!Abort
  \/ InStreams /\ S!Break
  \/ InDocuments /\ D!Install

vars ==
  <<part, hookVars, remoteVars, watcherVars, overridesVars, streamVars, documentVars>>

(* The fairness AsyncHook and Streams state, each while it is the part.     *)
Spec ==
  /\ Init /\ [][Next]_vars
  /\ \A d \in A!Documents : WF_vars(InHook /\ (A!Settle(d) \/ A!ReportThrows(d)))
  /\ WF_vars(InStreams /\ S!ReloadHook) /\ WF_vars(InStreams /\ S!FailureHook)
  /\ WF_vars(InStreams /\ S!HookReloads) /\ WF_vars(InStreams /\ S!HookFailures)
  /\ WF_vars(InStreams /\ S!End)
  /\ WF_vars(InStreams /\ S!Take) /\ WF_vars(InStreams /\ S!Resume)

-----------------------------------------------------------------------------
(***************************************************************************)
(* The type invariants of the six parts.                                   *)
(***************************************************************************)
ProgramTypeOK ==
  A!TypeOK /\ R!TypeOK /\ W!TypeOK /\ O!TypeOK /\ S!TypeOK /\ D!TypeOK

(***************************************************************************)
(* AsyncHook: latest and serial never run two calls of the hook at once.   *)
(***************************************************************************)
NeverInterleaved == A!NeverInterleaved

(***************************************************************************)
(* AsyncHook: only latest drops documents and tells calls to stop, and     *)
(* only overtaken ones.                                                    *)
(***************************************************************************)
OnlyOvertakenAreDropped == A!OnlyOvertakenAreDropped

(***************************************************************************)
(* AsyncHook: the hook comes to be called with the newest document, unless *)
(* the program's own onError threw.                                        *)
(***************************************************************************)
NewestIsStarted == A!NewestIsStarted

(***************************************************************************)
(* Remote: an async document is handed to the engine at most once.         *)
(***************************************************************************)
HandedOnce == R!HandedOnce

(***************************************************************************)
(* Remote: what a refresh fetched from one store is never passed off as    *)
(* another's.                                                              *)
(***************************************************************************)
NoStoreAnswersForAnother == R!NoStoreAnswersForAnother

(***************************************************************************)
(* Watcher: no watcher outlives the lifetime that started it, blocks that  *)
(* threw because watch() did among them.                                   *)
(***************************************************************************)
NoneOutlivesItsLifetime == W!NoneOutlivesItsLifetime

(***************************************************************************)
(* Overrides: nested blocks leave pins and document as the first of them   *)
(* found them.                                                             *)
(***************************************************************************)
PinsAreRestored == O!PinsAreRestored

(***************************************************************************)
(* Overrides: a body runs on a document resolved with its block's pins.    *)
(***************************************************************************)
BodySeesItsPins == O!BodySeesItsPins

(***************************************************************************)
(* Streams: documents are yielded in the order of the calls of the hook,   *)
(* none twice.                                                             *)
(***************************************************************************)
DocumentsInOrder == S!DocumentsInOrder

(***************************************************************************)
(* Streams: to a stream awake in time the events are the reloads.          *)
(***************************************************************************)
EventsAreTheReloads == S!EventsAreTheReloads

(***************************************************************************)
(* Streams: a consumer that keeps asking is handed the document of the     *)
(* last call.                                                              *)
(***************************************************************************)
NewestIsYielded == S!NewestIsYielded

(***************************************************************************)
(* Streams: a reloadFailed event stands for a refusal not told before.     *)
(***************************************************************************)
NoRefusalToldTwice == S!NoRefusalToldTwice

(***************************************************************************)
(* Documents: the paths reported by an install are those whose values      *)
(* moved, none under another and, where there was a document, none is      *)
(* missing.                                                                *)
(***************************************************************************)
ReportIsExact == D!ReportIsExact
=============================================================================
