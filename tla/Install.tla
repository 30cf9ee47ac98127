------------------------------- MODULE Install -------------------------------
(***************************************************************************)
(* How one configuration publishes a document: `Inner` of config.rs.       *)
(*                                                                         *)
(* A load resolves a tree, has it validated, stages the answer, lets the   *)
(* engine install the tree, and then tries twice to publish the staged     *)
(* answer: once from the engine's reload hook and once explicitly.  Loads  *)
(* run on libuv's pool, on the file watcher's thread and (a commit, a      *)
(* replace) on the event loop, and every step below is one lock scope or   *)
(* one atomic operation of theirs, so that all of them interleave.         *)
(*                                                                         *)
(* The engine itself (crate dynamic_config) is not in the repository.  It  *)
(* appears as `installed`, the tree it serves, and `loading`, the lock a   *)
(* reload holds when the engine runs reloads one at a time.                *)
(***************************************************************************)
EXTENDS Integers, Sequences, FiniteSets

CONSTANTS
  Threads,      \* the threads that may run an operation of this configuration
  Does,         \* Does[t]: the kinds of operation thread t performs
  Trees,        \* the trees the sources can resolve to
  Valid,        \* those the validator may accept
  MaxStaged,    \* the bound on the staging area; 4 in the source
  OneAtATime,   \* TRUE if the engine runs its reloads one at a time
  LateRefusals, \* TRUE if the engine may refuse a load after its validation
  Awaited,      \* TRUE if the program awaits each operation before the next
  MaxHooks,     \* bound: hook tokens ever handed out
  MaxLoads,     \* bound: operations ever begun
  NoTree,       \* no tree: nothing resolved, nothing installed
  NoDoc         \* no document: `None` in the cache

(* Reloads the engine performs itself, calling its reload hook. *)
EngineLoads == {"init", "reload", "watch"}

(* What a thread may be asked.  "load" is the candidate load of `load()`. *)
Kinds == EngineLoads \cup {"load", "prepare", "commit", "replace"}

(***************************************************************************)
(* A document is named by the validation that answered it: its sequence    *)
(* number, the tree it was given and the operation it ran for.  A document *)
(* handed to replace() was validated by nobody and has sequence 0.         *)
(***************************************************************************)
Doc == [sequence : Nat, tree : Trees, by : Kinds]

ASSUME DoesAssumption == Does \in [Threads -> SUBSET Kinds]
ASSUME ValidAssumption == Valid \subseteq Trees
ASSUME BoundsAssumption ==
  /\ MaxStaged \in Nat \ {0}
  /\ MaxHooks \in Nat \ {0}
  /\ MaxLoads \in Nat
  /\ {OneAtATime, LateRefusals, Awaited} \subseteq BOOLEAN
ASSUME NoneAssumption == NoTree \notin Trees /\ NoDoc \notin Doc

VARIABLES
  staged,         \* validations waiting to be claimed
  nextSequence,   \* the last sequence number handed out
  lastCommitted,  \* the highest sequence number claimed
  cache,          \* the published document
  generation,     \* how many documents have been published
  hooks,          \* the tokens of the registered reload hooks
  nextHook,       \* the next token on_reload answers
  queue,          \* queue[h]: calls of hook h waiting for the event loop
  prepared,       \* token -> tree of the commits prepare() left behind
  nextPrepared,   \* the last prepare token handed out
  installed,      \* the engine's document
  loading,        \* the threads inside a reload of the engine
  pc, kind, tree, entry, round,   \* per thread: where it is, with what
  loads,          \* operations begun so far
  log,            \* history: the documents handed to the hooks, in order
  own, rounds     \* history: the number the thread drew, what it published

inner == <<staged, nextSequence, lastCommitted>>
published == <<cache, generation>>
calls == <<hooks, nextHook, queue, log>>
commits == <<prepared, nextPrepared>>
engine == <<installed, loading>>
thread == <<pc, kind, tree, entry, round, own, rounds>>
vars == <<inner, published, calls, commits, engine, thread, loads>>

Labels == {"idle", "validate", "sequence", "stage", "token", "install",
           "take", "claim", "write", "bump", "queue", "explicit"}

HookTokens == 1..MaxHooks

TypeOK ==
  /\ staged \in Seq(Doc) /\ Len(staged) <= MaxStaged
  /\ nextSequence \in Nat /\ lastCommitted \in Nat
  /\ cache \in Doc \cup {NoDoc} /\ generation \in Nat
  /\ hooks \subseteq HookTokens /\ nextHook \in 1..(MaxHooks + 1)
  /\ queue \in [HookTokens -> Seq(Doc)]
  /\ nextPrepared \in Nat
  /\ prepared \in Seq(Trees \cup {NoTree}) /\ Len(prepared) = nextPrepared
  /\ installed \in Trees \cup {NoTree}
  /\ loading \subseteq Threads
  /\ pc \in [Threads -> Labels] /\ kind \in [Threads -> Kinds \cup {"none"}]
  /\ tree \in [Threads -> Trees \cup {NoTree}]
  /\ entry \in [Threads -> Doc \cup {NoDoc}]
  /\ round \in [Threads -> {"hook", "explicit"}]
  /\ loads \in 0..MaxLoads
  /\ log \in Seq(Doc) /\ own \in [Threads -> Nat] /\ rounds \in [Threads -> Nat]

(* The constructor registers hook 1, the one that feeds `#cached`. *)
Init ==
  /\ staged = <<>> /\ nextSequence = 0 /\ lastCommitted = 0
  /\ cache = NoDoc /\ generation = 0
  /\ hooks = {1} /\ nextHook = 2 /\ queue = [h \in HookTokens |-> <<>>]
  /\ prepared = <<>> /\ nextPrepared = 0
  /\ installed = NoTree /\ loading = {}
  /\ pc = [t \in Threads |-> "idle"]
  /\ kind = [t \in Threads |-> "none"]
  /\ tree = [t \in Threads |-> NoTree]
  /\ entry = [t \in Threads |-> NoDoc]
  /\ round = [t \in Threads |-> "hook"]
  /\ loads = 0 /\ log = <<>>
  /\ own = [t \in Threads |-> 0] /\ rounds = [t \in Threads |-> 0]

-----------------------------------------------------------------------------
(* Beginning an operation. *)

Goto(t, label) == pc' = [pc EXCEPT ![t] = label]

(* The end of one: its locals go, and the engine's lock if it still held it. *)
Finish(t) ==
  /\ Goto(t, "idle")
  /\ kind' = [kind EXCEPT ![t] = "none"] /\ round' = [round EXCEPT ![t] = "hook"]
  /\ tree' = [tree EXCEPT ![t] = NoTree] /\ entry' = [entry EXCEPT ![t] = NoDoc]
  /\ own' = [own EXCEPT ![t] = 0] /\ rounds' = [rounds EXCEPT ![t] = 0]
  /\ loading' = loading \ {t}

(* What a program that awaits its calls never does: candidates aside, begin *)
(* an operation while another is under way.                                 *)
Overlaps(k) ==
  k # "load" /\ \E t \in Threads : pc[t] # "idle" /\ kind[t] # "load"

(* The guard every operation shares, and the bound on their number. *)
Begins(t, k) ==
  /\ pc[t] = "idle" /\ k \in Does[t]
  /\ Awaited => ~Overlaps(k)
  /\ loads < MaxLoads /\ loads' = loads + 1
  /\ kind' = [kind EXCEPT ![t] = k]
  /\ UNCHANGED <<own, rounds>>

(***************************************************************************)
(* init(), reload(), load(), prepare() on a worker, or a reload of the     *)
(* watcher: the engine resolves a tree and calls the validate hook.        *)
(***************************************************************************)
StartLoad(t, k) ==
  /\ k \in EngineLoads \cup {"load", "prepare"}
  /\ Begins(t, k)
  /\ IF k \in EngineLoads
       THEN /\ OneAtATime => loading = {}
            /\ loading' = loading \cup {t}
       ELSE UNCHANGED loading
  /\ \E resolved \in Trees : tree' = [tree EXCEPT ![t] = resolved]
  /\ Goto(t, "validate")
  /\ UNCHANGED <<inner, published, calls, commits, installed, entry, round>>

(* Config::commit: the token is taken out, or the call is refused. *)
StartCommit(t, token) ==
  /\ Begins(t, "commit")
  /\ token \in DOMAIN prepared /\ prepared[token] # NoTree
  /\ tree' = [tree EXCEPT ![t] = prepared[token]]
  /\ prepared' = [prepared EXCEPT ![token] = NoTree]
  /\ Goto(t, "install")
  /\ UNCHANGED <<inner, published, calls, engine, nextPrepared, entry, round>>

(* Config::discard: the token goes; what was staged for it stays. *)
Discard(t, token) ==
  /\ pc[t] = "idle" /\ "commit" \in Does[t]
  /\ token \in DOMAIN prepared /\ prepared[token] # NoTree
  /\ prepared' = [prepared EXCEPT ![token] = NoTree]
  /\ UNCHANGED <<inner, published, calls, engine, nextPrepared, thread, loads>>

(* Config::replace: neither the sources, nor the validator, nor the claim. *)
StartReplace(t) ==
  /\ Begins(t, "replace")
  /\ \E given \in Trees :
       entry' = [entry EXCEPT ![t] =
                   [sequence |-> 0, tree |-> given, by |-> "replace"]]
  /\ round' = [round EXCEPT ![t] = "explicit"]
  /\ Goto(t, "write")
  /\ UNCHANGED <<inner, published, calls, commits, engine, tree>>

-----------------------------------------------------------------------------
(* Inner::validate, and what the engine does with its answer. *)

(***************************************************************************)
(* The door answers.  It can refuse any tree (the validator is a function  *)
(* of the caller's, and a loop that does not answer is a refusal too) but  *)
(* accepts only valid ones.  A candidate load keeps its answer to itself.  *)
(***************************************************************************)
Refused(t) ==
  /\ pc[t] = "validate"
  /\ Finish(t)
  /\ UNCHANGED <<inner, published, calls, commits, installed, loads>>

(* Two mistakes: a candidate's answer goes the way of an install's ... *)
AcceptedWhoeverAsks(t) ==
  /\ pc[t] = "validate" /\ tree[t] \in Valid
  /\ Goto(t, "sequence")
  /\ UNCHANGED <<inner, published, calls, commits, engine, kind, tree, entry,
                 round, own, rounds, loads>>

(* ... and the validator's verdict is not looked at. *)
AcceptedUnseen(t) ==
  /\ pc[t] = "validate" /\ kind[t] # "load"
  /\ Goto(t, "sequence")
  /\ UNCHANGED <<inner, published, calls, commits, engine, kind, tree, entry,
                 round, own, rounds, loads>>

Accepted(t) ==
  /\ pc[t] = "validate" /\ tree[t] \in Valid
  /\ \/ kind[t] = "load" /\ Finish(t) /\ UNCHANGED <<installed>>
     \/ /\ kind[t] # "load" /\ Goto(t, "sequence")
        /\ UNCHANGED <<engine, kind, tree, entry, round, own, rounds>>
  /\ UNCHANGED <<inner, published, calls, commits, loads>>

(* A mistake: the number is the one before the increment. *)
DrawSequenceFromZero(t) ==
  /\ pc[t] = "sequence"
  /\ nextSequence' = nextSequence + 1
  /\ entry' = [entry EXCEPT ![t] = [sequence |-> nextSequence,
                                    tree |-> tree[t], by |-> kind[t]]]
  /\ own' = [own EXCEPT ![t] = nextSequence]
  /\ Goto(t, "stage")
  /\ UNCHANGED <<staged, lastCommitted, published, calls, commits, engine,
                 kind, tree, round, rounds, loads>>

(* The number is drawn before the staging area is locked. *)
DrawSequence(t) ==
  /\ pc[t] = "sequence"
  /\ nextSequence' = nextSequence + 1
  /\ entry' = [entry EXCEPT ![t] = [sequence |-> nextSequence + 1,
                                    tree |-> tree[t], by |-> kind[t]]]
  /\ own' = [own EXCEPT ![t] = nextSequence + 1]
  /\ Goto(t, "stage")
  /\ UNCHANGED <<staged, lastCommitted, published, calls, commits, engine,
                 kind, tree, round, rounds, loads>>

(* A mistake: nothing is ever dropped. *)
TrimNothing(s) == s

(* `while staged.len() > 4 { staged.remove(0) }` *)
Trim(s) == IF Len(s) > MaxStaged THEN Tail(s) ELSE s

Stage(t) ==
  /\ pc[t] = "stage"
  /\ staged' = Trim(Append(staged, entry[t]))
  /\ Goto(t, IF kind[t] = "prepare" THEN "token" ELSE "install")
  /\ UNCHANGED <<nextSequence, lastCommitted, published, calls, commits, engine,
                 kind, tree, entry, round, own, rounds, loads>>

(***************************************************************************)
(* A load the engine refuses after its validation, for a reason of its     *)
(* own: a redacting cache without secrets, a cache file it cannot write.   *)
(* A commit has nothing fallible in it.                                    *)
(***************************************************************************)
RefusedLate(t) ==
  /\ LateRefusals
  /\ \/ pc[t] = "install" /\ kind[t] \in EngineLoads
     \/ pc[t] = "token"
  /\ Finish(t)
  /\ UNCHANGED <<inner, published, calls, commits, installed, loads>>

(* What::Prepare: the commit is kept under a new token. *)
Prepared(t) ==
  /\ pc[t] = "token"
  /\ nextPrepared' = nextPrepared + 1
  /\ prepared' = Append(prepared, tree[t])
  /\ Finish(t)
  /\ UNCHANGED <<inner, published, calls, installed, loads>>

(* A mistake: init() has no explicit commit behind it. *)
EngineInstallOnly(t) ==
  /\ pc[t] = "install"
  /\ installed' = tree[t]
  /\ \/ /\ Goto(t, "take") /\ round' = [round EXCEPT ![t] = "hook"]
        /\ UNCHANGED <<loading, kind, tree, entry, own, rounds>>
     \/ kind[t] = "init" /\ Finish(t)
  /\ UNCHANGED <<inner, published, calls, commits, loads>>

(***************************************************************************)
(* The engine swaps its document in and calls its reload hook; whether an  *)
(* init() calls that hook is the engine's business, so both are allowed.   *)
(***************************************************************************)
EngineInstall(t) ==
  /\ pc[t] = "install"
  /\ installed' = tree[t]
  /\ round' = [round EXCEPT ![t] = "hook"]
  /\ \/ Goto(t, "take") /\ UNCHANGED loading
     \/ kind[t] = "init" /\ Goto(t, "explicit") /\ loading' = loading \ {t}
  /\ UNCHANGED <<inner, published, calls, commits, kind, tree, entry, own, rounds, loads>>

(* `dynamic.current()`, for the explicit commit that follows. *)
ReadInstalled(t) ==
  /\ pc[t] = "explicit"
  /\ tree' = [tree EXCEPT ![t] = installed]
  /\ round' = [round EXCEPT ![t] = "explicit"]
  /\ Goto(t, "take")
  /\ UNCHANGED <<inner, published, calls, commits, engine, kind, entry, own, rounds, loads>>

-----------------------------------------------------------------------------
(* Inner::commit, called with tree[t]. *)

(* Back to the caller, the reload hook or the explicit call, having handed  *)
(* this many documents to the hooks.                                        *)
Return(t, handed) ==
  IF round[t] = "hook" /\ kind[t] # "watch"
    THEN /\ Goto(t, "explicit")
         /\ loading' = loading \ {t}
         /\ rounds' = [rounds EXCEPT ![t] = @ + handed]
         /\ UNCHANGED <<kind, tree, entry, round, own>>
    ELSE Finish(t)

(* The places in the staging area that hold a validation of this tree. *)
Matches(t) == {i \in DOMAIN staged : staged[i].tree = tree[t]}

(* Two mistakes: the entry is read where it is, ... *)
WithoutNothing(s, i) == s

(* ... and what was staged before it goes with it. *)
WithoutEarlier(s, i) == SubSeq(s, i + 1, Len(s))

Without(s, i) == SubSeq(s, 1, i - 1) \o SubSeq(s, i + 1, Len(s))

(* take_staged: the first match leaves the staging area. *)
TakeStaged(t) ==
  /\ pc[t] = "take"
  /\ \E i \in Matches(t) :
       /\ \A j \in Matches(t) : i <= j
       /\ entry' = [entry EXCEPT ![t] = staged[i]]
       /\ staged' = Without(staged, i)
  /\ Goto(t, "claim")
  /\ UNCHANGED <<nextSequence, lastCommitted, published, calls, commits, engine,
                 kind, tree, round, own, rounds, loads>>

(* Somebody else has it: nothing to publish. *)
NothingStaged(t) ==
  /\ pc[t] = "take" /\ Matches(t) = {}
  /\ Return(t, 0)
  /\ UNCHANGED <<inner, published, calls, commits, installed, loads>>

(* A mistake: the claim is not checked. *)
ClaimAnyway(t) ==
  /\ pc[t] = "claim"
  /\ lastCommitted' = entry[t].sequence
  /\ Goto(t, "write")
  /\ UNCHANGED <<staged, nextSequence, published, calls, commits, engine,
                 kind, tree, entry, round, own, rounds, loads>>

(* The fetch_max, for a number above every one claimed so far ... *)
Claim(t) ==
  /\ pc[t] = "claim" /\ entry[t].sequence > lastCommitted
  /\ lastCommitted' = entry[t].sequence
  /\ Goto(t, "write")
  /\ UNCHANGED <<staged, nextSequence, published, calls, commits, engine,
                 kind, tree, entry, round, own, rounds, loads>>

(* ... and for one that is not: the document is dropped. *)
Overtaken(t) ==
  /\ pc[t] = "claim" /\ entry[t].sequence <= lastCommitted
  /\ Return(t, 0)
  /\ UNCHANGED <<inner, published, calls, commits, installed, loads>>

WriteCache(t) ==
  /\ pc[t] = "write"
  /\ cache' = entry[t]
  /\ Goto(t, "bump")
  /\ UNCHANGED <<inner, generation, calls, commits, engine,
                 kind, tree, entry, round, own, rounds, loads>>

BumpGeneration(t) ==
  /\ pc[t] = "bump"
  /\ generation' = generation + 1
  /\ Goto(t, "queue")
  /\ UNCHANGED <<inner, cache, calls, commits, engine,
                 kind, tree, entry, round, own, rounds, loads>>

(* A mistake: a queue of one call, and a call that does not fit is shed. *)
QueueHooksShedding(t) ==
  /\ pc[t] = "queue"
  /\ queue' = [h \in HookTokens |-> IF h \in hooks /\ queue[h] = <<>>
                                    THEN <<entry[t]>> ELSE queue[h]]
  /\ log' = Append(log, entry[t])
  /\ Return(t, 1)
  /\ UNCHANGED <<inner, published, hooks, nextHook, commits, installed, loads>>

(* One scope of the hooks lock: every registered hook gets a call. *)
QueueHooks(t) ==
  /\ pc[t] = "queue"
  /\ queue' = [h \in HookTokens |-> IF h \in hooks THEN Append(queue[h], entry[t])
                                    ELSE queue[h]]
  /\ log' = Append(log, entry[t])
  /\ Return(t, 1)
  /\ UNCHANGED <<inner, published, hooks, nextHook, commits, installed, loads>>

-----------------------------------------------------------------------------
(* The event loop's side of the hooks.  The loop is a thread that runs    *)
(* "commit" and "replace"; while it is inside one it delivers nothing.    *)

LoopIsFree == \A t \in Threads : Does[t] \cap {"commit", "replace"} # {} => pc[t] = "idle"

OnReload ==
  /\ LoopIsFree /\ nextHook <= MaxHooks
  /\ hooks' = hooks \cup {nextHook}
  /\ nextHook' = nextHook + 1
  /\ UNCHANGED <<inner, published, queue, log, commits, engine, thread, loads>>

(* The facade never removes hook 1: nobody else knows its token. *)
RemoveHook(h) ==
  /\ LoopIsFree /\ h \in hooks \ {1}
  /\ hooks' = hooks \ {h}
  /\ UNCHANGED <<inner, published, nextHook, queue, log, commits, engine, thread, loads>>

(* One queued call runs on the loop. *)
Deliver(h) ==
  /\ LoopIsFree /\ queue[h] # <<>>
  /\ queue' = [queue EXCEPT ![h] = Tail(@)]
  /\ UNCHANGED <<inner, published, hooks, nextHook, log, commits, engine, thread, loads>>

-----------------------------------------------------------------------------
Load(t) ==
  \/ \E k \in Kinds : StartLoad(t, k)
  \/ Refused(t) \/ Accepted(t) \/ DrawSequence(t) \/ Stage(t)
  \/ RefusedLate(t) \/ Prepared(t) \/ EngineInstall(t) \/ ReadInstalled(t)

Commit(t) ==
  \/ \E token \in DOMAIN prepared : StartCommit(t, token) \/ Discard(t, token)
  \/ StartReplace(t)
  \/ TakeStaged(t) \/ NothingStaged(t) \/ Claim(t) \/ Overtaken(t)
  \/ WriteCache(t) \/ BumpGeneration(t) \/ QueueHooks(t)

Subscription == OnReload \/ \E h \in HookTokens : RemoveHook(h)

Next ==
  \/ \E t \in Threads : Load(t) \/ Commit(t)
  \/ Subscription
  \/ \E h \in HookTokens : Deliver(h)

Spec == Init /\ [][Next]_vars

-----------------------------------------------------------------------------
(* What the steps above are meant to keep. *)

Quiet == \A t \in Threads : pc[t] = "idle"

(***************************************************************************)
(* A candidate load never publishes.  Its validation runs through the same *)
(* hook as an install's, and two loads of one file resolve equal trees, so *)
(* nothing but the thread-local keeps its answer out of the staging area   *)
(* from which a concurrent install would claim it.                         *)
(***************************************************************************)
Documents == {staged[i] : i \in DOMAIN staged} \cup {log[i] : i \in DOMAIN log}
               \cup ({cache} \ {NoDoc})

NoCandidatePublished == \A d \in Documents : d.by # "load"

(***************************************************************************)
(* Whatever is served was accepted by the validator for a tree that is     *)
(* valid, or was handed to replace(), whichever of the two commit paths of *)
(* whichever load published it, and however stale the staged entry was.    *)
(***************************************************************************)
PublishedIsValidated ==
  cache # NoDoc => (cache.by = "replace" \/ cache.tree \in Valid)

(***************************************************************************)
(* The hooks are called in the order of the validations: once a document   *)
(* was handed to them, no earlier validation's follows.  This is what the  *)
(* sequence number and the fetch_max are for.                              *)
(***************************************************************************)
NeverBackwards ==
  \A i, j \in DOMAIN log :
    i < j /\ log[j].by # "replace" => log[i].sequence < log[j].sequence

(***************************************************************************)
(* Of the many threads and their two commit paths each, a reader and a     *)
(* listener see none: what is published is a register written one document *)
(* at a time, counted and announced before the next, and never backwards.  *)
(***************************************************************************)
Reached(label) == \E t \in Threads : pc[t] = label
Stages == IF Reached("bump") THEN "written"
          ELSE IF Reached("queue") THEN "counted" ELSE "announced"

Contract == INSTANCE Publication WITH
  Documents <- Doc, document <- cache, announced <- log, stage <- Stages

ImplementsPublication == Contract!Spec

(***************************************************************************)
(* Nothing is left in the staging area by loads that all installed: what   *)
(* one commit path does not take, the other does, although neither knows   *)
(* which of several equal trees is its own.                                *)
(***************************************************************************)
NothingLeftBehind == Quiet => staged = <<>>

(***************************************************************************)
(* When nothing is under way the published document is the engine's: the   *)
(* read path and status(), snapshot() and fingerprint() describe the same  *)
(* install.                                                                *)
(***************************************************************************)
PublishedIsInstalled ==
  Quiet /\ installed # NoTree =>
    cache # NoDoc /\ (cache.tree = installed \/ cache.by = "replace")

(***************************************************************************)
(* When reload() or init() comes back, what is published is a validation   *)
(* of the tree the engine was found to serve, or one newer than its own.   *)
(***************************************************************************)
Finishes(t) ==
  /\ pc[t] # "idle" /\ pc'[t] = "idle"
  /\ kind[t] \in {"init", "reload"} /\ round[t] = "explicit"

ReloadIsPublished ==
  [][\A t \in Threads : Finishes(t) =>
       /\ cache' # NoDoc
       /\ \/ cache'.tree = tree[t] \/ cache'.sequence >= own[t]
          \/ cache'.by = "replace"]_vars

(***************************************************************************)
(* Reloads that overlap lose the newest of them never: once nothing is     *)
(* under way the document validated last has been announced, whichever     *)
(* commit path of whichever load took it, and whatever was claimed         *)
(* meanwhile.                                                              *)
(***************************************************************************)
NewestIsAnnounced ==
  Quiet /\ nextSequence # 0 => \E i \in DOMAIN log : log[i].sequence = nextSequence

(***************************************************************************)
(* One operation publishes at most once: the reload hook and the explicit  *)
(* call do not both, which is one reload, one generation and one round of  *)
(* hooks.                                                                  *)
(***************************************************************************)
OnePublicationEach == \A t \in Threads : pc[t] = "write" => rounds[t] = 0
=============================================================================
