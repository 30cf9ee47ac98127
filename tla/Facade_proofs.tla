---------------------------- MODULE Facade_proofs ----------------------------
(***************************************************************************)
(* What Facade adds to Install, for every number of threads, hooks and     *)
(* operations of a program that awaits its calls.                          *)
(*                                                                         *)
(* Every step of the facade is one of Install or leaves it alone, so what  *)
(* is proved of Install holds of it.  For the rest: as long as a document  *)
(* is half published its hook call is still to be queued, and as long as a *)
(* call waits the facade may be behind; with neither, the last thing that  *)
(* set #cached was a call with the last document of the log, or a pull     *)
(* that nothing was published across.                                      *)
(***************************************************************************)
EXTENDS Facade, Publication_proofs

(* Nothing is half published. *)
Announced == \A t \in Threads : pc[t] \notin {"bump", "queue"}

(* Then what is published is what the hooks were handed last. *)
LogIsCache ==
  Announced => IF log = <<>> THEN cache = NoDoc ELSE cache = log[Len(log)]

HooksOfAll == HooksInv /\ 1 \in hooks

(* What the facade read is in force, unless a hook call or a pull is due. *)
ReadInv ==
  /\ Announced /\ queue[1] = <<>> /\ pulling = "no" => seen = generation /\ cached = cache
  /\ Announced /\ queue[1] = <<>> /\ pulling = "generation" => cached = cache

(* onChange() reads the document in force, and its hook keeps it. *)
ListenInv ==
  /\ listening # "on" => listener = 0
  /\ listening = "on" => listener \in 2..(nextHook - 1)
  /\ listening = "reading" => Quiet /\ (pulling # "document" => cached = cache)
  /\ Announced /\ listener \in hooks /\ queue[listener] = <<>> /\ cache # NoDoc =>
       last = cache.tree

-----------------------------------------------------------------------------
(* The refinement. *)

LEMMA FacadeStep == [FacadeNext]_allVars => [Next]_vars
<1> SUFFICES ASSUME [FacadeNext]_allVars PROVE [Next]_vars
  OBVIOUS
<1>1. ASSUME NEW t \in Threads, Native(t) PROVE Next
  BY <1>1 DEF Native, Next
<1>2. CASE Subscribe \/ Listen
  BY <1>2 DEF Subscribe, Listen, Subscription, Next
<1>3. CASE FacadeHook
  BY <1>3, BoundsAssumption DEF FacadeHook, Next, HookTokens
<1>4. ASSUME NEW h \in HookTokens, ProgramHook(h) PROVE Next
  BY <1>4 DEF ProgramHook, Next
<1>5. CASE OnChange \/ TryCurrent \/ PullDocument \/ PullGeneration
  BY <1>5 DEF OnChange, TryCurrent, PullDocument, PullGeneration
<1>6. ASSUME NEW t \in Threads, Settle(t) \/ Turn(t) PROVE UNCHANGED vars
  BY <1>6 DEF Settle, Turn
<1>7. CASE UNCHANGED allVars
  BY <1>7 DEF allVars
<1> QED
  BY <1>1, <1>2, <1>3, <1>4, <1>5, <1>6, <1>7 DEF FacadeNext

(***************************************************************************)
(* The facade adds readers and listeners to Install and takes nothing      *)
(* away: all that is proved of Install holds of it.                        *)
(***************************************************************************)
THEOREM FacadeImplementsInstall == FacadeSpec => Spec
<1>1. FacadeInit => Init
  BY DEF FacadeInit
<1> QED
  BY <1>1, FacadeStep, PTL DEF FacadeSpec, Spec

-----------------------------------------------------------------------------
(* What a thread's step does to what is published. *)

LEMMA MostPublishNothing ==
  ASSUME ThreadInv, NEW t \in Threads, Load(t) \/ Commit(t),
         ~WriteCache(t), ~BumpGeneration(t), ~QueueHooks(t)
  PROVE  UNCHANGED <<published, calls>> /\ (Announced' <=> Announced)
<1>1. CASE \/ \E k \in Kinds : StartLoad(t, k)
           \/ \E token \in DOMAIN prepared : StartCommit(t, token)
           \/ StartReplace(t)
  BY <1>1 DEF StartLoad, StartCommit, StartReplace, Begins, Goto, ThreadInv, Announced
<1>2. CASE \E token \in DOMAIN prepared : Discard(t, token)
  BY <1>2 DEF Discard, thread, Announced
<1>3. CASE Refused(t) \/ Accepted(t) \/ RefusedLate(t) \/ Prepared(t)
  BY <1>3 DEF Refused, Accepted, RefusedLate, Prepared, Finish, Goto, ThreadInv, Announced
<1>4. CASE DrawSequence(t) \/ Stage(t) \/ EngineInstall(t) \/ ReadInstalled(t)
  BY <1>4 DEF DrawSequence, Stage, EngineInstall, ReadInstalled, Goto, ThreadInv, Announced
<1>5. CASE TakeStaged(t) \/ NothingStaged(t) \/ Claim(t) \/ Overtaken(t)
  BY <1>5 DEF TakeStaged, NothingStaged, Claim, Overtaken, Return, Finish, Goto, ThreadInv,
              Announced
<1> QED
  BY <1>1, <1>2, <1>3, <1>4, <1>5 DEF Load, Commit

LEMMA QueuesEveryHook ==
  ASSUME IInv, BusyInv, OrderInv, NEW t \in Threads, QueueHooks(t)
  PROVE  /\ UNCHANGED <<published, hooks, nextHook>> /\ log' = Append(log, cache)
         /\ \A h \in hooks : queue'[h] # <<>>
<1>1. entry[t] \in Publishable /\ cache = entry[t]
  BY DEF QueueHooks, IInv, ThreadInv, HoldsADocument, OrderInv, InHand
<1>2. \A h \in hooks : queue'[h] = Append(queue[h], entry[t]) /\ queue[h] \in Seq(Publishable)
  BY DEF QueueHooks, IInv, SharedInv
<1> QED
  BY <1>1, <1>2, AppendProperties DEF QueueHooks

LEMMA HalfPublished ==
  ASSUME ThreadInv, NEW t \in Threads, WriteCache(t) \/ BumpGeneration(t)
  PROVE  ~Announced' /\ UNCHANGED calls
  BY DEF WriteCache, BumpGeneration, Goto, ThreadInv, Announced

(* The event loop's steps publish nothing. *)
LEMMA LoopPublishesNothing ==
  ASSUME Subscription \/ \E h \in HookTokens : Deliver(h)
  PROVE  UNCHANGED <<inner, published, log, thread>> /\ (Announced' <=> Announced)
  BY DEF Subscription, OnReload, RemoveHook, Deliver, thread, Announced

LEMMA LogKept ==
  ASSUME IInv, BusyInv, OrderInv, LogIsCache, [Next]_vars
  PROVE  LogIsCache'
<1>1. ASSUME NEW t \in Threads, Load(t) \/ Commit(t) PROVE LogIsCache'
  <2>1. CASE QueueHooks(t)
    <3>1. cache' = cache /\ log' = Append(log, cache)
      BY <2>1, QueuesEveryHook DEF published
    <3>2. log \in Seq(Publishable) /\ cache \in Publishable
      BY <2>1 DEF IInv, SharedInv, QueueHooks, ThreadInv, HoldsADocument, OrderInv, InHand
    <3>3. log' # <<>> /\ log'[Len(log')] = cache
      BY <3>1, <3>2, AppendProperties
    <3> QED
      BY <3>1, <3>3 DEF LogIsCache
  <2>2. CASE WriteCache(t) \/ BumpGeneration(t)
    BY <2>2, HalfPublished DEF LogIsCache, IInv
  <2>3. CASE ~QueueHooks(t) /\ ~WriteCache(t) /\ ~BumpGeneration(t)
    BY <1>1, <2>3, MostPublishNothing DEF LogIsCache, IInv, published, calls
  <2> QED
    BY <2>1, <2>2, <2>3
<1>2. CASE Subscription \/ \E h \in HookTokens : Deliver(h)
  BY <1>2, LoopPublishesNothing DEF LogIsCache, published
<1>3. CASE UNCHANGED vars
  BY <1>3 DEF vars, published, calls, thread, LogIsCache, Announced
<1> QED
  BY <1>1, <1>2, <1>3 DEF Next

LEMMA FirstHookStays ==
  ASSUME IInv, HooksOfAll, [Next]_vars
  PROVE  HooksOfAll'
<1>1. HooksInv'
  BY NextHooksInv DEF HooksOfAll
<1>2. 1 \in hooks'
  <2>1. ASSUME NEW t \in Threads, Load(t) \/ Commit(t) PROVE UNCHANGED hooks
    BY <2>1, MostPublishNothing, HalfPublished DEF IInv, calls, QueueHooks
  <2> QED
    BY <2>1 DEF HooksOfAll, Next, Subscription, OnReload, RemoveHook, Deliver, vars, calls
<1> QED
  BY <1>1, <1>2 DEF HooksOfAll

Base == IInv /\ AwaitedInv /\ HooksOfAll /\ LogIsCache

LEMMA BaseInductive ==
  ASSUME Awaited
  PROVE  FacadeSpec => []Base
<1>1. Init => HooksOfAll /\ LogIsCache
  <2> SUFFICES ASSUME Init PROVE HooksOfAll /\ LogIsCache
    OBVIOUS
  <2>1. IsEnd(<<>>, <<>>)
    BY EmptySeq DEF IsEnd
  <2> QED
    BY <2>1, BoundsAssumption DEF Init, HooksOfAll, HooksInv, HookTokens, LogIsCache
<1>2. IInv /\ AwaitedInv /\ HooksOfAll /\ LogIsCache /\ [Next]_vars
        => HooksOfAll' /\ LogIsCache'
  BY FirstHookStays, LogKept DEF AwaitedInv
<1>3. Spec => [](IInv /\ AwaitedInv)
  BY AwaitedInductive
<1>4. IInv /\ AwaitedInv /\ HooksOfAll /\ LogIsCache <=> Base
  BY DEF Base
<1>5. Spec => []Base
  BY <1>1, <1>2, <1>3, <1>4, PTL DEF Spec
<1> QED
  BY <1>5, FacadeImplementsInstall, PTL

-----------------------------------------------------------------------------
(* The document in force. *)

(* The last call that waits for a hook carries what is published. *)
LEMMA LastCall ==
  ASSUME IInv, HooksInv, LogIsCache, Announced, NEW h \in hooks,
         queue[h] # <<>>, Tail(queue[h]) = <<>>
  PROVE  Head(queue[h]) = cache
<1>1. queue[h] \in Seq(Publishable) /\ log \in Seq(Publishable)
  BY DEF IInv, SharedInv
<1>2. Len(queue[h]) = 1 /\ Head(queue[h]) = queue[h][1]
  <2>1. Len(Tail(queue[h])) = Len(queue[h]) - 1 /\ Len(queue[h]) \in Nat
    BY <1>1, HeadTailProperties, LenProperties
  <2>2. Len(Tail(queue[h])) = 0
    BY EmptySeq
  <2> QED
    BY <1>1, <2>1, <2>2, HeadTailProperties
<1>3. PICK passed \in Nat : /\ Len(log) = passed + 1
                           /\ \A i \in 1..1 : queue[h][i] = log[passed + i]
  BY <1>2 DEF HooksInv, IsEnd
<1>4. queue[h][1] = log[Len(log)] /\ log # <<>>
  <2>1. queue[h][1] = log[passed + 1]
    BY <1>3
  <2>2. log # <<>>
    BY <1>3, EmptySeq
  <2> QED
    BY <1>3, <2>1, <2>2
<1> QED
  BY <1>2, <1>4 DEF LogIsCache

LEMMA ThreadKeepsRead ==
  ASSUME Base, ReadInv, NEW t \in Threads, Native(t)
  PROVE  ReadInv'
<1>1. /\ Load(t) \/ Commit(t)
      /\ pulling' \in {"document", pulling} /\ UNCHANGED <<cached, seen>>
  BY DEF Native
<1>2. CASE QueueHooks(t)
  BY <1>2, QueuesEveryHook DEF Base, AwaitedInv, HooksOfAll, ReadInv
<1>3. CASE WriteCache(t) \/ BumpGeneration(t)
  BY <1>3, HalfPublished DEF Base, IInv, ReadInv
<1>4. CASE ~QueueHooks(t) /\ ~WriteCache(t) /\ ~BumpGeneration(t)
  BY <1>1, <1>4, MostPublishNothing DEF Base, IInv, published, calls, ReadInv
<1> QED
  BY <1>2, <1>3, <1>4

(* A step of the facade that leaves the threads and the queue of its hook. *)
LEMMA PullKeepsRead ==
  ASSUME ReadInv, UNCHANGED vars,
         \/ OnChange \/ TryCurrent \/ PullDocument \/ PullGeneration
         \/ \E t \in Threads : Settle(t) \/ Turn(t)
         \/ UNCHANGED facade
  PROVE  ReadInv'
<1>1. UNCHANGED <<cache, generation, queue>> /\ (Announced' <=> Announced)
  BY DEF vars, published, calls, thread, Announced
<1>2. CASE PullDocument
  BY <1>1, <1>2 DEF PullDocument, ReadInv
<1>3. CASE PullGeneration
  BY <1>1, <1>3 DEF PullGeneration, ReadInv
<1>4. CASE OnChange
  BY <1>1, <1>4 DEF OnChange, MayListen, LoopReady, Inside, ReadInv
<1>5. CASE TryCurrent \/ \E t \in Threads : Settle(t)
  BY <1>1, <1>5 DEF TryCurrent, Settle, ReadInv
<1>6. CASE (\E t \in Threads : Turn(t)) \/ UNCHANGED facade
  BY <1>1, <1>6 DEF Turn, facade, ReadInv
<1> QED
  BY <1>2, <1>3, <1>4, <1>5, <1>6

LEMMA ReadKept ==
  ASSUME Base, ReadInv, [FacadeNext]_allVars
  PROVE  ReadInv'
<1>0. queue \in [HookTokens -> Seq(Publishable)] /\ 1 \in HookTokens /\ 1 \in hooks
  BY BoundsAssumption DEF Base, IInv, SharedInv, HookTokens, HooksOfAll
<1>1. CASE FacadeHook
  <2>1. /\ pulling = "no" /\ pulling' = "no" /\ Deliver(1)
        /\ cached' = Head(queue[1]) /\ seen' = generation
    BY <1>1 DEF FacadeHook, Inside
  <2>2. UNCHANGED published /\ (Announced' <=> Announced)
    BY <1>0, <2>1, LoopPublishesNothing
  <2>3. queue[1] # <<>> /\ queue'[1] = Tail(queue[1])
    BY <1>0, <2>1 DEF Deliver
  <2>4. Announced /\ Tail(queue[1]) = <<>> => Head(queue[1]) = cache
    BY <1>0, <2>3, LastCall DEF Base, HooksOfAll
  <2> QED
    BY <2>1, <2>2, <2>3, <2>4 DEF ReadInv, published
<1>2. ASSUME NEW h \in HookTokens, ProgramHook(h) PROVE ReadInv'
  <2>1. queue'[1] = queue[1] /\ UNCHANGED <<cached, seen, pulling>> /\ Deliver(h)
    BY <1>0, <1>2 DEF ProgramHook, Deliver
  <2>2. UNCHANGED published /\ (Announced' <=> Announced)
    BY <2>1, LoopPublishesNothing
  <2> QED
    BY <2>1, <2>2 DEF ReadInv, published
<1>3. CASE Subscribe \/ Listen
  <2>1. Subscription /\ UNCHANGED <<queue, cached, seen, pulling>>
    BY <1>3 DEF Subscribe, Listen, Subscription, OnReload, RemoveHook, facade
  <2>2. UNCHANGED published /\ (Announced' <=> Announced)
    BY <2>1, LoopPublishesNothing
  <2> QED
    BY <2>1, <2>2 DEF ReadInv, published
<1>4. CASE \/ OnChange \/ TryCurrent \/ PullDocument \/ PullGeneration
           \/ \E t \in Threads : Settle(t) \/ Turn(t)
  BY <1>4, PullKeepsRead
     DEF OnChange, TryCurrent, PullDocument, PullGeneration, Settle, Turn
<1>5. CASE UNCHANGED allVars
  BY <1>5, PullKeepsRead DEF allVars
<1> QED
  BY <1>1, <1>2, <1>3, <1>4, <1>5, ThreadKeepsRead DEF FacadeNext

(***************************************************************************)
(* Between two callbacks of the loop, with nothing under way and every     *)
(* call of the hook run, current() is the published document under the     *)
(* generation that counts it, for every interleaving of pulls, hooks and   *)
(* awaited operations.                                                     *)
(***************************************************************************)
THEOREM DrainedReadsAreInForce ==
  ASSUME Awaited
  PROVE  FacadeSpec => []DrainedIsInForce
<1>1. FacadeInit => ReadInv
  BY DEF FacadeInit, Init, ReadInv
<1>2. Base /\ ReadInv /\ [FacadeNext]_allVars => ReadInv'
  BY ReadKept
<1>3. ReadInv => DrainedIsInForce
  BY DEF ReadInv, DrainedIsInForce, LoopReady, Inside, Quiet, Announced
<1> QED
  BY <1>1, <1>2, <1>3, BaseInductive, PTL DEF FacadeSpec

-----------------------------------------------------------------------------
(* Types. *)

Types ==
  /\ cached \in Doc \cup {NoDoc} /\ seen \in 0..generation
  /\ pulling \in {"no", "document", "generation"}
  /\ awaiting \in [Threads -> {"no", "answered", "turn"}]
  /\ listening \in {"no", "reading", "on"} /\ listener \in 0..MaxHooks
  /\ last \in Trees \cup {NoTree}

LEMMA GenerationGrows ==
  ASSUME IInv, [Next]_vars
  PROVE  generation' \in {generation, generation + 1}
<1>1. ASSUME NEW t \in Threads, Load(t) \/ Commit(t)
      PROVE  generation' \in {generation, generation + 1}
  BY <1>1, MostPublishNothing DEF IInv, published, BumpGeneration, WriteCache, QueueHooks
<1> QED
  BY <1>1 DEF Next, Subscription, OnReload, RemoveHook, Deliver, vars, published

LEMMA TypesKept ==
  ASSUME IInv, Types, [FacadeNext]_allVars
  PROVE  Types'
<1>0. /\ queue \in [HookTokens -> Seq(Publishable)] /\ log \in Seq(Publishable)
      /\ cache \in Doc \cup {NoDoc} /\ generation \in Nat
      /\ \A d \in Publishable : d \in Doc /\ d.tree \in Trees
      /\ 1 \in HookTokens /\ nextHook \in 1..(MaxHooks + 1)
  BY PublishableIsDoc, BoundsAssumption DEF IInv, SharedInv, HookTokens, Doc
<1>1. generation' \in {generation, generation + 1} /\ seen \in 0..generation'
  <2>1. generation' \in {generation, generation + 1}
    BY GenerationGrows, FacadeStep
  <2> QED
    BY <1>0, <2>1 DEF Types
<1>2. ASSUME NEW h \in HookTokens, Deliver(h)
      PROVE  /\ Head(queue[h]) \in Doc /\ Head(queue[h]).tree \in Trees
             /\ UNCHANGED generation
  <2>1. Head(queue[h]) \in Publishable
    BY <1>0, <1>2, HeadTailProperties DEF Deliver
  <2> QED
    BY <1>0, <1>2, <2>1 DEF Deliver, published
<1>3. ASSUME NEW t \in Threads, Native(t) PROVE Types'
  BY <1>1, <1>3 DEF Native, Types, listeners
<1>4. CASE FacadeHook
  BY <1>0, <1>2, <1>4 DEF FacadeHook, Types, listeners
<1>5. ASSUME NEW h \in HookTokens, ProgramHook(h) PROVE Types'
  BY <1>1, <1>2, <1>5 DEF ProgramHook, Types
<1>6. CASE Subscribe
  BY <1>1, <1>6 DEF Subscribe, Types, facade, listeners
<1>7. CASE Listen
  <2>1. nextHook \in 0..MaxHooks
    BY <1>0, <1>7, BoundsAssumption DEF Listen, OnReload
  <2>2. (IF cached = NoDoc THEN NoTree ELSE cached.tree) \in Trees \cup {NoTree}
    BY DEF Types, Doc
  <2> QED
    BY <1>1, <1>7, <2>1, <2>2 DEF Listen, Types
<1>8. CASE OnChange \/ TryCurrent \/ PullDocument
  BY <1>0, <1>1, <1>8 DEF OnChange, TryCurrent, PullDocument, Types, listeners
<1>9. CASE PullGeneration
  BY <1>0, <1>9 DEF PullGeneration, vars, published, Types, listeners
<1>10. ASSUME NEW t \in Threads, Settle(t) \/ Turn(t) PROVE Types'
  BY <1>1, <1>10 DEF Settle, Turn, Types, listeners
<1>11. CASE UNCHANGED allVars
  BY <1>1, <1>11 DEF allVars, facade, listeners, Types
<1> QED
  BY <1>3, <1>4, <1>5, <1>6, <1>7, <1>8, <1>9, <1>10, <1>11 DEF FacadeNext

LEMMA TypesInductive == FacadeSpec => [](IInv /\ Types)
<1>1. FacadeInit => Types
  BY BoundsAssumption DEF FacadeInit, Init, Types
<1>2. IInv /\ Types /\ [FacadeNext]_allVars => Types'
  BY TypesKept
<1> QED
  BY <1>1, <1>2, Inductive, FacadeImplementsInstall, PTL DEF FacadeSpec

(* Every variable of the facade keeps its type, and the generation it      *)
(* noted is never one that was not reached yet.                            *)
THEOREM FacadeTypeCorrect == FacadeSpec => []FacadeTypeOK
<1>1. TypeOK /\ Types => FacadeTypeOK
  BY DEF Types, FacadeTypeOK
<1> QED
  BY <1>1, TypesInductive, TypeCorrect, FacadeImplementsInstall, PTL

-----------------------------------------------------------------------------
(* What a listener compares with. *)

(* Nothing begins while onChange() reads, in a program that calls it with   *)
(* nothing under way; so what it read is in force when its hook is there.   *)
LEMMA ThreadKeepsListener ==
  ASSUME ~Midway, Base, ListenInv, NEW t \in Threads, Native(t)
  PROVE  ListenInv'
<1>1. (Load(t) \/ Commit(t)) /\ UNCHANGED <<cached, listening, listener, last>>
  BY DEF Native, listeners
<1>2. listening # "reading"
  BY DEF Native, ListenInv, Quiet, Inside
<1>3. CASE QueueHooks(t)
  BY <1>1, <1>2, <1>3, QueuesEveryHook DEF Base, AwaitedInv, ListenInv
<1>4. CASE WriteCache(t) \/ BumpGeneration(t)
  BY <1>1, <1>2, <1>4, HalfPublished DEF Base, IInv, calls, ListenInv
<1>5. CASE ~QueueHooks(t) /\ ~WriteCache(t) /\ ~BumpGeneration(t)
  BY <1>1, <1>2, <1>5, MostPublishNothing DEF Base, IInv, published, calls, ListenInv
<1> QED
  BY <1>3, <1>4, <1>5

(* The hook of onChange() keeps the document it is handed; the others do    *)
(* not touch it.                                                            *)
LEMMA DeliveryKeepsListener ==
  ASSUME Base, ListenInv, NEW h \in HookTokens, Deliver(h), ~Inside,
         UNCHANGED <<listening, listener>>,
         last' = IF h = listener THEN Head(queue[h]).tree ELSE last
  PROVE  ListenInv'
<1>0. queue \in [HookTokens -> Seq(Publishable)] /\ hooks \subseteq HookTokens
  BY DEF Base, IInv, SharedInv
<1>1. UNCHANGED <<published, hooks, nextHook>> /\ (Announced' <=> Announced)
  BY LoopPublishesNothing DEF Deliver
<1>2. listening # "reading"
  BY DEF Inside
<1>3. CASE h = listener
  <2>1. queue[h] # <<>> /\ queue'[h] = Tail(queue[h])
    BY <1>0 DEF Deliver
  <2>2. Announced /\ h \in hooks /\ Tail(queue[h]) = <<>> => Head(queue[h]) = cache
    BY <1>0, <2>1, LastCall DEF Base, HooksOfAll
  <2> QED
    BY <1>1, <1>2, <1>3, <2>1, <2>2 DEF ListenInv, published
<1>4. CASE h # listener
  <2>1. listener \in hooks => queue'[listener] = queue[listener]
    BY <1>0, <1>4 DEF Deliver
  <2> QED
    BY <1>1, <1>2, <1>4, <2>1 DEF ListenInv, published
<1> QED
  BY <1>3, <1>4

LEMMA ListenKept ==
  ASSUME ~Midway, Base, ReadInv, ListenInv, [FacadeNext]_allVars
  PROVE  ListenInv'
<1>0. /\ hooks \subseteq HookTokens /\ 1 \in HookTokens
      /\ nextHook \in 2..(MaxHooks + 1) /\ 0 \notin HookTokens
  BY BoundsAssumption DEF Base, IInv, SharedInv, HooksOfAll, HooksInv, HookTokens
<1>1. CASE FacadeHook
  <2>1. Deliver(1) /\ ~Inside /\ UNCHANGED <<listening, listener, last>>
    BY <1>1 DEF FacadeHook, listeners
  <2>2. listener # 1
    BY <1>0, <2>1 DEF ListenInv, Inside
  <2> QED
    BY <1>0, <2>1, <2>2, DeliveryKeepsListener
<1>2. ASSUME NEW h \in HookTokens, ProgramHook(h) PROVE ListenInv'
  BY <1>2, DeliveryKeepsListener DEF ProgramHook
<1>3. CASE Subscribe
  <2>1. /\ Subscription /\ UNCHANGED <<queue, cached, listening, listener, last>>
        /\ listening # "reading"
    BY <1>3 DEF Subscribe, Subscription, OnReload, RemoveHook, facade, listeners, Inside
  <2>2. /\ hooks' \subseteq hooks \cup {nextHook} /\ nextHook' \in {nextHook, nextHook + 1}
        /\ UNCHANGED published /\ (Announced' <=> Announced)
    BY <2>1, LoopPublishesNothing DEF Subscription, OnReload, RemoveHook
  <2> QED
    BY <1>0, <2>1, <2>2 DEF ListenInv, published
<1>4. CASE Listen
  <2>1. cached = cache
    BY <1>4 DEF Listen, ListenInv
  <2>2. OnReload /\ nextHook' = nextHook + 1 /\ UNCHANGED published
    BY <1>4 DEF Listen, OnReload
  <2> QED
    BY <1>0, <1>4, <2>1, <2>2 DEF Listen, ListenInv, published
<1>5. CASE /\ \/ OnChange \/ TryCurrent \/ PullDocument \/ PullGeneration
              \/ \E t \in Threads : Settle(t) \/ Turn(t)
              \/ UNCHANGED facade
           /\ UNCHANGED vars
  <2>1. /\ UNCHANGED <<cache, hooks, nextHook, queue>> /\ (Announced' <=> Announced)
        /\ (Quiet' <=> Quiet)
    BY <1>5 DEF vars, published, calls, thread, Announced, Quiet
  <2>2. CASE OnChange
    <3>1. Quiet /\ pulling = "no" /\ (queue[1] = <<>> \/ seen # generation)
      BY <2>2 DEF OnChange, MayListen, LoopReady, Inside
    <3>2. seen = generation => cached = cache
      BY <3>1 DEF ReadInv, Announced, Quiet
    <3> QED
      BY <2>1, <2>2, <3>1, <3>2 DEF OnChange, MayListen, ListenInv
  <2>3. CASE PullDocument
    BY <2>1, <2>3 DEF PullDocument, listeners, ListenInv
  <2>4. CASE PullGeneration
    BY <2>1, <2>4 DEF PullGeneration, listeners, ListenInv
  <2>5. CASE TryCurrent \/ \E t \in Threads : Settle(t) \/ Turn(t)
    BY <2>1, <2>5 DEF TryCurrent, Settle, Turn, LoopReady, Inside, listeners, ListenInv
  <2>6. CASE UNCHANGED facade
    BY <2>1, <2>6 DEF facade, listeners, ListenInv
  <2> QED
    BY <1>5, <2>2, <2>3, <2>4, <2>5, <2>6
<1>6. CASE UNCHANGED allVars
  BY <1>5, <1>6 DEF allVars
<1>7. CASE \/ OnChange \/ TryCurrent \/ PullDocument \/ PullGeneration
           \/ \E t \in Threads : Settle(t) \/ Turn(t)
  BY <1>5, <1>7 DEF OnChange, TryCurrent, PullDocument, PullGeneration, Settle, Turn
<1> QED
  BY <1>1, <1>2, <1>3, <1>4, <1>6, <1>7, ThreadKeepsListener DEF FacadeNext

(***************************************************************************)
(* An onChange() hook that has run for everything published compares the   *)
(* next document with the value in force, in a program that awaits its     *)
(* calls and calls onChange() with nothing under way.                      *)
(***************************************************************************)
THEOREM ListenersAreCurrent ==
  ASSUME Awaited, ~Midway
  PROVE  FacadeSpec => []ListenerIsCurrent
<1>1. FacadeInit => ReadInv /\ ListenInv
  <2> SUFFICES ASSUME FacadeInit PROVE ReadInv /\ ListenInv
    OBVIOUS
  <2> QED
    BY DEF FacadeInit, Init, ReadInv, ListenInv
<1>2. Base /\ ReadInv /\ ListenInv /\ [FacadeNext]_allVars => ReadInv' /\ ListenInv'
  BY ReadKept, ListenKept
<1>3. ListenInv => ListenerIsCurrent
  BY DEF ListenInv, ListenerIsCurrent, Quiet, Announced
<1> QED
  BY <1>1, <1>2, <1>3, BaseInductive, PTL DEF FacadeSpec
=============================================================================
