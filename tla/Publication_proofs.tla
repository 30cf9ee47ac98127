-------------------------- MODULE Publication_proofs --------------------------
(***************************************************************************)
(* For a program that awaits its operations, Install implements the        *)
(* register of Publication, whatever the number of threads and trees, and  *)
(* whatever the engine refuses.                                            *)
(*                                                                         *)
(* Of the threads under way all but one are candidate loads, which never   *)
(* leave the door.  The one has claimed, when it writes, a number above    *)
(* every one in the log; and from then on what it holds is in the cache.   *)
(***************************************************************************)
EXTENDS Install_proofs

Busy(t) == pc[t] # "idle" /\ kind[t] # "load"

OneIsBusy == \A s, t \in Threads : Busy(s) /\ Busy(t) => s = t

CandidatesAtTheDoor ==
  \A t \in Threads : kind[t] = "load" => pc[t] \in {"idle", "validate"}

(* What is announced was claimed; the document in hand is above it. *)
LogIsClaimed == \A i \in DOMAIN log : log[i].sequence <= lastCommitted

Publishing(t) == pc[t] \in {"write", "bump", "queue"}

InHand(t) ==
  /\ Publishing(t) => entry[t].sequence <= lastCommitted
  /\ Publishing(t) /\ entry[t].by # "replace" =>
       \A i \in DOMAIN log : log[i].sequence < entry[t].sequence
  /\ pc[t] \in {"bump", "queue"} => cache = entry[t]

BusyInv == OneIsBusy /\ CandidatesAtTheDoor
OrderInv == LogIsClaimed /\ NeverBackwards /\ \A t \in Threads : InHand(t)
AwaitedInv == BusyInv /\ OrderInv

-----------------------------------------------------------------------------
(* Who is busy. *)

(* A thread that is under way goes on, without becoming a candidate, or    *)
(* finishes.                                                               *)
GoesOn(t) ==
  /\ pc[t] # "idle"
  /\ \/ kind[t] # "load" /\ (\E label \in Labels : Goto(t, label)) /\ UNCHANGED kind
     \/ Finish(t)

LEMMA GoingOnKeepsBusy ==
  ASSUME ThreadInv, BusyInv, NEW t \in Threads, GoesOn(t)
  PROVE  BusyInv'
<1>1. /\ \A s \in Threads \ {t} : pc'[s] = pc[s] /\ kind'[s] = kind[s]
      /\ kind'[t] = "load" => FALSE
      /\ Busy(t)' => Busy(t)
  BY DEF GoesOn, Goto, Finish, ThreadInv, Busy
<1>2. \A s \in Threads : Busy(s)' => Busy(s)
  BY <1>1 DEF Busy
<1> QED
  BY <1>1, <1>2 DEF BusyInv, OneIsBusy, CandidatesAtTheDoor

LEMMA BeginningKeepsBusy ==
  ASSUME Awaited, ThreadInv, BusyInv, NEW t \in Threads, NEW k \in Kinds,
         Begins(t, k), NEW label \in Labels, Goto(t, label),
         k = "load" => label = "validate"
  PROVE  BusyInv'
<1>1. /\ \A s \in Threads \ {t} : pc'[s] = pc[s] /\ kind'[s] = kind[s]
      /\ kind'[t] = k /\ pc'[t] = label
  BY DEF Begins, Goto, ThreadInv
<1>2. CandidatesAtTheDoor'
  BY <1>1 DEF BusyInv, CandidatesAtTheDoor
<1>3. CASE k = "load"
  BY <1>1, <1>2, <1>3 DEF BusyInv, OneIsBusy, Busy
<1>4. CASE k # "load"
  <2>1. \A s \in Threads : ~Busy(s)
    BY <1>4 DEF Begins, Overlaps, Busy
  <2> QED
    BY <1>1, <1>2, <2>1 DEF BusyInv, OneIsBusy, Busy
<1> QED
  BY <1>3, <1>4

(* The steps that are neither a beginning nor the loop's. *)
Middle(t) ==
  \/ Refused(t) \/ Accepted(t) \/ DrawSequence(t) \/ Stage(t)
  \/ RefusedLate(t) \/ Prepared(t) \/ EngineInstall(t) \/ ReadInstalled(t)
  \/ TakeStaged(t) \/ NothingStaged(t) \/ Claim(t) \/ Overtaken(t)
  \/ WriteCache(t) \/ BumpGeneration(t) \/ QueueHooks(t)

LEMMA MiddleGoesOn ==
  ASSUME ThreadInv, BusyInv, NEW t \in Threads, Middle(t)
  PROVE  GoesOn(t)
<1>1. pc[t] # "idle"
  BY DEF Middle, Refused, Accepted, DrawSequence, Stage, RefusedLate, Prepared,
         EngineInstall, ReadInstalled, TakeStaged, NothingStaged, Claim, Overtaken,
         WriteCache, BumpGeneration, QueueHooks
<1>2. pc[t] # "validate" => kind[t] # "load"
  BY <1>1 DEF BusyInv, CandidatesAtTheDoor
<1>3. CASE Refused(t) \/ Accepted(t) \/ RefusedLate(t) \/ Prepared(t)
  BY <1>1, <1>2, <1>3 DEF GoesOn, Refused, Accepted, RefusedLate, Prepared, Labels
<1>4. CASE DrawSequence(t) \/ Stage(t) \/ EngineInstall(t) \/ ReadInstalled(t) \/ TakeStaged(t)
  BY <1>1, <1>2, <1>4
     DEF GoesOn, DrawSequence, Stage, EngineInstall, ReadInstalled, TakeStaged, Labels
<1>5. CASE NothingStaged(t) \/ Overtaken(t) \/ QueueHooks(t)
  BY <1>1, <1>2, <1>5 DEF GoesOn, NothingStaged, Overtaken, QueueHooks, Return, Labels
<1>6. CASE Claim(t) \/ WriteCache(t) \/ BumpGeneration(t)
  BY <1>1, <1>2, <1>6 DEF GoesOn, Claim, WriteCache, BumpGeneration, Labels
<1> QED
  BY <1>3, <1>4, <1>5, <1>6 DEF Middle

(* The loop's own steps touch neither threads nor what they publish. *)
Aside ==
  \/ Subscription \/ \E h \in HookTokens : Deliver(h)
  \/ \E t \in Threads, token \in DOMAIN prepared : Discard(t, token)
  \/ UNCHANGED vars

LEMMA AsideTouchesNothing == Aside => UNCHANGED <<inner, published, log, thread>>
  BY DEF Aside, Subscription, OnReload, RemoveHook, Deliver, Discard,
         vars, inner, published, calls, commits, engine, thread

Beginning(t) ==
  \/ \E k \in Kinds : StartLoad(t, k)
  \/ \E token \in DOMAIN prepared : StartCommit(t, token)
  \/ StartReplace(t)

LEMMA Steps ==
  ASSUME [Next]_vars
  PROVE  Aside \/ \E t \in Threads : Beginning(t) \/ Middle(t)
  BY DEF Next, Load, Commit, Aside, Beginning, Middle

LEMMA BusyKept ==
  ASSUME Awaited, ThreadInv, BusyInv, [Next]_vars
  PROVE  BusyInv'
<1>1. CASE Aside
  BY <1>1, AsideTouchesNothing DEF thread, BusyInv, OneIsBusy, CandidatesAtTheDoor, Busy
<1>2. ASSUME NEW t \in Threads, Beginning(t) PROVE BusyInv'
  <2>1. ASSUME NEW k \in Kinds, StartLoad(t, k) PROVE BusyInv'
    BY <2>1, BeginningKeepsBusy DEF StartLoad, Labels
  <2>2. ASSUME NEW token \in DOMAIN prepared, StartCommit(t, token) PROVE BusyInv'
    BY <2>2, BeginningKeepsBusy DEF StartCommit, Labels, Kinds
  <2>3. CASE StartReplace(t)
    BY <2>3, BeginningKeepsBusy DEF StartReplace, Labels, Kinds
  <2> QED
    BY <1>2, <2>1, <2>2, <2>3 DEF Beginning
<1>3. ASSUME NEW t \in Threads, Middle(t) PROVE BusyInv'
  BY <1>3, MiddleGoesOn, GoingOnKeepsBusy
<1> QED
  BY <1>1, <1>2, <1>3, Steps

-----------------------------------------------------------------------------
(* In what order. *)

(* What leaves the log, the cache and the claims alone, and lets no thread *)
(* start publishing, keeps the order.                                      *)
Harmless ==
  /\ UNCHANGED <<lastCommitted, cache, log>>
  /\ \A t \in Threads :
       Publishing(t)' => pc'[t] = pc[t] /\ entry'[t] = entry[t]

LEMMA HarmlessKeepsOrder ==
  ASSUME OrderInv, Harmless
  PROVE  OrderInv'
  BY DEF OrderInv, Harmless, LogIsClaimed, NeverBackwards, InHand, Publishing

LEMMA MostAreHarmless ==
  ASSUME ThreadInv, NEW t \in Threads,
         \/ \E k \in Kinds : StartLoad(t, k)
         \/ \E token \in DOMAIN prepared : StartCommit(t, token)
         \/ Middle(t) /\ ~Claim(t) /\ ~WriteCache(t) /\ ~BumpGeneration(t) /\ ~QueueHooks(t)
  PROVE  Harmless
<1> USE DEF Harmless, Publishing, ThreadInv, inner, published, calls
<1>1. CASE \E k \in Kinds : StartLoad(t, k)
  BY <1>1 DEF StartLoad, Goto
<1>2. CASE \E token \in DOMAIN prepared : StartCommit(t, token)
  BY <1>2 DEF StartCommit, Goto
<1>3. CASE Refused(t) \/ Accepted(t) \/ RefusedLate(t) \/ Prepared(t)
  BY <1>3 DEF Refused, Accepted, RefusedLate, Prepared, Goto, Finish
<1>4. CASE DrawSequence(t) \/ Stage(t) \/ EngineInstall(t) \/ ReadInstalled(t) \/ TakeStaged(t)
  BY <1>4 DEF DrawSequence, Stage, EngineInstall, ReadInstalled, TakeStaged, Goto
<1>5. CASE NothingStaged(t) \/ Overtaken(t)
  BY <1>5 DEF NothingStaged, Overtaken, Return, Goto, Finish
<1> QED
  BY <1>1, <1>2, <1>3, <1>4, <1>5 DEF Middle

(* While one thread publishes no other does. *)
LEMMA OnePublishes ==
  ASSUME ThreadInv, BusyInv, NEW t \in Threads,
         pc[t] \in {"claim", "write", "bump", "queue"}
  PROVE  \A s \in Threads \ {t} : pc[s] \in {"idle", "validate"}
<1>1. Busy(t)
  BY DEF Busy, BusyInv, CandidatesAtTheDoor
<1>2. ASSUME NEW s \in Threads \ {t} PROVE pc[s] \in {"idle", "validate"}
  <2>1. ~Busy(s)
    BY <1>1 DEF BusyInv, OneIsBusy
  <2> QED
    BY <2>1 DEF Busy, BusyInv, CandidatesAtTheDoor
<1> QED
  BY <1>2

LEMMA ReplaceKeepsOrder ==
  ASSUME IInv, OrderInv, NEW t \in Threads, StartReplace(t)
  PROVE  OrderInv'
<1>1. /\ UNCHANGED <<lastCommitted, cache, log>>
      /\ \A s \in Threads \ {t} : pc'[s] = pc[s] /\ entry'[s] = entry[s]
      /\ pc'[t] = "write" /\ entry'[t].sequence = 0 /\ entry'[t].by = "replace"
  BY DEF StartReplace, Goto, IInv, ThreadInv, inner, published, calls
<1>2. InHand(t)'
  BY <1>1 DEF InHand, IInv, SharedInv
<1>3. \A s \in Threads \ {t} : InHand(s)'
  BY <1>1 DEF OrderInv, InHand, Publishing
<1> QED
  BY <1>1, <1>2, <1>3 DEF OrderInv, LogIsClaimed, NeverBackwards

LEMMA ClaimKeepsOrder ==
  ASSUME IInv, BusyInv, OrderInv, NEW t \in Threads, Claim(t)
  PROVE  OrderInv'
<1>1. /\ UNCHANGED <<cache, log, entry>> /\ pc'[t] = "write"
      /\ \A s \in Threads \ {t} : pc'[s] = pc[s] /\ ~Publishing(s)
      /\ entry[t].sequence > lastCommitted /\ lastCommitted' = entry[t].sequence
  BY OnePublishes DEF Claim, Goto, IInv, ThreadInv, published, calls, Publishing
<1>2. /\ lastCommitted \in Nat /\ entry[t].sequence \in Nat
      /\ \A i \in DOMAIN log : log[i].sequence \in Nat
  <2>1. entry[t] \in Publishable
    BY DEF Claim, IInv, ThreadInv, HoldsADocument
  <2>2. \A i \in DOMAIN log : log[i] \in Publishable
    BY ElementOfSeq, LenProperties DEF IInv, SharedInv
  <2> QED
    BY <2>1, <2>2 DEF Publishable, Doc, IInv, SharedInv
<1>3. \A i \in DOMAIN log : log[i].sequence < entry[t].sequence
  BY <1>1, <1>2 DEF OrderInv, LogIsClaimed
<1>4. \A s \in Threads : InHand(s)'
  BY <1>1, <1>2, <1>3 DEF InHand, Publishing
<1>5. LogIsClaimed'
  BY <1>1, <1>2, <1>3 DEF LogIsClaimed
<1> QED
  BY <1>1, <1>4, <1>5 DEF OrderInv, NeverBackwards

LEMMA WritingKeepsOrder ==
  ASSUME IInv, BusyInv, OrderInv, NEW t \in Threads, WriteCache(t) \/ BumpGeneration(t)
  PROVE  OrderInv'
<1>1. /\ UNCHANGED <<lastCommitted, log, entry>>
      /\ \A s \in Threads \ {t} : pc'[s] = pc[s] /\ ~Publishing(s)
      /\ Publishing(t) /\ cache' = entry[t]
  BY OnePublishes
     DEF WriteCache, BumpGeneration, Goto, IInv, ThreadInv, inner, calls, Publishing,
         OrderInv, InHand
<1>2. \A s \in Threads : InHand(s)'
  BY <1>1 DEF OrderInv, InHand, Publishing
<1> QED
  BY <1>1, <1>2 DEF OrderInv, LogIsClaimed, NeverBackwards

LEMMA QueueKeepsOrder ==
  ASSUME IInv, BusyInv, OrderInv, NEW t \in Threads, QueueHooks(t)
  PROVE  OrderInv'
<1>1. /\ UNCHANGED <<lastCommitted, cache>> /\ log' = Append(log, entry[t])
      /\ \A s \in Threads \ {t} : pc'[s] = pc[s] /\ ~Publishing(s)
      /\ Publishing(t) /\ pc'[t] \in {"explicit", "idle"}
  BY OnePublishes
     DEF QueueHooks, Return, Finish, Goto, IInv, ThreadInv, inner, published, Publishing
<1>2. /\ DOMAIN log' = 1..(Len(log) + 1) /\ DOMAIN log = 1..Len(log) /\ Len(log) \in Nat
      /\ \A i \in DOMAIN log : log'[i] = log[i]
      /\ log'[Len(log) + 1] = entry[t]
  <2>1. log \in Seq(Publishable) /\ entry[t] \in Publishable
    BY DEF QueueHooks, IInv, SharedInv, ThreadInv, HoldsADocument
  <2> QED
    BY <1>1, <2>1, AppendProperties, LenProperties
<1>3. \A s \in Threads : InHand(s)'
  BY <1>1 DEF InHand, Publishing
<1>4. LogIsClaimed'
  BY <1>1, <1>2 DEF OrderInv, LogIsClaimed, InHand
<1>5. NeverBackwards'
  <2> SUFFICES ASSUME NEW i \in DOMAIN log', NEW j \in DOMAIN log',
                      i < j, log'[j].by # "replace"
               PROVE  log'[i].sequence < log'[j].sequence
    BY DEF NeverBackwards
  <2>1. i \in DOMAIN log
    BY <1>2
  <2>2. CASE j \in DOMAIN log
    BY <1>2, <2>1, <2>2 DEF OrderInv, NeverBackwards
  <2>3. CASE j = Len(log) + 1
    BY <1>1, <1>2, <2>1, <2>3 DEF OrderInv, InHand
  <2> QED
    BY <1>2, <2>2, <2>3
<1> QED
  BY <1>3, <1>4, <1>5 DEF OrderInv

LEMMA OrderKept ==
  ASSUME IInv, BusyInv, OrderInv, [Next]_vars
  PROVE  OrderInv'
<1>1. CASE Aside
  BY <1>1, AsideTouchesNothing, HarmlessKeepsOrder
     DEF Harmless, inner, published, thread
<1>2. ASSUME NEW t \in Threads, Beginning(t) \/ Middle(t) PROVE OrderInv'
  BY <1>2, MostAreHarmless, HarmlessKeepsOrder, ReplaceKeepsOrder, ClaimKeepsOrder,
     WritingKeepsOrder, QueueKeepsOrder DEF Beginning, IInv
<1> QED
  BY <1>1, <1>2, Steps

LEMMA AwaitedInductive ==
  ASSUME Awaited
  PROVE  Spec => [](IInv /\ AwaitedInv)
<1>1. Init => AwaitedInv
  BY DEF Init, AwaitedInv, BusyInv, OneIsBusy, Busy, CandidatesAtTheDoor, OrderInv,
         LogIsClaimed, NeverBackwards, InHand, Publishing
<1>2. IInv /\ AwaitedInv /\ [Next]_vars => AwaitedInv'
  BY BusyKept, OrderKept DEF IInv, AwaitedInv
<1> QED
  BY <1>1, <1>2, Inductive, PTL DEF Spec

(***************************************************************************)
(* In a program that awaits its operations the hooks are called in the     *)
(* order of the validations.                                               *)
(***************************************************************************)
THEOREM HooksAreCalledInOrder ==
  ASSUME Awaited
  PROVE  Spec => []NeverBackwards
<1>1. AwaitedInv => NeverBackwards
  BY DEF AwaitedInv, OrderInv
<1> QED
  BY <1>1, AwaitedInductive, PTL

-----------------------------------------------------------------------------
(* The refinement. *)

(* The stage is that of the one thread that publishes. *)
LEMMA StageOf ==
  ASSUME ThreadInv, BusyInv, NEW t \in Threads, Publishing(t)
  PROVE  Stages = IF pc[t] = "bump" THEN "written"
                  ELSE IF pc[t] = "queue" THEN "counted" ELSE "announced"
  BY OnePublishes DEF Publishing, Stages, Reached

LEMMA HarmlessStutters ==
  ASSUME ThreadInv, UNCHANGED <<cache, generation, log>>,
         \A t \in Threads : pc'[t] = pc[t] \/ {pc[t], pc'[t]} \cap {"bump", "queue"} = {}
  PROVE  UNCHANGED Contract!state
<1>1. UNCHANGED Stages
  BY DEF Stages, Reached
<1> QED
  BY <1>1 DEF Contract!state

LEMMA RefinesStep ==
  ASSUME IInv, BusyInv, BusyInv', OrderInv, [Next]_vars
  PROVE  [Contract!Next]_Contract!state
<1>1. CASE Aside
  BY <1>1, AsideTouchesNothing, HarmlessStutters DEF IInv, published, thread
<1>2. ASSUME NEW t \in Threads, Beginning(t) PROVE UNCHANGED Contract!state
  <2>1. UNCHANGED <<cache, generation, log>>
    BY <1>2 DEF Beginning, StartLoad, StartCommit, StartReplace, published, calls
  <2>2. \A s \in Threads : pc'[s] = pc[s] \/ {pc[s], pc'[s]} \cap {"bump", "queue"} = {}
    BY <1>2 DEF Beginning, StartLoad, StartCommit, StartReplace, Begins, Goto,
                IInv, ThreadInv
  <2> QED
    BY <2>1, <2>2, HarmlessStutters DEF IInv
<1>3. ASSUME NEW t \in Threads, Refused(t) \/ Accepted(t) \/ RefusedLate(t) \/ Prepared(t)
             \/ DrawSequence(t) \/ Stage(t) \/ EngineInstall(t) \/ ReadInstalled(t)
      PROVE  UNCHANGED Contract!state
  <2>1. UNCHANGED <<cache, generation, log>>
    BY <1>3 DEF Refused, Accepted, RefusedLate, Prepared, DrawSequence, Stage,
                EngineInstall, ReadInstalled, published, calls
  <2>2. \A s \in Threads : pc'[s] = pc[s] \/ {pc[s], pc'[s]} \cap {"bump", "queue"} = {}
    BY <1>3 DEF Refused, Accepted, RefusedLate, Prepared, DrawSequence, Stage,
                EngineInstall, ReadInstalled, Goto, Finish, IInv, ThreadInv
  <2> QED
    BY <2>1, <2>2, HarmlessStutters DEF IInv
<1>4. ASSUME NEW t \in Threads,
             TakeStaged(t) \/ NothingStaged(t) \/ Claim(t) \/ Overtaken(t)
      PROVE  UNCHANGED Contract!state
  <2>1. UNCHANGED <<cache, generation, log>>
    BY <1>4 DEF TakeStaged, NothingStaged, Claim, Overtaken, published, calls
  <2>2. \A s \in Threads : pc'[s] = pc[s] \/ {pc[s], pc'[s]} \cap {"bump", "queue"} = {}
    BY <1>4 DEF TakeStaged, NothingStaged, Claim, Overtaken, Return, Goto, Finish,
                IInv, ThreadInv
  <2> QED
    BY <2>1, <2>2, HarmlessStutters DEF IInv
<1>5. ASSUME NEW t \in Threads, WriteCache(t) PROVE Contract!Write
  <2>1. /\ entry[t] \in Publishable /\ cache' = entry[t]
        /\ UNCHANGED <<generation, log>> /\ Publishing(t)
        /\ pc[t] = "write" /\ pc'[t] = "bump"
    BY <1>5 DEF WriteCache, Goto, calls, IInv, ThreadInv, HoldsADocument, Publishing
  <2>2. Stages = "announced"
    BY <2>1, StageOf DEF IInv
  <2>3. Stages' = "written"
    BY <2>1 DEF Stages, Reached
  <2>4. Contract!MayFollow(entry[t])
    BY <2>1 DEF Contract!MayFollow, Publishable, OrderInv, InHand
  <2> QED
    BY <2>1, <2>2, <2>3, <2>4, PublishableIsDoc DEF Contract!Write, Contract!MayFollow
<1>6. ASSUME NEW t \in Threads, BumpGeneration(t) PROVE Contract!Count
  <2>1. /\ UNCHANGED <<cache, log>> /\ Publishing(t) /\ generation' = generation + 1
        /\ pc[t] = "bump" /\ pc'[t] = "queue"
        /\ \A s \in Threads \ {t} : pc'[s] = pc[s] /\ pc[s] \in {"idle", "validate"}
    BY <1>6, OnePublishes DEF BumpGeneration, Goto, calls, IInv, ThreadInv, Publishing
  <2>2. Stages = "written"
    BY <2>1, StageOf DEF IInv
  <2>3. Stages' = "counted"
    BY <2>1 DEF Stages, Reached
  <2> QED
    BY <2>1, <2>2, <2>3 DEF Contract!Count
<1>7. ASSUME NEW t \in Threads, QueueHooks(t) PROVE Contract!Announce
  <2>1. /\ UNCHANGED <<cache, generation>> /\ Publishing(t) /\ log' = Append(log, cache)
        /\ pc[t] = "queue" /\ pc'[t] \in {"explicit", "idle"}
        /\ \A s \in Threads \ {t} : pc'[s] = pc[s] /\ pc[s] \in {"idle", "validate"}
    BY <1>7, OnePublishes
       DEF QueueHooks, Return, Finish, Goto, published, IInv, ThreadInv, Publishing,
           OrderInv, InHand
  <2>2. Stages = "counted"
    BY <2>1, StageOf DEF IInv
  <2>3. Stages' = "announced"
    BY <2>1 DEF Stages, Reached
  <2> QED
    BY <2>1, <2>2, <2>3 DEF Contract!Announce
<1> QED
  BY <1>1, <1>2, <1>3, <1>4, <1>5, <1>6, <1>7, Steps DEF Middle, Contract!Next

(***************************************************************************)
(* What a reader and a listener see of a program that awaits its           *)
(* operations is a register that one document at a time is written to.     *)
(***************************************************************************)
THEOREM Refinement ==
  ASSUME Awaited
  PROVE  Spec => ImplementsPublication
<1>1. Init => Contract!Init
  BY DEF Init, Contract!Init, Stages, Reached
<1>2. (IInv /\ AwaitedInv) /\ (IInv /\ AwaitedInv)' /\ [Next]_vars
        => [Contract!Next]_Contract!state
  BY RefinesStep DEF AwaitedInv
<1> QED
  BY <1>1, <1>2, AwaitedInductive, PTL DEF Spec, ImplementsPublication, Contract!Spec
=============================================================================
