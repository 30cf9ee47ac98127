---------------------------- MODULE Staging_proofs ----------------------------
(***************************************************************************)
(* What becomes of what is staged, in a configuration whose loads all go   *)
(* on to install: none is prepared, and the engine refuses none that was   *)
(* accepted.                                                               *)
(*                                                                         *)
(* If its operations are awaited as well, the staging area holds at most   *)
(* the validation of the one under way, from Stage until one of its two    *)
(* commits takes it: the published document is the engine's, and is        *)
(* published once.  If they overlap, every staged validation has a thread  *)
(* of its own that is still to run the reload hook with an equal tree,     *)
(* although not the thread that staged it: nothing stays.                  *)
(***************************************************************************)
EXTENDS Publication_proofs, FiniteSetTheorems

NoPrepares == \A t \in Threads : "prepare" \notin Does[t]

Plain == Awaited /\ ~LateRefusals /\ NoPrepares

(* Nothing is prepared, so nothing is left for a commit. *)
KindInv(t) ==
  /\ pc[t] # "token"
  /\ pc[t] = "validate" => kind[t] \in EngineLoads \cup {"load"}
  /\ pc[t] \in {"sequence", "stage", "install", "take", "explicit", "claim"} =>
       kind[t] \in EngineLoads
  /\ pc[t] \in {"write", "bump", "queue"} => kind[t] \in EngineLoads \cup {"replace"}
  /\ kind[t] = "replace" => pc[t] \in {"write", "bump", "queue"} /\ round[t] = "explicit"
  /\ pc[t] \in {"idle", "validate", "sequence", "stage", "install"} =>
       round[t] = "hook" /\ rounds[t] = 0

NothingPrepared == prepared = <<>> /\ \A t \in Threads : KindInv(t)

(* Numbers are claimed after they are drawn. *)
Drawn ==
  /\ lastCommitted <= nextSequence
  /\ \A i \in DOMAIN staged : staged[i].sequence <= nextSequence
  /\ \A t \in Threads : pc[t] \in {"stage", "claim"} => entry[t].sequence <= nextSequence

(* What is published is the engine's, or was handed to replace(). *)
Settled ==
  installed # NoTree =>
    cache # NoDoc /\ (cache.tree = installed \/ cache.by = "replace")

(* The validation of this load is still to be published, or is published. *)
Waiting(t) ==
  /\ Len(staged) = 1 /\ staged[1].tree = tree[t]
  /\ staged[1].sequence > lastCommitted /\ rounds[t] = 0

Published(t) == staged = <<>> /\ cache # NoDoc /\ cache.tree = tree[t]

(* How far the one operation under way has come. *)
Stands(t) ==
  /\ pc[t] \in {"validate", "sequence", "stage"} => staged = <<>> /\ Settled
  /\ pc[t] = "stage" => entry[t].tree = tree[t] /\ entry[t].sequence > lastCommitted
  /\ pc[t] = "install" => Waiting(t)
  /\ pc[t] \in {"take", "explicit"} =>
       /\ installed = tree[t]
       /\ Waiting(t) \/ Published(t)
  /\ pc[t] = "take" /\ round[t] = "hook" => Waiting(t)
  /\ pc[t] \in {"claim", "write", "bump", "queue"} => staged = <<>> /\ rounds[t] = 0
  /\ pc[t] \in {"claim", "write", "bump", "queue"} /\ kind[t] # "replace" =>
       installed = tree[t] /\ entry[t].tree = tree[t]
  /\ pc[t] = "claim" => entry[t].sequence > lastCommitted
  /\ kind[t] = "replace" => entry[t].by = "replace"

Serial ==
  /\ (\A t \in Threads : ~Busy(t)) => staged = <<>> /\ Settled
  /\ \A t \in Threads : Busy(t) => Stands(t)

ReloadInv == NothingPrepared /\ Drawn /\ Serial

-----------------------------------------------------------------------------
LEMMA InitReloadInv == Init => ReloadInv
<1> SUFFICES ASSUME Init PROVE ReloadInv
  OBVIOUS
<1>1. NothingPrepared
  BY DEF Init, NothingPrepared, KindInv
<1>2. Drawn
  BY DEF Init, Drawn
<1>3. Serial
  BY DEF Init, Serial, Settled, Busy
<1> QED
  BY <1>1, <1>2, <1>3 DEF ReloadInv

(* Where a commit returns to, and what kind of operation goes there. *)
LEMMA ReturnKinds ==
  ASSUME ThreadInv, NEW t \in Threads, KindInv(t), NEW handed \in Nat, Return(t, handed),
         pc[t] \in {"take", "claim", "queue"}
  PROVE  KindInv(t)' /\ \A s \in Threads \ {t} : KindInv(s) => KindInv(s)'
<1>1. CASE round[t] = "hook" /\ kind[t] # "watch"
  BY <1>1 DEF Return, Goto, ThreadInv, KindInv
<1>2. CASE ~(round[t] = "hook" /\ kind[t] # "watch")
  BY <1>2 DEF Return, Finish, Goto, ThreadInv, KindInv
<1> QED
  BY <1>1, <1>2

LEMMA KindsKept ==
  ASSUME NoPrepares, ThreadInv, NothingPrepared, [Next]_vars
  PROVE  NothingPrepared'
<1> USE DEF NothingPrepared
<1>1. CASE Aside
  BY <1>1 DEF Aside, Subscription, OnReload, RemoveHook, Deliver, Discard, KindInv,
              vars, inner, published, calls, commits, engine, thread
<1>2. ASSUME NEW t \in Threads, Beginning(t) PROVE NothingPrepared'
  <2>1. ASSUME NEW k \in Kinds, StartLoad(t, k) PROVE NothingPrepared'
    <3>1. k \in EngineLoads \cup {"load"} /\ UNCHANGED <<prepared, round, rounds>>
      BY <2>1 DEF StartLoad, Begins, NoPrepares, commits
    <3>2. /\ pc'[t] = "validate" /\ kind'[t] = k /\ pc[t] = "idle"
          /\ \A s \in Threads \ {t} : pc'[s] = pc[s] /\ kind'[s] = kind[s]
      BY <2>1 DEF StartLoad, Begins, Goto, ThreadInv
    <3> QED
      BY <3>1, <3>2 DEF KindInv, EngineLoads
  <2>2. CASE StartReplace(t)
    <3>1. /\ pc'[t] = "write" /\ kind'[t] = "replace" /\ UNCHANGED <<prepared, rounds>>
          /\ \A s \in Threads \ {t} :
               pc'[s] = pc[s] /\ kind'[s] = kind[s] /\ round'[s] = round[s]
      BY <2>2 DEF StartReplace, Begins, Goto, ThreadInv, commits
    <3>2. round'[t] = "explicit"
      BY <2>2 DEF StartReplace, ThreadInv
    <3> QED
      BY <3>1, <3>2 DEF KindInv
  <2> QED
    BY <1>2, <2>1, <2>2 DEF Beginning
<1>3. ASSUME NEW t \in Threads, Middle(t) PROVE NothingPrepared'
  <2>1. CASE Refused(t) \/ Accepted(t) \/ RefusedLate(t)
    BY <2>1 DEF Refused, Accepted, RefusedLate, Finish, Goto, ThreadInv, KindInv, commits
  <2>2. CASE DrawSequence(t) \/ Stage(t) \/ TakeStaged(t)
    BY <2>2 DEF DrawSequence, Stage, TakeStaged, Goto, ThreadInv, KindInv, commits, EngineLoads
  <2>3. CASE EngineInstall(t) \/ ReadInstalled(t)
    BY <2>3 DEF EngineInstall, ReadInstalled, Goto, ThreadInv, KindInv, commits
  <2>4. CASE Claim(t) \/ WriteCache(t) \/ BumpGeneration(t)
    BY <2>4 DEF Claim, WriteCache, BumpGeneration, Goto, ThreadInv, KindInv, commits
  <2>5. CASE NothingStaged(t) \/ Overtaken(t) \/ QueueHooks(t)
    BY <2>5, ReturnKinds DEF NothingStaged, Overtaken, QueueHooks, commits
  <2>6. ~Prepared(t)
    BY DEF Prepared, KindInv
  <2> QED
    BY <1>3, <2>1, <2>2, <2>3, <2>4, <2>5, <2>6 DEF Middle
<1> QED
  BY <1>1, <1>2, <1>3, Steps

LEMMA DrawnKept ==
  ASSUME IInv, Drawn, NothingPrepared, [Next]_vars
  PROVE  Drawn'
<1>0. /\ nextSequence \in Nat /\ lastCommitted \in Nat /\ staged \in Seq(Publishable)
      /\ \A t \in Threads : entry[t] # NoDoc => entry[t].sequence \in Nat
      /\ \A i \in DOMAIN staged : staged[i].sequence \in Nat
  <2>1. \A d \in Publishable : d.sequence \in Nat
    BY DEF Publishable, Doc
  <2>2. \A i \in DOMAIN staged : staged[i] \in Publishable
    BY ElementOfSeq, LenProperties DEF IInv, SharedInv
  <2> QED
    BY <2>1, <2>2 DEF IInv, SharedInv, ThreadInv
<1> DEFINE Still == /\ UNCHANGED <<staged, nextSequence, lastCommitted>>
                    /\ \A t \in Threads : pc'[t] \in {"stage", "claim"} =>
                         pc'[t] = pc[t] /\ entry'[t] = entry[t]
<1>1. Still => Drawn'
  BY DEF Drawn
<1>2. CASE Aside
  BY <1>1, <1>2, AsideTouchesNothing DEF inner, thread
<1>3. ASSUME NEW t \in Threads, Beginning(t) PROVE Drawn'
  BY <1>1, <1>3 DEF Beginning, StartLoad, StartCommit, StartReplace, Goto, IInv, ThreadInv, inner
<1>4. ASSUME NEW t \in Threads, Middle(t) PROVE Drawn'
  <2>1. CASE Refused(t) \/ Accepted(t) \/ RefusedLate(t) \/ Prepared(t)
    BY <1>1, <2>1 DEF Refused, Accepted, RefusedLate, Prepared, Finish, Goto, IInv, ThreadInv, inner
  <2>2. CASE EngineInstall(t) \/ ReadInstalled(t) \/ WriteCache(t) \/ BumpGeneration(t)
    BY <1>1, <2>2 DEF EngineInstall, ReadInstalled, WriteCache, BumpGeneration, Goto, IInv,
                      ThreadInv, inner
  <2>3. CASE NothingStaged(t) \/ Overtaken(t) \/ QueueHooks(t)
    BY <1>1, <2>3 DEF NothingStaged, Overtaken, QueueHooks, Return, Finish, Goto, IInv,
                      ThreadInv, inner
  <2>4. CASE DrawSequence(t)
    <3>1. /\ nextSequence' = nextSequence + 1 /\ UNCHANGED <<staged, lastCommitted>>
          /\ entry'[t].sequence = nextSequence + 1
          /\ \A s \in Threads \ {t} : pc'[s] = pc[s] /\ entry'[s] = entry[s]
      BY <2>4 DEF DrawSequence, Goto, IInv, ThreadInv
    <3>2. \A s \in Threads : pc[s] \in {"stage", "claim"} => entry[s].sequence \in Nat
      BY <1>0 DEF IInv, ThreadInv, HoldsADocument
    <3> QED
      BY <1>0, <3>1, <3>2 DEF Drawn
  <2>5. CASE Stage(t)
    <3>1. /\ staged' = Trim(Append(staged, entry[t])) /\ pc[t] = "stage"
          /\ entry[t] \in Publishable
          /\ UNCHANGED <<nextSequence, lastCommitted, entry>>
          /\ pc'[t] \in {"token", "install"} /\ \A s \in Threads \ {t} : pc'[s] = pc[s]
      BY <2>5 DEF Stage, Goto, IInv, ThreadInv, HoldsADocument
    <3>2. \A j \in DOMAIN staged' :
            staged'[j] = entry[t] \/ \E k \in DOMAIN staged : staged'[j] = staged[k]
      BY <1>0, <3>1, TrimElements
    <3> QED
      BY <3>1, <3>2 DEF Drawn
  <2>6. CASE TakeStaged(t)
    <3>1. PICK i \in Matches(t) : /\ entry' = [entry EXCEPT ![t] = staged[i]]
                                  /\ staged' = Without(staged, i)
      BY <2>6 DEF TakeStaged
    <3>2. /\ i \in DOMAIN staged /\ entry'[t] = staged[i]
          /\ UNCHANGED <<nextSequence, lastCommitted>>
          /\ \A s \in Threads \ {t} : pc'[s] = pc[s] /\ entry'[s] = entry[s]
      BY <2>6, <3>1 DEF TakeStaged, Matches, Goto, IInv, ThreadInv
    <3>3. \A j \in DOMAIN staged' : \E k \in DOMAIN staged : staged'[j] = staged[k]
      <4>1. DOMAIN staged = 1..Len(staged) /\ Len(staged) \in Nat
        BY <1>0, LenProperties
      <4>2. /\ DOMAIN staged' = 1..(Len(staged) - 1)
            /\ \A j \in 1..(Len(staged) - 1) :
                 staged'[j] = IF j < i THEN staged[j] ELSE staged[j + 1]
        BY <1>0, <3>1, <3>2, <4>1, WithoutElements
      <4> QED
        BY <4>1, <4>2
    <3> QED
      BY <3>2, <3>3 DEF Drawn
  <2>7. CASE Claim(t)
    <3>1. /\ pc[t] = "claim" /\ lastCommitted' = entry[t].sequence
          /\ UNCHANGED <<staged, nextSequence, entry>>
          /\ pc'[t] = "write" /\ \A s \in Threads \ {t} : pc'[s] = pc[s]
      BY <2>7 DEF Claim, Goto, IInv, ThreadInv
    <3> QED
      BY <3>1 DEF Drawn
  <2> QED
    BY <1>4, <2>1, <2>2, <2>3, <2>4, <2>5, <2>6, <2>7 DEF Middle
<1> QED
  BY <1>2, <1>3, <1>4, Steps

-----------------------------------------------------------------------------
(* The one operation under way. *)

(* While one is under way, it alone says how things stand. *)
LEMMA OneStands ==
  ASSUME ThreadInv, BusyInv, NEW t \in Threads, Busy(t),
         \A s \in Threads \ {t} : pc'[s] = pc[s] /\ kind'[s] = kind[s],
         Busy(t)' => Stands(t)',
         ~Busy(t)' => staged' = <<>> /\ Settled'
  PROVE  Serial'
<1>1. \A s \in Threads \ {t} : ~Busy(s)'
  BY DEF BusyInv, OneIsBusy, Busy
<1> QED
  BY <1>1 DEF Serial

(* A candidate that begins or ends changes nothing of this. *)
LEMMA CandidateStands ==
  ASSUME ThreadInv, Serial, UNCHANGED <<inner, cache, installed>>, NEW t \in Threads,
         ~Busy(t), ~Busy(t)',
         \A s \in Threads \ {t} :
           /\ pc'[s] = pc[s] /\ kind'[s] = kind[s] /\ tree'[s] = tree[s]
           /\ entry'[s] = entry[s] /\ round'[s] = round[s] /\ rounds'[s] = rounds[s]
  PROVE  Serial'
<1>1. \A s \in Threads : Busy(s)' <=> Busy(s)
  BY DEF Busy
<1>2. \A s \in Threads : Busy(s) => Stands(s)'
  BY DEF Serial, Stands, Settled, Waiting, Published, inner
<1> QED
  BY <1>1, <1>2 DEF Serial, Settled, inner

LEMMA BeginningStands ==
  ASSUME Plain, IInv, BusyInv, ReloadInv, NEW t \in Threads, Beginning(t)
  PROVE  Serial'
<1>1. ASSUME NEW k \in Kinds, StartLoad(t, k) PROVE Serial'
  <2>1. /\ UNCHANGED <<inner, cache, installed, entry, round, rounds>>
        /\ pc[t] = "idle" /\ pc'[t] = "validate" /\ kind'[t] = k
        /\ \A s \in Threads \ {t} :
             pc'[s] = pc[s] /\ kind'[s] = kind[s] /\ tree'[s] = tree[s]
    BY <1>1 DEF StartLoad, Begins, Goto, IInv, ThreadInv, published
  <2>2. CASE k = "load"
    BY <2>1, <2>2, CandidateStands DEF IInv, ReloadInv, Busy
  <2>3. CASE k # "load"
    <3>1. \A s \in Threads : ~Busy(s)
      BY <1>1, <2>3 DEF StartLoad, Begins, Overlaps, Plain, Busy
    <3>2. staged = <<>> /\ Settled
      BY <3>1 DEF ReloadInv, Serial
    <3>3. k # "replace"
      BY <1>1 DEF StartLoad, EngineLoads
    <3>4. Stands(t)' /\ Busy(t)'
      BY <2>1, <2>3, <3>2, <3>3 DEF Stands, Settled, inner, Busy
    <3>5. \A s \in Threads \ {t} : ~Busy(s)'
      BY <2>1, <3>1 DEF Busy
    <3> QED
      BY <3>4, <3>5 DEF Serial
  <2> QED
    BY <2>2, <2>3
<1>2. CASE StartReplace(t)
  <2>1. /\ UNCHANGED <<inner, cache, installed, rounds>>
        /\ pc[t] = "idle" /\ pc'[t] = "write" /\ kind'[t] = "replace"
        /\ entry'[t].by = "replace"
        /\ \A s \in Threads \ {t} : pc'[s] = pc[s] /\ kind'[s] = kind[s]
    BY <1>2 DEF StartReplace, Begins, Goto, IInv, ThreadInv, published, engine
  <2>2. \A s \in Threads : ~Busy(s)
    BY <1>2 DEF StartReplace, Begins, Overlaps, Plain, Busy
  <2>3. staged = <<>> /\ rounds[t] = 0
    BY <2>1, <2>2 DEF ReloadInv, Serial, NothingPrepared, KindInv
  <2>4. Stands(t)' /\ Busy(t)'
    BY <2>1, <2>3 DEF Stands, inner, Busy
  <2>5. \A s \in Threads \ {t} : ~Busy(s)'
    BY <2>1, <2>2 DEF Busy
  <2> QED
    BY <2>4, <2>5 DEF Serial
<1>3. ASSUME NEW token \in DOMAIN prepared, StartCommit(t, token) PROVE FALSE
  BY DEF ReloadInv, NothingPrepared
<1> QED
  BY <1>1, <1>2, <1>3 DEF Beginning

LEMMA MiddleStands ==
  ASSUME Plain, IInv, BusyInv, OrderInv, ReloadInv, NEW t \in Threads, Middle(t)
  PROVE  Serial'
<1>1. /\ GoesOn(t)
      /\ \A s \in Threads \ {t} : pc'[s] = pc[s] /\ kind'[s] = kind[s]
  BY MiddleGoesOn DEF GoesOn, Goto, Finish, IInv, ThreadInv
<1>2. KindInv(t) /\ ThreadInv /\ (Busy(t) => Stands(t))
  BY DEF ReloadInv, NothingPrepared, Serial, IInv
<1>3. ASSUME Refused(t) \/ Accepted(t)
      PROVE  Serial'
  <2>1. /\ UNCHANGED <<inner, cache, installed>> /\ pc[t] = "validate"
        /\ \A s \in Threads \ {t} :
             /\ tree'[s] = tree[s] /\ entry'[s] = entry[s]
             /\ round'[s] = round[s] /\ rounds'[s] = rounds[s]
    BY <1>3 DEF Refused, Accepted, Finish, IInv, ThreadInv, published, engine
  <2>2. \/ pc'[t] = "idle"
        \/ pc'[t] = "sequence" /\ kind[t] # "load" /\ UNCHANGED kind
    BY <1>3 DEF Refused, Accepted, Finish, Goto, IInv, ThreadInv
  <2>3. CASE kind[t] = "load"
    BY <1>1, <2>1, <2>2, <2>3, CandidateStands DEF Busy, IInv, ReloadInv
  <2>4. CASE kind[t] # "load"
    <3>1. Busy(t) /\ staged = <<>> /\ Settled
      BY <1>2, <2>1, <2>4 DEF Busy, Stands
    <3>2. Busy(t)' => Stands(t)'
      BY <1>2, <2>1, <2>2, <3>1 DEF Busy, Stands, KindInv, Settled, inner
    <3>3. staged' = <<>> /\ Settled'
      BY <2>1, <3>1 DEF Settled, inner
    <3> QED
      BY <1>1, <1>2, <3>1, <3>2, <3>3, OneStands
  <2> QED
    BY <2>3, <2>4
<1>4. CASE DrawSequence(t)
  <2>1. /\ UNCHANGED <<staged, lastCommitted, cache, installed, kind, tree, rounds>>
        /\ pc[t] = "sequence" /\ pc'[t] = "stage" /\ kind[t] \in EngineLoads
        /\ entry'[t].tree = tree[t] /\ entry'[t].sequence = nextSequence + 1
    BY <1>2, <1>4 DEF DrawSequence, Goto, IInv, ThreadInv, published, engine, KindInv
  <2>2. nextSequence + 1 > lastCommitted
    BY DEF ReloadInv, Drawn, IInv, SharedInv
  <2>3. Busy(t) /\ Stands(t)'
    BY <1>2, <2>1, <2>2 DEF Busy, Stands, Settled, EngineLoads
  <2> QED
    BY <1>1, <1>2, <2>1, <2>3, OneStands DEF Busy, EngineLoads
<1>5. CASE Stage(t)
  <2>1. /\ UNCHANGED <<lastCommitted, cache, installed, kind, tree, entry, rounds>>
        /\ pc[t] = "stage" /\ pc'[t] = "install" /\ kind[t] \in EngineLoads
        /\ staged' = Trim(Append(staged, entry[t]))
    BY <1>2, <1>5 DEF Stage, Goto, IInv, ThreadInv, published, engine, KindInv, EngineLoads
  <2>2. Busy(t) /\ staged = <<>> /\ rounds[t] = 0
        /\ entry[t].tree = tree[t] /\ entry[t].sequence > lastCommitted
    BY <1>2, <2>1 DEF Busy, Stands, KindInv, EngineLoads
  <2>3. staged' = <<entry[t]>>
    BY <2>1, <2>2, BoundsAssumption DEF Trim
  <2>4. Stands(t)'
    BY <2>1, <2>2, <2>3 DEF Stands, Waiting, EngineLoads
  <2> QED
    BY <1>1, <1>2, <2>1, <2>2, <2>4, OneStands DEF Busy, EngineLoads
<1>6. CASE EngineInstall(t)
  <2>1. /\ UNCHANGED <<inner, cache, kind, tree, entry, rounds>>
        /\ pc[t] = "install" /\ pc'[t] \in {"take", "explicit"} /\ kind[t] \in EngineLoads
        /\ installed' = tree[t]
    BY <1>2, <1>6 DEF EngineInstall, Goto, IInv, ThreadInv, published, KindInv
  <2>2. Busy(t) /\ Waiting(t)
    BY <1>2, <2>1 DEF Busy, Stands, EngineLoads
  <2>3. Stands(t)'
    BY <2>1, <2>2 DEF Stands, Waiting, EngineLoads, inner
  <2> QED
    BY <1>1, <1>2, <2>1, <2>2, <2>3, OneStands DEF Busy, EngineLoads
<1>7. CASE ReadInstalled(t)
  <2>1. /\ UNCHANGED <<inner, cache, installed, kind, entry, rounds>>
        /\ pc[t] = "explicit" /\ pc'[t] = "take" /\ kind[t] \in EngineLoads
        /\ tree'[t] = installed /\ round'[t] = "explicit"
    BY <1>2, <1>7 DEF ReadInstalled, Goto, IInv, ThreadInv, published, engine, KindInv
  <2>2. Busy(t) /\ installed = tree[t] /\ (Waiting(t) \/ Published(t))
    BY <1>2, <2>1 DEF Busy, Stands, EngineLoads
  <2>3. Stands(t)'
    BY <2>1, <2>2 DEF Stands, Waiting, Published, EngineLoads, inner
  <2> QED
    BY <1>1, <1>2, <2>1, <2>2, <2>3, OneStands DEF Busy, EngineLoads
<1>8. CASE TakeStaged(t)
  <2>1. PICK i \in Matches(t) : /\ entry' = [entry EXCEPT ![t] = staged[i]]
                                /\ staged' = Without(staged, i)
    BY <1>8 DEF TakeStaged
  <2>2. /\ UNCHANGED <<lastCommitted, cache, installed, kind, tree, rounds>>
        /\ pc[t] = "take" /\ pc'[t] = "claim" /\ kind[t] \in EngineLoads
        /\ entry'[t] = staged[i]
    BY <1>2, <1>8, <2>1 DEF TakeStaged, Goto, IInv, ThreadInv, published, engine, KindInv
  <2>3. i \in 1..Len(staged) /\ staged \in Seq(Publishable)
    BY <2>1, LenProperties DEF Matches, IInv, SharedInv
  <2>4. Busy(t) /\ installed = tree[t] /\ Waiting(t)
    <3>1. Busy(t) /\ installed = tree[t] /\ (Waiting(t) \/ Published(t))
      BY <1>2, <2>2 DEF Busy, Stands, EngineLoads
    <3>2. staged # <<>>
      BY <2>3, EmptySeq
    <3> QED
      BY <3>1, <3>2 DEF Published
  <2>5. i = 1 /\ staged' = <<>>
    <3>1. i = 1
      BY <2>3, <2>4 DEF Waiting
    <3>2. Without(staged, i) \in Seq(Publishable) /\ Len(Without(staged, i)) = Len(staged) - 1
      BY <2>3, WithoutType
    <3>3. Len(staged') = 0
      BY <2>1, <2>4, <3>2 DEF Waiting
    <3> QED
      BY <2>1, <3>1, <3>2, <3>3, EmptySeq
  <2>6. Stands(t)'
    BY <2>2, <2>4, <2>5 DEF Stands, Waiting, EngineLoads
  <2> QED
    BY <1>1, <1>2, <2>2, <2>4, <2>6, OneStands DEF Busy, EngineLoads
<1>9. CASE Claim(t) \/ WriteCache(t) \/ BumpGeneration(t)
  <2>1. /\ UNCHANGED <<staged, installed, kind, tree, entry, rounds>>
        /\ pc[t] \in {"claim", "write", "bump"} /\ pc'[t] \in {"write", "bump", "queue"}
        /\ kind[t] \in EngineLoads \cup {"replace"}
    BY <1>2, <1>9 DEF Claim, WriteCache, BumpGeneration, Goto, IInv, ThreadInv, inner,
                      published, engine, KindInv
  <2>2. Busy(t)
    BY <2>1 DEF Busy, EngineLoads
  <2>3. Stands(t)'
    BY <1>2, <2>1, <2>2 DEF Stands
  <2> QED
    BY <1>1, <1>2, <2>1, <2>2, <2>3, OneStands DEF Busy, EngineLoads
<1>10. CASE NothingStaged(t)
  <2>1. /\ UNCHANGED <<inner, cache, installed>> /\ pc[t] = "take" /\ kind[t] \in EngineLoads
        /\ Matches(t) = {} /\ Return(t, 0)
    BY <1>2, <1>10 DEF NothingStaged, published, KindInv
  <2>2. ~Waiting(t)
    <3> SUFFICES ASSUME Waiting(t) PROVE FALSE
      OBVIOUS
    <3>1. 1 \in DOMAIN staged
      BY LenProperties DEF Waiting, IInv, SharedInv
    <3> QED
      BY <2>1, <3>1 DEF Matches, Waiting
  <2>3. Busy(t) /\ Published(t) /\ round[t] # "hook" /\ installed = tree[t]
    BY <1>2, <2>1, <2>2 DEF Busy, Stands, EngineLoads
  <2>4. Finish(t)
    BY <2>1, <2>3 DEF Return
  <2>5. ~Busy(t)' /\ staged' = <<>> /\ Settled'
    BY <2>1, <2>3, <2>4 DEF Finish, Goto, Busy, Published, Settled, inner, IInv, ThreadInv
  <2> QED
    BY <1>1, <1>2, <2>3, <2>5, OneStands
<1>11. CASE QueueHooks(t)
  <2>1. /\ UNCHANGED <<inner, cache, installed>> /\ pc[t] = "queue"
        /\ kind[t] \in EngineLoads \cup {"replace"} /\ Return(t, 1)
        /\ cache = entry[t] /\ entry[t] # NoDoc
    BY <1>2, <1>11 DEF QueueHooks, published, KindInv, OrderInv, InHand, ThreadInv,
                       HoldsADocument
  <2>2. Busy(t) /\ staged = <<>>
    BY <1>2, <2>1 DEF Busy, Stands, EngineLoads
  <2>3. kind[t] = "replace" => Finish(t) /\ cache.by = "replace"
    BY <1>2, <2>1, <2>2 DEF Return, KindInv, Stands
  <2>4. kind[t] # "replace" => Published(t) /\ installed = tree[t]
    BY <1>2, <2>1, <2>2 DEF Stands, Published
  <2>5. CASE Finish(t)
    <3>1. ~Busy(t)' /\ staged' = <<>> /\ Settled'
      BY <2>1, <2>2, <2>3, <2>4, <2>5
         DEF Finish, Goto, Busy, Published, Settled, inner, IInv, ThreadInv
    <3> QED
      BY <1>1, <1>2, <2>2, <3>1, OneStands
  <2>6. CASE ~Finish(t)
    <3>1. /\ pc'[t] = "explicit" /\ UNCHANGED <<kind, tree>>
      BY <2>1, <2>6 DEF Return, Goto, IInv, ThreadInv
    <3>2. Stands(t)' /\ Busy(t)'
      BY <2>1, <2>2, <2>3, <2>4, <2>6, <3>1 DEF Stands, Published, inner, Busy, EngineLoads
    <3> QED
      BY <1>1, <1>2, <2>2, <3>2, OneStands
  <2> QED
    BY <2>5, <2>6
<1>12. ~Overtaken(t)
  <2>1. pc[t] = "claim" => Busy(t) /\ entry[t].sequence > lastCommitted
    BY <1>2 DEF Busy, Stands, KindInv, EngineLoads
  <2>2. pc[t] = "claim" => entry[t].sequence \in Nat /\ lastCommitted \in Nat
    BY DEF IInv, ThreadInv, SharedInv, HoldsADocument, Publishable, Doc
  <2> QED
    BY <2>1, <2>2 DEF Overtaken
<1>13. ~Prepared(t) /\ ~RefusedLate(t)
  BY <1>2 DEF Prepared, KindInv, RefusedLate, Plain
<1> QED
  BY <1>3, <1>4, <1>5, <1>6, <1>7, <1>8, <1>9, <1>10, <1>11, <1>12, <1>13 DEF Middle

LEMMA SerialKept ==
  ASSUME Plain, IInv, BusyInv, OrderInv, ReloadInv, [Next]_vars
  PROVE  Serial'
<1>1. CASE Aside
  <2>1. UNCHANGED <<inner, cache, thread, installed>>
    BY <1>1, AsideTouchesNothing DEF Aside, Subscription, OnReload, RemoveHook, Deliver,
                                     Discard, vars, published, engine
  <2>2. \A t \in Threads : /\ Busy(t)' <=> Busy(t)
                           /\ Stands(t) => Stands(t)'
    BY <2>1 DEF thread, inner, Busy, Stands, Settled, Waiting, Published
  <2> QED
    BY <2>1, <2>2 DEF ReloadInv, Serial, Settled, inner
<1> QED
  BY <1>1, BeginningStands, MiddleStands, Steps

LEMMA PlainInductive ==
  ASSUME Plain
  PROVE  Spec => [](IInv /\ AwaitedInv /\ ReloadInv)
<1>1. Spec => [](IInv /\ AwaitedInv)
  BY AwaitedInductive DEF Plain
<1>2. IInv /\ AwaitedInv /\ ReloadInv /\ [Next]_vars => ReloadInv'
  BY KindsKept, DrawnKept, SerialKept DEF Plain, IInv, AwaitedInv, ReloadInv
<1> QED
  BY <1>1, <1>2, InitReloadInv, PTL DEF Spec

-----------------------------------------------------------------------------
(* The theorems. *)

(***************************************************************************)
(* When nothing is under way, the document that is read and the document   *)
(* status() and snapshot() describe are of one install, or replace() was   *)
(* called since.                                                           *)
(***************************************************************************)
THEOREM PublishedIsTheEngines ==
  ASSUME Plain
  PROVE  Spec => []PublishedIsInstalled
<1>1. Serial => PublishedIsInstalled
  BY DEF Serial, Busy, PublishedIsInstalled, Quiet, Settled
<1>2. ReloadInv => Serial
  BY DEF ReloadInv
<1> QED
  BY <1>1, <1>2, PlainInductive, PTL

(* Of its two attempts to publish, one operation succeeds with one. *)
THEOREM PublishesOnce ==
  ASSUME Plain
  PROVE  Spec => []OnePublicationEach
<1>1. ReloadInv => OnePublicationEach
  <2> SUFFICES ASSUME ReloadInv, NEW t \in Threads, pc[t] = "write" PROVE rounds[t] = 0
    BY DEF OnePublicationEach
  <2>1. Busy(t)
    BY DEF Busy, ReloadInv, NothingPrepared, KindInv, EngineLoads
  <2> QED
    BY <2>1 DEF ReloadInv, Serial, Stands
<1> QED
  BY <1>1, PlainInductive, PTL

(* Nothing stays in the staging area, not even of operations of all kinds. *)
THEOREM AwaitedLeavesNothing ==
  ASSUME Plain
  PROVE  Spec => []NothingLeftBehind
<1>1. Serial => NothingLeftBehind
  BY DEF Serial, Busy, NothingLeftBehind, Quiet
<1>2. ReloadInv => Serial
  BY DEF ReloadInv
<1> QED
  BY <1>1, <1>2, PlainInductive, PTL

(* The end of an init() or a reload(). *)
LEMMA EndIsPublished ==
  ASSUME IInv, OrderInv, ReloadInv, [Next]_vars, NEW t \in Threads, Finishes(t)
  PROVE  cache' # NoDoc /\ cache'.tree = tree[t]
<1>1. /\ pc[t] # "idle" /\ pc'[t] = "idle" /\ kind[t] \in {"init", "reload"}
      /\ round[t] = "explicit"
  BY DEF Finishes
<1>2. Busy(t) /\ KindInv(t) /\ Stands(t)
  BY <1>1 DEF Busy, ReloadInv, NothingPrepared, Serial
<1>3. ~Aside
  BY <1>1, AsideTouchesNothing DEF thread
<1>4. PICK s \in Threads : Beginning(s) \/ Middle(s)
  BY <1>3, Steps
<1>5. ~Beginning(s)
  BY <1>1 DEF Beginning, StartLoad, StartCommit, StartReplace, Begins, Goto, IInv, ThreadInv
<1>6. s = t
  <2> SUFFICES ASSUME s # t PROVE pc'[t] = pc[t]
    BY <1>1
  <2> QED
    BY <1>4, <1>5
       DEF Middle, Refused, Accepted, DrawSequence, Stage, RefusedLate, Prepared,
           EngineInstall, ReadInstalled, TakeStaged, NothingStaged, Claim, Overtaken,
           WriteCache, BumpGeneration, QueueHooks, Return, Finish, Goto, IInv, ThreadInv
<1>7. NothingStaged(t) \/ Overtaken(t) \/ QueueHooks(t)
  <2>1. pc[t] \notin {"validate", "install", "token"}
    BY <1>1, <1>2 DEF KindInv
  <2> QED
    BY <1>1, <1>4, <1>5, <1>6, <2>1
       DEF Middle, Refused, Accepted, DrawSequence, Stage, RefusedLate, Prepared,
           EngineInstall, ReadInstalled, TakeStaged, Claim, WriteCache, BumpGeneration,
           Goto, IInv, ThreadInv
<1>8. CASE NothingStaged(t)
  <2>1. Matches(t) = {} /\ pc[t] = "take" /\ cache' = cache
    BY <1>8 DEF NothingStaged, published
  <2>2. ~Waiting(t)
    <3> SUFFICES ASSUME Waiting(t) PROVE FALSE
      OBVIOUS
    <3>1. 1 \in DOMAIN staged
      BY LenProperties DEF Waiting, IInv, SharedInv
    <3> QED
      BY <2>1, <3>1 DEF Matches, Waiting
  <2> QED
    BY <1>2, <2>1, <2>2 DEF Stands, Published
<1>9. CASE QueueHooks(t)
  <2>1. cache' = cache /\ cache = entry[t] /\ entry[t] # NoDoc /\ pc[t] = "queue"
    BY <1>9 DEF QueueHooks, published, OrderInv, InHand, IInv, ThreadInv, HoldsADocument
  <2> QED
    BY <1>1, <1>2, <2>1 DEF Stands
<1>10. ~Overtaken(t)
  <2>1. pc[t] = "claim" => entry[t].sequence \in Nat /\ lastCommitted \in Nat
    BY DEF IInv, ThreadInv, SharedInv, HoldsADocument, Publishable, Doc
  <2> QED
    BY <1>2, <2>1 DEF Overtaken, Stands
<1> QED
  BY <1>7, <1>8, <1>9, <1>10

(***************************************************************************)
(* When an awaited init() or reload() comes back, what is published is of  *)
(* the tree the engine was found to serve.                                 *)
(***************************************************************************)
THEOREM ReloadsArePublished ==
  ASSUME Plain
  PROVE  Spec => ReloadIsPublished
<1>1. IInv /\ AwaitedInv /\ ReloadInv /\ [Next]_vars =>
        \A t \in Threads : Finishes(t) =>
          /\ cache' # NoDoc
          /\ \/ cache'.tree = tree[t] \/ cache'.sequence >= own[t]
             \/ cache'.by = "replace"
  BY EndIsPublished DEF AwaitedInv
<1> QED
  BY <1>1, PlainInductive, PTL DEF Spec, ReloadIsPublished

-----------------------------------------------------------------------------
(* Loads that overlap. *)

NoInits == \A t \in Threads : "init" \notin Does[t]

(* An init() may pass the reload hook by, so none is asked for. *)
Asked == \A t \in Threads : kind[t] \in Does[t] \cup {"none"}

(* The thread is still to take, in the reload hook, a validation of its tree. *)
WillTake(t, e) ==
  /\ pc[t] = "install" \/ (pc[t] = "take" /\ round[t] = "hook")
  /\ tree[t] = e.tree

(* Every staged validation has such a thread, and no two have the same. *)
Taker(f) ==
  /\ \A i \in DOMAIN staged : WillTake(f[i], staged[i])
  /\ \A i, j \in DOMAIN staged : f[i] = f[j] => i = j

EveryoneIsTaken == \E f \in [DOMAIN staged -> Threads] : Taker(f)

OverlapInv == NothingPrepared /\ Asked /\ EveryoneIsTaken

LEMMA InitOverlapInv == Init => OverlapInv
<1> SUFFICES ASSUME Init PROVE OverlapInv
  OBVIOUS
<1>1. NothingPrepared
  BY InitReloadInv DEF ReloadInv
<1>2. Asked
  BY DEF Init, Asked
<1>3. DOMAIN staged = {}
  BY DEF Init
<1>4. PICK f : f \in [DOMAIN staged -> Threads]
  <2>1. [i \in {} |-> i] \in [{} -> Threads]
    OBVIOUS
  <2> QED
    BY <1>3, <2>1
<1>5. EveryoneIsTaken
  BY <1>3, <1>4 DEF EveryoneIsTaken, Taker
<1> QED
  BY <1>1, <1>2, <1>5 DEF OverlapInv

LEMMA AskedKept ==
  ASSUME ThreadInv, Asked, [Next]_vars
  PROVE  Asked'
<1>1. CASE Aside
  BY <1>1, AsideTouchesNothing DEF thread, Asked
<1>2. ASSUME NEW t \in Threads, Beginning(t) PROVE Asked'
  BY <1>2 DEF Beginning, StartLoad, StartCommit, StartReplace, Begins, ThreadInv, Asked
<1>3. ASSUME NEW t \in Threads, Middle(t) PROVE Asked'
  <2>1. \A s \in Threads : kind'[s] \in {kind[s], "none"}
    BY <1>3 DEF Middle, Refused, Accepted, DrawSequence, Stage, RefusedLate, Prepared,
                EngineInstall, ReadInstalled, TakeStaged, NothingStaged, Claim, Overtaken,
                WriteCache, BumpGeneration, QueueHooks, Return, Finish, ThreadInv, engine
  <2> QED
    BY <2>1 DEF Asked
<1> QED
  BY <1>1, <1>2, <1>3, Steps

(* What neither stages nor takes leaves the takers as they are. *)
LEMMA TakersStay ==
  ASSUME EveryoneIsTaken, UNCHANGED staged,
         \A t \in Threads : \A i \in DOMAIN staged :
           WillTake(t, staged[i]) => WillTake(t, staged[i])'
  PROVE  EveryoneIsTaken'
<1>1. PICK f \in [DOMAIN staged -> Threads] : Taker(f)
  BY DEF EveryoneIsTaken
<1>2. \A i \in DOMAIN staged' : WillTake(f[i], staged[i])'
  BY <1>1 DEF Taker
<1>3. Taker(f)'
  BY <1>1, <1>2 DEF Taker
<1> QED
  BY <1>1, <1>3 DEF EveryoneIsTaken

(* What is staged is taken by the thread that stages it. *)
LEMMA StageIsTaken ==
  ASSUME IInv, OverlapInv, NEW t \in Threads, Stage(t), entry[t].tree = tree[t]
  PROVE  EveryoneIsTaken'
<1> DEFINE pushed == Append(staged, entry[t])
           n == Len(staged)
<1>1. PICK f \in [DOMAIN staged -> Threads] : Taker(f)
  BY DEF OverlapInv, EveryoneIsTaken
<1>2. /\ pc[t] = "stage" /\ pc'[t] = "install" /\ staged' = Trim(pushed)
      /\ UNCHANGED <<tree, round>> /\ \A s \in Threads \ {t} : pc'[s] = pc[s]
  BY DEF Stage, Goto, IInv, ThreadInv, OverlapInv, NothingPrepared, KindInv, EngineLoads
<1>3. /\ n \in Nat /\ DOMAIN staged = 1..n
      /\ pushed \in Seq(Publishable) /\ Len(pushed) = n + 1 /\ pushed # <<>>
      /\ DOMAIN pushed = 1..(n + 1)
      /\ \A j \in 1..n : pushed[j] = staged[j]
      /\ pushed[n + 1] = entry[t]
  <2>1. staged \in Seq(Publishable) /\ entry[t] \in Publishable
    BY DEF Stage, IInv, SharedInv, ThreadInv, HoldsADocument
  <2> QED
    BY <2>1, AppendProperties, LenProperties
<1> HIDE DEF pushed, n
<1> DEFINE g == [j \in 1..(n + 1) |-> IF j \in 1..n THEN f[j] ELSE t]
<1>4. \A j \in 1..n : f[j] \in Threads \ {t} /\ WillTake(f[j], staged[j])
  BY <1>1, <1>2, <1>3 DEF Taker, WillTake
<1>5. \A j \in 1..(n + 1) : j \in 1..n \/ j = n + 1
  BY <1>3
<1>6. g \in [1..(n + 1) -> Threads]
  BY <1>4
<1>7. ASSUME NEW j \in 1..(n + 1)
      PROVE  /\ pc'[g[j]] = "install" \/ (pc'[g[j]] = "take" /\ round'[g[j]] = "hook")
             /\ tree'[g[j]] = pushed[j].tree
  <2>1. CASE j \in 1..n
    BY <1>2, <1>3, <1>4, <2>1 DEF WillTake
  <2>2. CASE j \notin 1..n
    BY <1>2, <1>3, <1>5, <2>2
  <2> QED
    BY <2>1, <2>2
<1>8. ASSUME NEW j \in 1..(n + 1), NEW k \in 1..(n + 1), g[j] = g[k] PROVE j = k
  BY <1>1, <1>3, <1>4, <1>5, <1>8 DEF Taker
<1> HIDE DEF g
<1>9. CASE staged' = pushed
  <2>1. PICK h : h = g
    OBVIOUS
  <2>2. h \in [DOMAIN staged' -> Threads]
    BY <1>3, <1>6, <1>9, <2>1
  <2>3. Taker(h)'
    BY <1>3, <1>7, <1>8, <1>9, <2>1 DEF Taker, WillTake
  <2> QED
    BY <2>2, <2>3 DEF EveryoneIsTaken
<1>10. CASE staged' = Tail(pushed)
  <2>0. PICK h : h = [j \in 1..n |-> g[j + 1]]
    OBVIOUS
  <2>1. /\ DOMAIN staged' = 1..n
        /\ \A j \in 1..n : staged'[j] = pushed[j + 1] /\ j + 1 \in 1..(n + 1)
    <3>1. /\ Tail(pushed) \in Seq(Publishable) /\ Len(Tail(pushed)) = n
          /\ \A j \in 1..Len(Tail(pushed)) : Tail(pushed)[j] = pushed[j + 1]
      BY <1>3, HeadTailProperties
    <3>2. DOMAIN Tail(pushed) = 1..n
      BY <3>1, LenProperties
    <3> QED
      BY <1>3, <1>10, <3>1, <3>2
  <2>2. h \in [DOMAIN staged' -> Threads]
    BY <1>6, <2>0, <2>1
  <2>3. \A j, k \in 1..n : h[j] = h[k] => j = k
    <3> SUFFICES ASSUME NEW j \in 1..n, NEW k \in 1..n, h[j] = h[k] PROVE j = k
      OBVIOUS
    <3>1. j + 1 = k + 1
      BY <1>8, <2>0, <2>1
    <3> QED
      BY <1>3, <3>1
  <2>4. \A j \in 1..n : h[j] = g[j + 1]
    BY <2>0
  <2>5. \A j \in 1..n : WillTake(h[j], staged[j])'
    BY <1>7, <2>1, <2>4 DEF WillTake
  <2>6. Taker(h)'
    BY <2>1, <2>3, <2>5 DEF Taker
  <2> QED
    BY <2>2, <2>6 DEF EveryoneIsTaken
<1> QED
  BY <1>2, <1>9, <1>10 DEF Trim

(***************************************************************************)
(* Who takes a validation another thread was to take leaves that thread    *)
(* its own.                                                                *)
(***************************************************************************)
LEMMA TakeIsTaken ==
  ASSUME IInv, OverlapInv, NEW t \in Threads, TakeStaged(t)
  PROVE  EveryoneIsTaken'
<1> DEFINE n == Len(staged)
<1>1. PICK f \in [DOMAIN staged -> Threads] : Taker(f)
  BY DEF OverlapInv, EveryoneIsTaken
<1>2. PICK i \in Matches(t) : staged' = Without(staged, i)
  BY DEF TakeStaged
<1>3. /\ UNCHANGED <<tree, round>> /\ \A s \in Threads \ {t} : pc'[s] = pc[s]
  BY DEF TakeStaged, Goto, IInv, ThreadInv
<1>4. /\ n \in Nat /\ DOMAIN staged = 1..n /\ i \in 1..n /\ staged[i].tree = tree[t]
      /\ DOMAIN staged' = 1..(n - 1)
      /\ \A j \in 1..(n - 1) : staged'[j] = IF j < i THEN staged[j] ELSE staged[j + 1]
  <2>1. staged \in Seq(Publishable)
    BY DEF IInv, SharedInv
  <2>2. n \in Nat /\ DOMAIN staged = 1..n
    BY <2>1, LenProperties
  <2> QED
    BY <1>2, <2>1, <2>2, WithoutElements DEF Matches
<1> HIDE DEF n
<1> DEFINE from(j) == IF j < i THEN j ELSE j + 1
<1>0. PICK g : g = [j \in 1..(n - 1) |-> IF f[from(j)] = t THEN f[i] ELSE f[from(j)]]
  OBVIOUS
<1>5. \A j \in 1..(n - 1) :
        from(j) \in 1..n /\ from(j) # i /\ staged'[j] = staged[from(j)]
  BY <1>4
<1>6. \A j, k \in 1..(n - 1) : from(j) = from(k) => j = k
  BY <1>4
<1> HIDE DEF from
<1>7. \A j \in 1..(n - 1) : f[from(j)] \in Threads /\ f[from(j)] # f[i] /\ f[i] \in Threads
  BY <1>1, <1>4, <1>5 DEF Taker
<1>8. g \in [1..(n - 1) -> Threads]
  BY <1>7, <1>0
<1>9. ASSUME NEW j \in 1..(n - 1) PROVE WillTake(g[j], staged[j])'
  <2>1. g[j] = IF f[from(j)] = t THEN f[i] ELSE f[from(j)]
    BY <1>0
  <2>2. WillTake(g[j], staged[from(j)])
    <3>1. CASE f[from(j)] = t
      <4>1. WillTake(f[i], staged[i]) /\ WillTake(t, staged[from(j)])
        BY <1>1, <1>4, <1>5, <3>1 DEF Taker
      <4> QED
        BY <1>4, <2>1, <3>1, <4>1 DEF WillTake
    <3>2. CASE f[from(j)] # t
      BY <1>1, <1>4, <1>5, <2>1, <3>2 DEF Taker
    <3> QED
      BY <3>1, <3>2
  <2>3. g[j] \in Threads \ {t}
    BY <1>7, <1>8, <2>1
  <2> QED
    BY <1>3, <1>5, <2>2, <2>3 DEF WillTake
<1>10. ASSUME NEW j \in 1..(n - 1), NEW k \in 1..(n - 1), g[j] = g[k] PROVE j = k
  <2>1. f[from(j)] = f[from(k)]
    BY <1>7, <1>10, <1>0
  <2> QED
    BY <1>1, <1>4, <1>5, <1>6, <2>1 DEF Taker
<1>11. Taker(g)'
  BY <1>4, <1>9, <1>10 DEF Taker
<1> QED
  BY <1>4, <1>8, <1>11 DEF EveryoneIsTaken

(* Until it is staged, a thread holds the validation of its own tree. *)
OwnTree == \A t \in Threads : pc[t] = "stage" => entry[t].tree = tree[t]

LEMMA OwnTreeKept ==
  ASSUME ThreadInv, OwnTree, [Next]_vars
  PROVE  OwnTree'
<1>1. CASE Aside
  BY <1>1, AsideTouchesNothing DEF thread, OwnTree
<1>2. ASSUME NEW t \in Threads, Beginning(t) PROVE OwnTree'
  BY <1>2 DEF Beginning, StartLoad, StartCommit, StartReplace, Goto, ThreadInv, OwnTree
<1>3. ASSUME NEW t \in Threads, Middle(t) PROVE OwnTree'
  <2>1. CASE DrawSequence(t)
    BY <2>1 DEF DrawSequence, Goto, ThreadInv, OwnTree
  <2>2. CASE Refused(t) \/ Accepted(t) \/ RefusedLate(t) \/ Prepared(t)
    BY <2>2 DEF Refused, Accepted, RefusedLate, Prepared, Finish, Goto, ThreadInv, OwnTree
  <2>3. CASE \/ Stage(t) \/ EngineInstall(t) \/ ReadInstalled(t) \/ TakeStaged(t)
    BY <2>3 DEF Stage, EngineInstall, ReadInstalled, TakeStaged, Goto, ThreadInv, OwnTree
  <2>4. CASE Claim(t) \/ WriteCache(t) \/ BumpGeneration(t)
    BY <2>4 DEF Claim, WriteCache, BumpGeneration, Goto, ThreadInv, OwnTree
  <2>5. CASE NothingStaged(t) \/ Overtaken(t) \/ QueueHooks(t)
    BY <2>5 DEF NothingStaged, Overtaken, QueueHooks, Return, Finish, Goto, ThreadInv, OwnTree
  <2> QED
    BY <1>3, <2>1, <2>2, <2>3, <2>4, <2>5 DEF Middle
<1> QED
  BY <1>1, <1>2, <1>3, Steps

LEMMA TakenKept ==
  ASSUME NoInits, ~LateRefusals, IInv, OverlapInv, OwnTree, [Next]_vars
  PROVE  EveryoneIsTaken'
<1> USE DEF IInv, OverlapInv
<1>1. CASE Aside
  BY <1>1, AsideTouchesNothing, TakersStay DEF inner, thread, WillTake
<1>2. ASSUME NEW t \in Threads, Beginning(t) PROVE EveryoneIsTaken'
  <2>1. /\ UNCHANGED staged /\ pc[t] = "idle"
        /\ \A s \in Threads \ {t} :
             pc'[s] = pc[s] /\ tree'[s] = tree[s] /\ round'[s] = round[s]
    BY <1>2 DEF Beginning, StartLoad, StartCommit, StartReplace, Begins, Goto, ThreadInv, inner
  <2> QED
    BY <2>1, TakersStay DEF WillTake
<1>3. ASSUME NEW t \in Threads, Middle(t), ~Stage(t), ~TakeStaged(t) PROVE EveryoneIsTaken'
  <2>1. /\ UNCHANGED staged
        /\ \A s \in Threads \ {t} :
             pc'[s] = pc[s] /\ tree'[s] = tree[s] /\ round'[s] = round[s]
    BY <1>3
       DEF Middle, Refused, Accepted, DrawSequence, RefusedLate, Prepared,
           EngineInstall, ReadInstalled, NothingStaged, Claim, Overtaken,
           WriteCache, BumpGeneration, QueueHooks, Return, Finish, Goto, ThreadInv, inner
  <2>2. CASE EngineInstall(t)
    <3>1. kind[t] # "init"
      BY DEF Asked, NoInits
    <3>2. pc'[t] = "take" /\ round'[t] = "hook" /\ tree'[t] = tree[t]
      BY <2>2, <3>1 DEF EngineInstall, Goto, ThreadInv
    <3> QED
      BY <2>1, <3>2, TakersStay DEF WillTake
  <2>3. CASE NothingStaged(t)
    <3>1. \A i \in DOMAIN staged : staged[i].tree # tree[t]
      BY <2>3 DEF NothingStaged, Matches
    <3> QED
      BY <2>1, <3>1, TakersStay DEF WillTake
  <2>4. CASE ~EngineInstall(t) /\ ~NothingStaged(t)
    <3>1. pc[t] \notin {"install", "take"}
      BY <1>3, <2>4
         DEF Middle, Refused, Accepted, DrawSequence, RefusedLate, Prepared,
             ReadInstalled, Claim, Overtaken, WriteCache, BumpGeneration, QueueHooks
    <3> QED
      BY <2>1, <3>1, TakersStay DEF WillTake
  <2> QED
    BY <2>2, <2>3, <2>4
<1>4. ASSUME NEW t \in Threads, Stage(t) PROVE EveryoneIsTaken'
  BY <1>4, StageIsTaken DEF OwnTree, Stage
<1> QED
  BY <1>1, <1>2, <1>3, <1>4, TakeIsTaken, Steps

(***************************************************************************)
(* Loads that overlap in any way leave nothing in the staging area once    *)
(* all have come back, although a commit that finds several equal trees    *)
(* does not know which of them its own load staged.                        *)
(***************************************************************************)
THEOREM OverlapLeavesNothing ==
  ASSUME NoPrepares, NoInits, ~LateRefusals
  PROVE  Spec => []NothingLeftBehind
<1> DEFINE Inv == OverlapInv /\ OwnTree
<1>1. Init => Inv
  BY InitOverlapInv DEF OwnTree, Init
<1>2. IInv /\ Inv /\ [Next]_vars => Inv'
  BY KindsKept, AskedKept, OwnTreeKept, TakenKept DEF IInv, OverlapInv
<1>3. IInv /\ Inv => NothingLeftBehind
  <2> SUFFICES ASSUME IInv, OverlapInv, Quiet PROVE staged = <<>>
    BY DEF NothingLeftBehind
  <2>1. PICK f \in [DOMAIN staged -> Threads] : Taker(f)
    BY DEF OverlapInv, EveryoneIsTaken
  <2>2. DOMAIN staged = {}
    BY <2>1 DEF Taker, WillTake, Quiet
  <2> QED
    BY <2>2, LenProperties, EmptySeq DEF IInv, SharedInv
<1> HIDE DEF Inv
<1> QED
  BY <1>1, <1>2, <1>3, Inductive, PTL DEF Spec
-----------------------------------------------------------------------------
(* The newest of the loads that overlap. *)

Installers == {t \in Threads : Does[t] \cap EngineLoads # {}}

(* The places the validation drawn last can be in, before the log. *)
InHandNow(labels) == \E t \in Threads : pc[t] \in labels /\ entry[t].sequence = nextSequence
IsStaged == \E i \in DOMAIN staged : staged[i].sequence = nextSequence
IsLogged == \E i \in DOMAIN log : log[i].sequence = nextSequence

Newest ==
  nextSequence # 0 =>
    \/ lastCommitted < nextSequence /\ (InHandNow({"stage", "claim"}) \/ IsStaged)
    \/ InHandNow({"write", "bump", "queue"})
    \/ IsLogged

(***************************************************************************)
(* Every staged validation has a thread of its own that is past Stage, so  *)
(* a thread at Stage finds room for its own: nothing is trimmed.           *)
(***************************************************************************)
LEMMA ThereIsRoom ==
  ASSUME IInv, OverlapInv, NEW t \in Threads, Stage(t),
         IsFiniteSet(Threads), Cardinality(Installers) <= MaxStaged
  PROVE  staged' = Append(staged, entry[t])
<1>1. PICK f \in [DOMAIN staged -> Threads] : Taker(f)
  BY DEF OverlapInv, EveryoneIsTaken
<1>2. \A s \in Threads : pc[s] \in {"stage", "install", "take"} => s \in Installers
  BY DEF OverlapInv, NothingPrepared, KindInv, Asked, Installers, EngineLoads
<1>3. pc[t] = "stage" /\ t \in Installers
  BY <1>2 DEF Stage
<1>4. f \in Injection(DOMAIN staged, Installers \ {t})
  <2>1. \A i \in DOMAIN staged : f[i] \in Installers \ {t}
    BY <1>1, <1>2, <1>3 DEF Taker, WillTake
  <2>2. f \in [DOMAIN staged -> Installers \ {t}]
    BY <2>1
  <2>3. IsInjective(f)
    BY <1>1 DEF Taker, IsInjective
  <2> QED
    BY <2>2, <2>3 DEF Injection
<1>5. IsFiniteSet(Installers)
  BY FS_Subset DEF Installers
<1>6. /\ IsFiniteSet(Installers \ {t})
      /\ Cardinality(Installers \ {t}) = Cardinality(Installers) - 1
  BY <1>3, <1>5, FS_RemoveElement
<1>7. Cardinality(DOMAIN staged) <= Cardinality(Installers) - 1
  BY <1>4, <1>6, FS_Injection
<1>8. staged \in Seq(Publishable) /\ entry[t] \in Publishable
  BY DEF Stage, IInv, SharedInv, ThreadInv, HoldsADocument
<1>9. Cardinality(DOMAIN staged) = Len(staged) /\ Len(staged) \in Nat
  <2>1. DOMAIN staged = 1..Len(staged) /\ Len(staged) \in Nat
    BY <1>8, LenProperties
  <2>2. PICK n \in Nat : n = Len(staged)
    BY <2>1
  <2>3. Cardinality(1..n) = n
    <3>1. 1 \in Int /\ n \in Int
      OBVIOUS
    <3>2. Cardinality(1..n) = IF 1 > n THEN 0 ELSE n - 1 + 1
      BY <3>1, FS_Interval
    <3> QED
      BY <3>2
  <2> QED
    BY <2>1, <2>2, <2>3
<1>10. Len(Append(staged, entry[t])) <= MaxStaged
  <2>1. Len(Append(staged, entry[t])) = Len(staged) + 1
    BY <1>8, AppendProperties
  <2>2. Cardinality(Installers) \in Nat
    BY <1>5, FS_CardinalityType
  <2> QED
    BY <1>7, <1>9, <2>1, <2>2, BoundsAssumption
<1> QED
  BY <1>10, BoundsAssumption DEF Stage, Trim
(* A step that draws, stages, takes and claims nothing loses nothing. *)
LEMMA NewestStays ==
  ASSUME Newest, UNCHANGED <<staged, nextSequence, lastCommitted, log>>,
         \A t \in Threads : pc[t] \in {"stage", "claim", "write", "bump", "queue"} =>
           /\ entry'[t] = entry[t]
           /\ \/ pc'[t] = pc[t]
              \/ {pc[t], pc'[t]} \subseteq {"write", "bump", "queue"}
  PROVE  Newest'
<1>1. InHandNow({"stage", "claim"}) => InHandNow({"stage", "claim"})'
  BY DEF InHandNow
<1>2. InHandNow({"write", "bump", "queue"}) => InHandNow({"write", "bump", "queue"})'
  BY DEF InHandNow
<1> QED
  BY <1>1, <1>2 DEF Newest, IsStaged, IsLogged

LEMMA NewestKept ==
  ASSUME ~LateRefusals, IsFiniteSet(Threads), Cardinality(Installers) <= MaxStaged,
         IInv, OverlapInv, Drawn, Newest, [Next]_vars
  PROVE  Newest'
<1>0. /\ nextSequence \in Nat /\ lastCommitted \in Nat /\ lastCommitted <= nextSequence
      /\ staged \in Seq(Publishable) /\ log \in Seq(Publishable)
      /\ \A t \in Threads : pc[t] \in {"stage", "claim", "write", "bump", "queue"} =>
           entry[t] \in Publishable /\ entry[t].sequence \in Nat
      /\ ThreadInv
  BY DEF IInv, SharedInv, ThreadInv, HoldsADocument, Publishable, Doc, Drawn
<1>1. CASE Aside
  BY <1>1, AsideTouchesNothing, NewestStays DEF inner, thread
<1>2. ASSUME NEW t \in Threads, Beginning(t) PROVE Newest'
  <2>1. /\ UNCHANGED <<inner, log>> /\ pc[t] = "idle"
        /\ \A s \in Threads \ {t} : pc'[s] = pc[s] /\ entry'[s] = entry[s]
    BY <1>0, <1>2 DEF Beginning, StartLoad, StartCommit, StartReplace, Begins, Goto, ThreadInv, calls
  <2> QED
    BY <2>1, NewestStays DEF inner
<1>3. ASSUME NEW t \in Threads, Middle(t) PROVE Newest'
  <2>1. CASE Refused(t) \/ Accepted(t) \/ Prepared(t)
    <3>1. /\ UNCHANGED <<inner, log>> /\ pc[t] \in {"validate", "token"}
          /\ \A s \in Threads \ {t} : pc'[s] = pc[s] /\ entry'[s] = entry[s]
      BY <1>0, <2>1 DEF Refused, Accepted, Prepared, Finish, Goto, ThreadInv, calls
    <3> QED
      BY <3>1, NewestStays DEF inner
  <2>2. CASE EngineInstall(t) \/ ReadInstalled(t) \/ NothingStaged(t)
    <3>1. /\ UNCHANGED <<inner, log>> /\ pc[t] \in {"install", "explicit", "take"}
          /\ \A s \in Threads \ {t} : pc'[s] = pc[s] /\ entry'[s] = entry[s]
      BY <1>0, <2>2 DEF EngineInstall, ReadInstalled, NothingStaged, Return, Finish, Goto,
                        ThreadInv, calls
    <3> QED
      BY <3>1, NewestStays DEF inner
  <2>3. CASE WriteCache(t) \/ BumpGeneration(t)
    <3>1. /\ UNCHANGED <<inner, log, entry>>
          /\ pc[t] \in {"write", "bump"} /\ pc'[t] \in {"bump", "queue"}
          /\ \A s \in Threads \ {t} : pc'[s] = pc[s]
      BY <1>0, <2>3 DEF WriteCache, BumpGeneration, Goto, ThreadInv, calls
    <3> QED
      BY <3>1, NewestStays DEF inner
  <2>4. CASE DrawSequence(t)
    <3>1. /\ nextSequence' = nextSequence + 1 /\ UNCHANGED lastCommitted
          /\ entry'[t].sequence = nextSequence + 1 /\ pc'[t] = "stage"
      BY <1>0, <2>4 DEF DrawSequence, Goto, ThreadInv
    <3> QED
      BY <1>0, <3>1 DEF Newest, InHandNow
  <2>5. CASE Stage(t)
    <3>1. /\ staged' = Append(staged, entry[t]) /\ pc[t] = "stage"
          /\ UNCHANGED <<nextSequence, lastCommitted, entry, log>>
          /\ \A s \in Threads \ {t} : pc'[s] = pc[s]
      BY <1>0, <2>5, ThereIsRoom DEF Stage, Goto, ThreadInv, calls
    <3>2. /\ \A i \in DOMAIN staged : i \in DOMAIN staged' /\ staged'[i] = staged[i]
          /\ Len(staged) + 1 \in DOMAIN staged' /\ staged'[Len(staged) + 1] = entry[t]
      BY <1>0, <3>1, AppendProperties, LenProperties
    <3>3. InHandNow({"stage", "claim"}) => InHandNow({"stage", "claim"})' \/ IsStaged'
      BY <3>1, <3>2 DEF InHandNow, IsStaged
    <3>4. IsStaged => IsStaged'
      BY <3>1, <3>2 DEF IsStaged
    <3>5. InHandNow({"write", "bump", "queue"}) => InHandNow({"write", "bump", "queue"})'
      BY <3>1 DEF InHandNow
    <3> QED
      BY <3>1, <3>3, <3>4, <3>5 DEF Newest, IsLogged
  <2>6. CASE TakeStaged(t)
    <3>1. PICK i \in Matches(t) : /\ entry' = [entry EXCEPT ![t] = staged[i]]
                                  /\ staged' = Without(staged, i)
      BY <2>6 DEF TakeStaged
    <3>2. /\ i \in DOMAIN staged /\ entry'[t] = staged[i] /\ pc[t] = "take" /\ pc'[t] = "claim"
          /\ UNCHANGED <<nextSequence, lastCommitted, log>>
          /\ \A s \in Threads \ {t} : pc'[s] = pc[s] /\ entry'[s] = entry[s]
      BY <1>0, <2>6, <3>1 DEF TakeStaged, Matches, Goto, ThreadInv, calls
    <3>3. \A k \in DOMAIN staged \ {i} : \E j \in DOMAIN staged' : staged'[j] = staged[k]
      <4>1. DOMAIN staged = 1..Len(staged) /\ Len(staged) \in Nat
        BY <1>0, LenProperties
      <4>2. /\ DOMAIN staged' = 1..(Len(staged) - 1)
            /\ \A j \in 1..(Len(staged) - 1) :
                 staged'[j] = IF j < i THEN staged[j] ELSE staged[j + 1]
        <5>1. staged \in Seq(Publishable) /\ i \in 1..Len(staged)
          BY <1>0, <3>2, <4>1
        <5> QED
          BY <3>1, <4>1, <5>1, WithoutElements
      <4>3. ASSUME NEW k \in DOMAIN staged \ {i}
            PROVE  \E j \in DOMAIN staged' : staged'[j] = staged[k]
        <5>1. CASE k < i
          BY <3>2, <4>1, <4>2, <5>1
        <5>2. CASE k > i
          <6>1. k - 1 \in 1..(Len(staged) - 1) /\ ~(k - 1 < i) /\ (k - 1) + 1 = k
            BY <3>2, <4>1, <5>2
          <6> QED
            BY <4>2, <6>1
        <5> QED
          BY <3>2, <4>1, <5>1, <5>2
      <4> QED
        BY <4>3
    <3>4. IsStaged => IsStaged' \/ InHandNow({"stage", "claim"})'
      BY <3>2, <3>3 DEF IsStaged, InHandNow
    <3>5. /\ InHandNow({"stage", "claim"}) => InHandNow({"stage", "claim"})'
          /\ InHandNow({"write", "bump", "queue"}) => InHandNow({"write", "bump", "queue"})'
      BY <3>2 DEF InHandNow
    <3> QED
      BY <3>2, <3>4, <3>5 DEF Newest, IsLogged
  <2>7. CASE Claim(t)
    <3>1. /\ pc[t] = "claim" /\ lastCommitted' = entry[t].sequence /\ pc'[t] = "write"
          /\ UNCHANGED <<staged, nextSequence, entry, log>>
          /\ \A s \in Threads \ {t} : pc'[s] = pc[s]
      BY <1>0, <2>7 DEF Claim, Goto, ThreadInv, calls
    <3>2. CASE entry[t].sequence = nextSequence
      BY <3>1, <3>2 DEF Newest, InHandNow
    <3>3. CASE entry[t].sequence # nextSequence
      <4>1. lastCommitted' < nextSequence
        BY <1>0, <3>1, <3>3 DEF Drawn
      <4>2. /\ InHandNow({"stage", "claim"}) => InHandNow({"stage", "claim"})'
            /\ InHandNow({"write", "bump", "queue"}) => InHandNow({"write", "bump", "queue"})'
        BY <3>1, <3>3 DEF InHandNow
      <4> QED
        BY <3>1, <4>1, <4>2 DEF Newest, IsStaged, IsLogged
    <3> QED
      BY <3>2, <3>3
  <2>8. CASE Overtaken(t)
    <3>1. /\ pc[t] = "claim" /\ entry[t].sequence <= lastCommitted /\ UNCHANGED <<inner, log>>
          /\ \A s \in Threads \ {t} : pc'[s] = pc[s] /\ entry'[s] = entry[s]
      BY <1>0, <2>8 DEF Overtaken, Return, Finish, Goto, ThreadInv, calls
    <3>2. lastCommitted < nextSequence => entry[t].sequence # nextSequence
      BY <1>0, <3>1
    <3>3. /\ lastCommitted < nextSequence /\ InHandNow({"stage", "claim"}) =>
               InHandNow({"stage", "claim"})'
          /\ InHandNow({"write", "bump", "queue"}) => InHandNow({"write", "bump", "queue"})'
      BY <3>1, <3>2 DEF InHandNow, inner
    <3> QED
      BY <3>1, <3>3 DEF Newest, IsStaged, IsLogged, inner
  <2>9. CASE QueueHooks(t)
    <3>1. /\ log' = Append(log, entry[t]) /\ pc[t] = "queue" /\ UNCHANGED inner
          /\ \A s \in Threads \ {t} : pc'[s] = pc[s] /\ entry'[s] = entry[s]
      BY <1>0, <2>9 DEF QueueHooks, Return, Finish, Goto, ThreadInv
    <3>2. /\ \A i \in DOMAIN log : i \in DOMAIN log' /\ log'[i] = log[i]
          /\ Len(log) + 1 \in DOMAIN log' /\ log'[Len(log) + 1] = entry[t]
      BY <1>0, <3>1, AppendProperties, LenProperties
    <3>3. /\ InHandNow({"stage", "claim"}) => InHandNow({"stage", "claim"})'
          /\ InHandNow({"write", "bump", "queue"}) =>
               InHandNow({"write", "bump", "queue"})' \/ IsLogged'
          /\ IsLogged => IsLogged'
      BY <3>1, <3>2 DEF InHandNow, IsLogged, inner
    <3> QED
      BY <3>1, <3>3 DEF Newest, IsStaged, inner
  <2> QED
    BY <1>3, <2>1, <2>2, <2>3, <2>4, <2>5, <2>6, <2>7, <2>8, <2>9 DEF Middle, RefusedLate
<1> QED
  BY <1>1, <1>2, <1>3, Steps

(***************************************************************************)
(* Loads that overlap, no more of them than the staging area has places,   *)
(* never lose the newest: once all have come back, the document validated  *)
(* last was handed to the hooks.                                           *)
(***************************************************************************)
THEOREM OverlapKeepsTheNewest ==
  ASSUME NoPrepares, NoInits, ~LateRefusals,
         IsFiniteSet(Threads), Cardinality(Installers) <= MaxStaged
  PROVE  Spec => []NewestIsAnnounced
<1> DEFINE Inv == OverlapInv /\ OwnTree /\ Drawn /\ Newest
<1>1. Init => Inv
  BY InitOverlapInv, InitReloadInv DEF OwnTree, Init, ReloadInv, Newest
<1>2. IInv /\ Inv /\ [Next]_vars => Inv'
  BY KindsKept, AskedKept, OwnTreeKept, TakenKept, DrawnKept, NewestKept DEF IInv, OverlapInv
<1>3. Inv /\ NothingLeftBehind => NewestIsAnnounced
  <2> SUFFICES ASSUME Newest, staged = <<>>, Quiet, nextSequence # 0 PROVE IsLogged
    BY DEF NothingLeftBehind, NewestIsAnnounced, IsLogged
  <2>1. ~IsStaged
    BY DEF IsStaged
  <2>2. \A labels : ~InHandNow(labels) \/ "idle" \in labels
    BY DEF InHandNow, Quiet
  <2> QED
    BY <2>1, <2>2 DEF Newest
<1> HIDE DEF Inv
<1> QED
  BY <1>1, <1>2, <1>3, Inductive, OverlapLeavesNothing, PTL DEF Spec
=============================================================================
