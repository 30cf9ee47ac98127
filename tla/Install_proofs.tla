---------------------------- MODULE Install_proofs ----------------------------
(***************************************************************************)
(* What Install keeps for every number of threads, trees and operations,   *)
(* every staging bound, and every choice of what the engine does.          *)
(*                                                                         *)
(* The argument follows one document from its validation to the hooks.  A  *)
(* document is written down only by DrawSequence and StartReplace; the     *)
(* first runs only for a load that is not a candidate and whose tree was   *)
(* accepted.  Everything after that copies documents from one place to     *)
(* another, so every place holds documents of that sort, `Publishable`.    *)
(***************************************************************************)
EXTENDS Install, SequenceTheorems, TLAPS

Publishable == {d \in Doc : d.by # "load" /\ (d.by = "replace" \/ d.tree \in Valid)}

(* A load past the door is no candidate and its tree was accepted ... *)
AcceptedBeforeStaged(t) ==
  /\ pc[t] = "validate" => kind[t] \in EngineLoads \cup {"load", "prepare"}
  /\ pc[t] = "sequence" => kind[t] \in EngineLoads \cup {"prepare"} /\ tree[t] \in Valid

(* ... and a thread that publishes has taken or been given a document. *)
HoldsADocument(t) ==
  pc[t] \in {"stage", "claim", "write", "bump", "queue"} => entry[t] # NoDoc

(* What the threads share: types, with every document publishable. *)
SharedInv ==
  /\ staged \in Seq(Publishable) /\ Len(staged) <= MaxStaged
  /\ nextSequence \in Nat /\ lastCommitted \in Nat
  /\ cache \in Publishable \cup {NoDoc} /\ generation \in Nat
  /\ hooks \subseteq HookTokens /\ nextHook \in 1..(MaxHooks + 1)
  /\ queue \in [HookTokens -> Seq(Publishable)]
  /\ nextPrepared \in Nat
  /\ prepared \in Seq(Trees \cup {NoTree}) /\ Len(prepared) = nextPrepared
  /\ installed \in Trees \cup {NoTree}
  /\ loads \in 0..MaxLoads
  /\ log \in Seq(Publishable)

(* What each thread has of its own, and where in its operation it has it. *)
ThreadInv ==
  /\ loading \subseteq Threads
  /\ pc \in [Threads -> Labels] /\ kind \in [Threads -> Kinds \cup {"none"}]
  /\ tree \in [Threads -> Trees \cup {NoTree}]
  /\ entry \in [Threads -> Publishable \cup {NoDoc}]
  /\ round \in [Threads -> {"hook", "explicit"}]
  /\ own \in [Threads -> Nat] /\ rounds \in [Threads -> Nat]
  /\ \A t \in Threads : AcceptedBeforeStaged(t) /\ HoldsADocument(t)

IInv == SharedInv /\ ThreadInv

-----------------------------------------------------------------------------
(* Removing an element from a sequence over S leaves one no longer. *)
LEMMA WithoutType ==
  ASSUME NEW S, NEW s \in Seq(S), NEW i \in 1..Len(s)
  PROVE  Without(s, i) \in Seq(S) /\ Len(Without(s, i)) = Len(s) - 1
<1>0. Len(s) \in Nat /\ \A j \in 1..Len(s) : s[j] \in S
  BY LenProperties, ElementOfSeq
<1>1. SubSeq(s, 1, i - 1) \in Seq(S) /\ Len(SubSeq(s, 1, i - 1)) = i - 1
  <2>1. i - 1 \in Int /\ \A j \in 1..(i - 1) : s[j] \in S
    BY <1>0
  <2> QED
    BY <1>0, <2>1, SubSeqProperties
<1>2. SubSeq(s, i + 1, Len(s)) \in Seq(S) /\ Len(SubSeq(s, i + 1, Len(s))) = Len(s) - i
  <2>1. i + 1 \in Int /\ \A j \in (i + 1)..Len(s) : s[j] \in S
    BY <1>0
  <2> QED
    BY <1>0, <2>1, SubSeqProperties
<1>3. /\ Without(s, i) \in Seq(S)
      /\ Len(Without(s, i)) = Len(SubSeq(s, 1, i - 1)) + Len(SubSeq(s, i + 1, Len(s)))
  BY <1>1, <1>2, ConcatProperties DEF Without
<1>4. (i - 1) + (Len(s) - i) = Len(s) - 1
  BY <1>0
<1>5. Len(Without(s, i)) = (i - 1) + (Len(s) - i)
  BY <1>1, <1>2, <1>3, Zenon
<1> QED
  BY <1>3, <1>4, <1>5, Zenon

(* ... and the others, in their order. *)
LEMMA WithoutElements ==
  ASSUME NEW S, NEW s \in Seq(S), NEW i \in 1..Len(s)
  PROVE  /\ DOMAIN Without(s, i) = 1..(Len(s) - 1)
         /\ \A j \in 1..(Len(s) - 1) :
              Without(s, i)[j] = IF j < i THEN s[j] ELSE s[j + 1]
<1> DEFINE front == SubSeq(s, 1, i - 1)
           back == SubSeq(s, i + 1, Len(s))
<1>1. Len(s) \in Nat /\ \A j \in 1..Len(s) : s[j] \in S
  BY LenProperties, ElementOfSeq
<1>2. /\ front \in Seq(S) /\ Len(front) = i - 1
      /\ \A j \in 1..(i - 1) : front[j] = s[j]
  <2>1. i - 1 \in Int /\ \A j \in 1..(i - 1) : s[j] \in S
    BY <1>1
  <2> QED
    BY <1>1, <2>1, SubSeqProperties
<1>3. back \in Seq(S) /\ \A j \in 1..(Len(s) - i) : back[j] = s[i + j]
  <2>1. i + 1 \in Int /\ Len(s) \in Int /\ \A j \in (i + 1)..Len(s) : s[j] \in S
    BY <1>1
  <2>2. /\ back \in Seq(S)
        /\ \A j \in 1..(Len(s) - (i + 1) + 1) : back[j] = s[(i + 1) + j - 1]
    BY <2>1, SubSeqProperties
  <2> HIDE DEF back
  <2>3. ASSUME NEW j \in 1..(Len(s) - i) PROVE back[j] = s[i + j]
    <3>1. j \in 1..(Len(s) - (i + 1) + 1) /\ (i + 1) + j - 1 = i + j
      BY <1>1
    <3> QED
      BY <2>2, <3>1
  <2> QED
    BY <2>2, <2>3
<1> HIDE DEF front, back
<1>4. /\ Without(s, i) \in Seq(S) /\ Len(Without(s, i)) = Len(front) + Len(back)
      /\ \A j \in 1..(Len(front) + Len(back)) :
           Without(s, i)[j] = IF j <= Len(front) THEN front[j] ELSE back[j - Len(front)]
  BY <1>2, <1>3, ConcatProperties DEF Without, front, back
<1>5. Len(Without(s, i)) = Len(s) - 1
  BY WithoutType
<1>6. ASSUME NEW j \in 1..(Len(s) - 1)
      PROVE  Without(s, i)[j] = IF j < i THEN s[j] ELSE s[j + 1]
  <2>1. Without(s, i)[j] = IF j <= i - 1 THEN front[j] ELSE back[j - (i - 1)]
    BY <1>2, <1>4, <1>5
  <2>2. CASE j < i
    <3>1. j \in 1..(i - 1)
      BY <1>1, <2>2
    <3> QED
      BY <1>2, <2>1, <2>2, <3>1
  <2>3. CASE ~(j < i)
    <3>1. j - (i - 1) \in 1..(Len(s) - i) /\ i + (j - (i - 1)) = j + 1 /\ ~(j <= i - 1)
      BY <1>1, <2>3
    <3> QED
      BY <1>3, <2>1, <2>3, <3>1
  <2> QED
    BY <2>2, <2>3
<1> QED
  BY <1>4, <1>5, <1>6, LenProperties

(* The staging area never exceeds its bound. *)
LEMMA TrimType ==
  ASSUME NEW S, NEW s \in Seq(S), Len(s) <= MaxStaged, NEW e \in S
  PROVE  Trim(Append(s, e)) \in Seq(S) /\ Len(Trim(Append(s, e))) <= MaxStaged
<1>1. Append(s, e) \in Seq(S) /\ Len(Append(s, e)) = Len(s) + 1 /\ Append(s, e) # <<>>
  BY AppendProperties
<1>2. Tail(Append(s, e)) \in Seq(S) /\ Len(Tail(Append(s, e))) = Len(s)
  BY <1>1, HeadTailProperties, LenProperties
<1> QED
  BY <1>1, <1>2, BoundsAssumption, LenProperties DEF Trim

(* What is staged was staged before, or is the new validation. *)
LEMMA TrimElements ==
  ASSUME NEW S, NEW s \in Seq(S), NEW e \in S
  PROVE  \A j \in DOMAIN Trim(Append(s, e)) :
           Trim(Append(s, e))[j] = e \/ \E k \in DOMAIN s : Trim(Append(s, e))[j] = s[k]
<1> DEFINE pushed == Append(s, e)
<1>1. /\ pushed \in Seq(S) /\ pushed # <<>> /\ Len(pushed) = Len(s) + 1 /\ Len(s) \in Nat
      /\ DOMAIN pushed = 1..(Len(s) + 1) /\ DOMAIN s = 1..Len(s)
      /\ \A j \in 1..Len(s) : pushed[j] = s[j]
      /\ pushed[Len(s) + 1] = e
  BY AppendProperties, LenProperties
<1> HIDE DEF pushed
<1>2. \A j \in 1..(Len(s) + 1) : pushed[j] = e \/ \E k \in DOMAIN s : pushed[j] = s[k]
  BY <1>1
<1>3. /\ DOMAIN Tail(pushed) = 1..Len(s)
      /\ \A j \in 1..Len(s) : Tail(pushed)[j] = pushed[j + 1] /\ j + 1 \in 1..(Len(s) + 1)
  <2>1. Tail(pushed) \in Seq(S) /\ Len(Tail(pushed)) = Len(s)
        /\ \A j \in 1..Len(Tail(pushed)) : Tail(pushed)[j] = pushed[j + 1]
    BY <1>1, HeadTailProperties
  <2> QED
    BY <1>1, <2>1, LenProperties
<1>4. CASE Trim(pushed) = pushed
  BY <1>1, <1>2, <1>4 DEF pushed
<1>5. CASE Trim(pushed) = Tail(pushed)
  <2> SUFFICES ASSUME NEW j \in DOMAIN Trim(pushed)
               PROVE  Trim(pushed)[j] = e \/ \E k \in DOMAIN s : Trim(pushed)[j] = s[k]
    BY DEF pushed
  <2> QED
    BY <1>2, <1>3, <1>5
<1> QED
  BY <1>4, <1>5 DEF Trim

LEMMA PublishableIsDoc == Publishable \subseteq Doc /\ NoDoc \notin Publishable
  BY NoneAssumption DEF Publishable

-----------------------------------------------------------------------------
LEMMA InitIInv == Init => IInv
<1> SUFFICES ASSUME Init PROVE IInv
  OBVIOUS
<1>1. /\ <<>> \in Seq(Publishable) /\ <<>> \in Seq(Trees \cup {NoTree})
      /\ Len(<<>>) = 0
  BY EmptySeq
<1>2. SharedInv
  BY <1>1, BoundsAssumption DEF Init, SharedInv, HookTokens
<1>3. ThreadInv
  BY DEF Init, ThreadInv, AcceptedBeforeStaged, HoldsADocument, Labels
<1> QED
  BY <1>2, <1>3 DEF IInv

(***************************************************************************)
(* What the end of an operation does to the invariant, whoever reaches it: *)
(* Finish alone, and Return, which may go on to the explicit commit.       *)
(***************************************************************************)
LEMMA FinishKeeps ==
  ASSUME ThreadInv, NEW t \in Threads, Finish(t)
  PROVE  ThreadInv'
  BY DEF ThreadInv, Finish, Goto, AcceptedBeforeStaged, HoldsADocument, Labels

LEMMA ReturnKeeps ==
  ASSUME ThreadInv, NEW t \in Threads, NEW handed \in Nat, Return(t, handed)
  PROVE  ThreadInv'
<1>1. CASE round[t] = "hook" /\ kind[t] # "watch"
  BY <1>1 DEF Return, ThreadInv, Goto, AcceptedBeforeStaged, HoldsADocument, Labels
<1>2. CASE ~(round[t] = "hook" /\ kind[t] # "watch")
  BY <1>2, FinishKeeps DEF Return
<1> QED
  BY <1>1, <1>2

(* A commit token that is taken out leaves the other tokens alone. *)
LEMMA TakenOut ==
  ASSUME SharedInv, NEW token \in DOMAIN prepared,
         prepared' = [prepared EXCEPT ![token] = NoTree]
  PROVE  /\ prepared' \in Seq(Trees \cup {NoTree}) /\ Len(prepared') = nextPrepared
         /\ prepared[token] \in Trees \cup {NoTree}
<1>1. token \in 1..Len(prepared)
  BY LenProperties DEF SharedInv
<1> QED
  BY <1>1, ExceptSeq, ElementOfSeq DEF SharedInv

(* An operation counts against the bound on operations. *)
LEMMA OneMore ==
  ASSUME SharedInv, NEW t, NEW k, Begins(t, k)
  PROVE  loads' \in 0..MaxLoads
  BY BoundsAssumption DEF SharedInv, Begins

-----------------------------------------------------------------------------
(* One lemma per group of actions: beginning, the load, the publication. *)
LEMMA BeginsKeeps ==
  ASSUME IInv, NEW t \in Threads,
         \/ \E k \in Kinds : StartLoad(t, k)
         \/ \E token \in DOMAIN prepared : StartCommit(t, token) \/ Discard(t, token)
         \/ StartReplace(t)
  PROVE  IInv'
<1> USE DEF IInv, vars, inner, published, calls, commits, engine, thread
<1>1. ASSUME NEW k \in Kinds, StartLoad(t, k) PROVE IInv'
  <2>1. SharedInv'
    BY <1>1, OneMore DEF SharedInv, StartLoad
  <2>2. ThreadInv'
    BY <1>1 DEF ThreadInv, StartLoad, Begins, Goto, AcceptedBeforeStaged,
                HoldsADocument, Labels, Kinds, EngineLoads
  <2> QED
    BY <2>1, <2>2
<1>2. ASSUME NEW token \in DOMAIN prepared, StartCommit(t, token) PROVE IInv'
  <2>1. SharedInv'
    <3>1. loads' \in 0..MaxLoads
      BY <1>2, OneMore DEF StartCommit
    <3>2. prepared' \in Seq(Trees \cup {NoTree}) /\ Len(prepared') = nextPrepared
      BY <1>2, TakenOut DEF StartCommit
    <3> QED
      BY <1>2, <3>1, <3>2 DEF SharedInv, StartCommit
  <2>2. ThreadInv'
    BY <1>2, TakenOut DEF ThreadInv, StartCommit, Begins, Goto, AcceptedBeforeStaged,
                          HoldsADocument, Labels, Kinds
  <2> QED
    BY <2>1, <2>2
<1>3. ASSUME NEW token \in DOMAIN prepared, Discard(t, token) PROVE IInv'
  <2>1. SharedInv'
    BY <1>3, TakenOut DEF SharedInv, Discard
  <2>2. ThreadInv'
    BY <1>3 DEF ThreadInv, Discard, AcceptedBeforeStaged, HoldsADocument
  <2> QED
    BY <2>1, <2>2
<1>4. CASE StartReplace(t)
  <2>1. SharedInv'
    BY <1>4, OneMore DEF SharedInv, StartReplace
  <2>2. \A given \in Trees :
          [sequence |-> 0, tree |-> given, by |-> "replace"] \in Publishable
    BY DEF Publishable, Doc, Kinds
  <2>3. ThreadInv'
    BY <1>4, <2>2, PublishableIsDoc
       DEF ThreadInv, StartReplace, Begins, Goto, AcceptedBeforeStaged,
           HoldsADocument, Labels, Kinds
  <2> QED
    BY <2>1, <2>3
<1> QED
  BY <1>1, <1>2, <1>3, <1>4

(* From the door to the engine's install and back. *)
LEMMA LoadKeeps ==
  ASSUME IInv, NEW t \in Threads,
         \/ Refused(t) \/ Accepted(t) \/ DrawSequence(t) \/ Stage(t)
         \/ RefusedLate(t) \/ Prepared(t) \/ EngineInstall(t) \/ ReadInstalled(t)
  PROVE  IInv'
<1> USE DEF IInv, vars, inner, published, calls, commits, engine, thread
<1>1. CASE Refused(t)
  BY <1>1, FinishKeeps DEF Refused, SharedInv
<1>2. CASE Accepted(t)
  <2>1. SharedInv'
    BY <1>2 DEF Accepted, SharedInv
  <2>2. CASE kind[t] = "load" /\ Finish(t)
    BY <2>1, <2>2, FinishKeeps
  <2>3. CASE /\ kind[t] # "load" /\ Goto(t, "sequence")
             /\ UNCHANGED <<engine, kind, tree, entry, round, own, rounds>>
    BY <1>2, <2>1, <2>3 DEF Accepted, ThreadInv, Goto, AcceptedBeforeStaged,
                            HoldsADocument, Labels
  <2> QED
    BY <1>2, <2>2, <2>3 DEF Accepted
<1>3. CASE DrawSequence(t)
  <2>1. SharedInv'
    BY <1>3 DEF DrawSequence, SharedInv
  <2>2. [sequence |-> nextSequence + 1, tree |-> tree[t], by |-> kind[t]] \in Publishable
    BY <1>3, ValidAssumption
       DEF DrawSequence, SharedInv, ThreadInv, AcceptedBeforeStaged, Publishable,
           Doc, Kinds, EngineLoads
  <2>3. ThreadInv'
    BY <1>3, <2>2, PublishableIsDoc
       DEF DrawSequence, SharedInv, ThreadInv, Goto, AcceptedBeforeStaged,
           HoldsADocument, Labels
  <2> QED
    BY <2>1, <2>3
<1>4. CASE Stage(t)
  <2>1. entry[t] \in Publishable
    BY <1>4 DEF Stage, ThreadInv, HoldsADocument
  <2>2. SharedInv'
    BY <1>4, <2>1, TrimType DEF Stage, SharedInv
  <2>3. ThreadInv'
    BY <1>4 DEF Stage, ThreadInv, Goto, AcceptedBeforeStaged, HoldsADocument, Labels
  <2> QED
    BY <2>2, <2>3
<1>5. CASE RefusedLate(t)
  BY <1>5, FinishKeeps DEF RefusedLate, SharedInv
<1>6. CASE Prepared(t)
  <2>1. tree[t] \in Trees \cup {NoTree}
    BY DEF ThreadInv
  <2>2. SharedInv'
    BY <1>6, <2>1, AppendProperties DEF Prepared, SharedInv
  <2> QED
    BY <1>6, <2>2, FinishKeeps DEF Prepared
<1>7. CASE EngineInstall(t)
  <2>1. SharedInv'
    BY <1>7 DEF EngineInstall, SharedInv, ThreadInv
  <2>2. ThreadInv'
    BY <1>7 DEF EngineInstall, ThreadInv, Goto, AcceptedBeforeStaged, HoldsADocument, Labels
  <2> QED
    BY <2>1, <2>2
<1>8. CASE ReadInstalled(t)
  BY <1>8 DEF ReadInstalled, SharedInv, ThreadInv, Goto, AcceptedBeforeStaged,
              HoldsADocument, Labels
<1> QED
  BY <1>1, <1>2, <1>3, <1>4, <1>5, <1>6, <1>7, <1>8

(* Inner::commit copies a staged document to the cache and to the hooks. *)
LEMMA CommitKeeps ==
  ASSUME IInv, NEW t \in Threads,
         \/ TakeStaged(t) \/ NothingStaged(t) \/ Claim(t) \/ Overtaken(t)
         \/ WriteCache(t) \/ BumpGeneration(t) \/ QueueHooks(t)
  PROVE  IInv'
<1> USE DEF IInv, vars, inner, published, calls, commits, engine, thread
<1>1. CASE TakeStaged(t)
  <2>1. PICK i \in Matches(t) : /\ entry' = [entry EXCEPT ![t] = staged[i]]
                                /\ staged' = Without(staged, i)
    BY <1>1 DEF TakeStaged
  <2>2. staged \in Seq(Publishable) /\ i \in 1..Len(staged)
    BY <2>1, LenProperties DEF SharedInv, Matches
  <2>3. staged[i] \in Publishable
    BY <2>2, ElementOfSeq
  <2>4. staged' \in Seq(Publishable) /\ Len(staged') = Len(staged) - 1
    BY <2>1, <2>2, WithoutType
  <2>5. Len(staged') <= MaxStaged
    BY <2>2, <2>4, LenProperties, BoundsAssumption DEF SharedInv
  <2>6. SharedInv'
    BY <1>1, <2>4, <2>5 DEF TakeStaged, SharedInv
  <2>7. ThreadInv'
    BY <1>1, <2>1, <2>3, PublishableIsDoc
       DEF TakeStaged, ThreadInv, Goto, AcceptedBeforeStaged, HoldsADocument, Labels
  <2> QED
    BY <2>6, <2>7
<1>2. CASE NothingStaged(t)
  BY <1>2, ReturnKeeps DEF NothingStaged, SharedInv
<1>3. CASE Claim(t)
  <2>1. entry[t].sequence \in Nat
    BY <1>3 DEF Claim, ThreadInv, HoldsADocument, Publishable, Doc
  <2>2. SharedInv'
    BY <1>3, <2>1 DEF Claim, SharedInv
  <2>3. ThreadInv'
    BY <1>3 DEF Claim, ThreadInv, Goto, AcceptedBeforeStaged, HoldsADocument, Labels
  <2> QED
    BY <2>2, <2>3
<1>4. CASE Overtaken(t)
  BY <1>4, ReturnKeeps DEF Overtaken, SharedInv
<1>5. CASE WriteCache(t)
  <2>1. SharedInv'
    BY <1>5 DEF WriteCache, SharedInv, ThreadInv
  <2>2. ThreadInv'
    BY <1>5 DEF WriteCache, ThreadInv, Goto, AcceptedBeforeStaged, HoldsADocument, Labels
  <2> QED
    BY <2>1, <2>2
<1>6. CASE BumpGeneration(t)
  <2>1. SharedInv'
    BY <1>6 DEF BumpGeneration, SharedInv
  <2>2. ThreadInv'
    BY <1>6 DEF BumpGeneration, ThreadInv, Goto, AcceptedBeforeStaged, HoldsADocument, Labels
  <2> QED
    BY <2>1, <2>2
<1>7. CASE QueueHooks(t)
  <2>1. entry[t] \in Publishable
    BY <1>7 DEF QueueHooks, ThreadInv, HoldsADocument
  <2>2. log' \in Seq(Publishable)
    BY <1>7, <2>1, AppendProperties DEF QueueHooks, SharedInv
  <2>3. queue' \in [HookTokens -> Seq(Publishable)]
    BY <1>7, <2>1, AppendProperties DEF QueueHooks, SharedInv
  <2>4. SharedInv'
    BY <1>7, <2>2, <2>3 DEF QueueHooks, SharedInv
  <2>5. ThreadInv'
    BY <1>7, ReturnKeeps DEF QueueHooks
  <2> QED
    BY <2>4, <2>5
<1> QED
  BY <1>1, <1>2, <1>3, <1>4, <1>5, <1>6, <1>7

(* The event loop registers and removes hooks, and runs their calls. *)
LEMMA LoopKeeps ==
  ASSUME IInv,
         \/ Subscription \/ \E h \in HookTokens : Deliver(h)
  PROVE  IInv'
<1> USE DEF IInv, vars, inner, published, calls, commits, engine, thread
<1>1. CASE OnReload
  <2>1. SharedInv'
    BY <1>1, BoundsAssumption DEF OnReload, SharedInv, HookTokens
  <2>2. ThreadInv'
    BY <1>1 DEF OnReload, ThreadInv, AcceptedBeforeStaged, HoldsADocument
  <2> QED
    BY <2>1, <2>2
<1>2. ASSUME NEW h \in HookTokens, RemoveHook(h) PROVE IInv'
  BY <1>2 DEF RemoveHook, SharedInv, ThreadInv, AcceptedBeforeStaged, HoldsADocument
<1>3. ASSUME NEW h \in HookTokens, Deliver(h) PROVE IInv'
  <2>1. Tail(queue[h]) \in Seq(Publishable)
    BY <1>3, HeadTailProperties DEF Deliver, SharedInv
  <2>2. SharedInv'
    BY <1>3, <2>1 DEF Deliver, SharedInv
  <2>3. ThreadInv'
    BY <1>3 DEF Deliver, ThreadInv, AcceptedBeforeStaged, HoldsADocument
  <2> QED
    BY <2>2, <2>3
<1> QED
  BY <1>1, <1>2, <1>3 DEF Subscription

-----------------------------------------------------------------------------
LEMMA NextIInv == IInv /\ [Next]_vars => IInv'
<1> SUFFICES ASSUME IInv, [Next]_vars PROVE IInv'
  OBVIOUS
<1>1. ASSUME NEW t \in Threads, Load(t) PROVE IInv'
  BY <1>1, BeginsKeeps, LoadKeeps DEF Load
<1>2. ASSUME NEW t \in Threads, Commit(t) PROVE IInv'
  BY <1>2, BeginsKeeps, CommitKeeps DEF Commit
<1>3. CASE Subscription \/ \E h \in HookTokens : Deliver(h)
  BY <1>3, LoopKeeps
<1>4. CASE UNCHANGED vars
  BY <1>4 DEF IInv, SharedInv, ThreadInv, AcceptedBeforeStaged, HoldsADocument,
              vars, inner, published, calls, commits, engine, thread
<1> QED
  BY <1>1, <1>2, <1>3, <1>4 DEF Next

LEMMA Inductive == Spec => []IInv
<1>1. Init => IInv
  BY InitIInv
<1>2. IInv /\ [Next]_vars => IInv'
  BY NextIInv
<1> QED
  BY <1>1, <1>2, PTL DEF Spec

-----------------------------------------------------------------------------
(* Every variable keeps its type; the staging area keeps its bound. *)
THEOREM TypeCorrect == Spec => []TypeOK
<1>1. IInv => TypeOK
  <2> SUFFICES ASSUME IInv PROVE TypeOK
    OBVIOUS
  <2>1. \A s \in Seq(Publishable) : s \in Seq(Doc)
    BY PublishableIsDoc
  <2> QED
    BY <2>1, PublishableIsDoc DEF IInv, SharedInv, ThreadInv, TypeOK
<1> QED
  BY <1>1, Inductive, PTL

(***************************************************************************)
(* A document validated for a candidate load is never staged, never handed *)
(* to a hook and never published, whatever the installs beside it do.      *)
(***************************************************************************)
THEOREM CandidatesStayPrivate == Spec => []NoCandidatePublished
<1>1. IInv => NoCandidatePublished
  <2> SUFFICES ASSUME IInv, NEW d \in Documents PROVE d.by # "load"
    BY DEF NoCandidatePublished
  <2>1. d \in Publishable
    BY ElementOfSeq, LenProperties DEF Documents, IInv, SharedInv
  <2> QED
    BY <2>1 DEF Publishable
<1> QED
  BY <1>1, Inductive, PTL

(***************************************************************************)
(* The published document is one replace() was given, or one of a tree the *)
(* validator accepted.                                                     *)
(***************************************************************************)
THEOREM PublishedWasAccepted == Spec => []PublishedIsValidated
<1>1. IInv => PublishedIsValidated
  BY DEF IInv, SharedInv, Publishable, PublishedIsValidated
<1> QED
  BY <1>1, Inductive, PTL

-----------------------------------------------------------------------------
(***************************************************************************)
(* The hooks.  What waits for a hook is the end of the log: `passed` of    *)
(* the log's documents were delivered or came before the hook, the others  *)
(* wait.  Appending to both and taking the head of one keep that.          *)
(***************************************************************************)
IsEnd(q, l) ==
  \E passed \in Nat :
    /\ Len(l) = passed + Len(q)
    /\ \A i \in 1..Len(q) : q[i] = l[passed + i]

LEMMA EndGrows ==
  ASSUME NEW S, NEW q \in Seq(S), NEW l \in Seq(S), NEW e \in S, IsEnd(q, l)
  PROVE  IsEnd(Append(q, e), Append(l, e))
<1>1. PICK passed \in Nat : /\ Len(l) = passed + Len(q)
                           /\ \A i \in 1..Len(q) : q[i] = l[passed + i]
  BY DEF IsEnd
<1>2. Len(Append(l, e)) = passed + Len(Append(q, e))
  BY <1>1, AppendProperties, LenProperties
<1>3. ASSUME NEW i \in 1..Len(Append(q, e))
      PROVE  Append(q, e)[i] = Append(l, e)[passed + i]
  <2>1. CASE i = Len(q) + 1
    BY <1>1, <2>1, AppendProperties, LenProperties
  <2>2. CASE i # Len(q) + 1
    BY <1>1, <2>2, AppendProperties, LenProperties
  <2> QED
    BY <2>1, <2>2
<1> QED
  BY <1>2, <1>3 DEF IsEnd

LEMMA EndShrinks ==
  ASSUME NEW S, NEW q \in Seq(S), q # <<>>, NEW l \in Seq(S), IsEnd(q, l)
  PROVE  IsEnd(Tail(q), l)
<1>1. PICK passed \in Nat : /\ Len(l) = passed + Len(q)
                           /\ \A i \in 1..Len(q) : q[i] = l[passed + i]
  BY DEF IsEnd
<1>2. /\ Len(Tail(q)) = Len(q) - 1 /\ Len(q) \in Nat
      /\ \A i \in 1..Len(Tail(q)) : Tail(q)[i] = q[i + 1]
  BY HeadTailProperties, LenProperties
<1>3. Len(l) = (passed + 1) + Len(Tail(q))
  BY <1>1, <1>2
<1>4. ASSUME NEW i \in 1..Len(Tail(q)) PROVE Tail(q)[i] = l[(passed + 1) + i]
  BY <1>1, <1>2
<1> QED
  BY <1>3, <1>4 DEF IsEnd

(***************************************************************************)
(* A token not handed out yet has nothing waiting, so that a new hook      *)
(* starts level with the log.                                              *)
(***************************************************************************)
HooksInv ==
  /\ \A h \in hooks : h < nextHook /\ IsEnd(queue[h], log)
  /\ \A h \in HookTokens : h >= nextHook => queue[h] = <<>>

LEMMA HooksUntouched == HooksInv /\ UNCHANGED calls => HooksInv'
  BY DEF HooksInv, calls

(* One round of calls: the log and the queue of each hook grow alike. *)
LEMMA QueueKeepsHooks ==
  ASSUME IInv, HooksInv, NEW t \in Threads, QueueHooks(t)
  PROVE  HooksInv'
<1>1. entry[t] \in Publishable /\ log \in Seq(Publishable)
  BY DEF IInv, SharedInv, ThreadInv, QueueHooks, HoldsADocument
<1>2. ASSUME NEW h \in hooks PROVE h < nextHook /\ IsEnd(queue'[h], log')
  <2>1. h \in HookTokens /\ queue[h] \in Seq(Publishable)
    BY DEF IInv, SharedInv
  <2>2. queue'[h] = Append(queue[h], entry[t]) /\ log' = Append(log, entry[t])
    BY <2>1 DEF QueueHooks
  <2>3. IsEnd(Append(queue[h], entry[t]), Append(log, entry[t]))
    BY <1>1, <2>1, EndGrows DEF HooksInv
  <2> QED
    BY <2>2, <2>3 DEF HooksInv
<1>3. hooks' = hooks /\ nextHook' = nextHook
  BY DEF QueueHooks
<1>4. ASSUME NEW h \in HookTokens, h >= nextHook PROVE queue'[h] = <<>>
  <2>1. h \notin hooks
    BY <1>4 DEF HooksInv, IInv, SharedInv, HookTokens
  <2> QED
    BY <1>4, <2>1 DEF HooksInv, QueueHooks
<1> QED
  BY <1>2, <1>3, <1>4 DEF HooksInv

(* One call delivered: the head goes, the rest is still the log's end. *)
LEMMA DeliverKeepsHooks ==
  ASSUME IInv, HooksInv, NEW h \in HookTokens, Deliver(h)
  PROVE  HooksInv'
<1>1. queue[h] \in Seq(Publishable) /\ queue[h] # <<>> /\ log \in Seq(Publishable)
  BY DEF IInv, SharedInv, Deliver
<1>2. queue' = [queue EXCEPT ![h] = Tail(queue[h])] /\ queue \in [HookTokens -> Seq(Publishable)]
  BY DEF Deliver, IInv, SharedInv
<1>3. UNCHANGED <<hooks, nextHook, log>>
  BY DEF Deliver
<1>4. queue'[h] = Tail(queue[h]) /\ \A g \in HookTokens \ {h} : queue'[g] = queue[g]
  BY <1>2
<1>5. ASSUME NEW g \in hooks PROVE g < nextHook /\ IsEnd(queue'[g], log)
  <2>1. g \in HookTokens /\ g < nextHook /\ IsEnd(queue[g], log)
    BY DEF HooksInv, IInv, SharedInv
  <2>2. CASE g = h
    BY <1>1, <1>4, <2>1, <2>2, EndShrinks
  <2>3. CASE g # h
    BY <1>4, <2>1, <2>3
  <2> QED
    BY <2>2, <2>3
<1>6. ASSUME NEW g \in HookTokens, g >= nextHook PROVE queue'[g] = <<>>
  BY <1>1, <1>4, <1>6 DEF HooksInv
<1> QED
  BY <1>3, <1>5, <1>6 DEF HooksInv

(* A hook registered now has missed nothing; one removed is not asked. *)
LEMMA SubscriptionKeepsHooks ==
  ASSUME IInv, HooksInv, Subscription
  PROVE  HooksInv'
<1>1. CASE OnReload
  <2>1. nextHook \in HookTokens /\ nextHook \in Int /\ hooks \subseteq Int
    BY <1>1, BoundsAssumption DEF OnReload, IInv, SharedInv, HookTokens
  <2>2. UNCHANGED <<queue, log>> /\ hooks' = hooks \cup {nextHook} /\ nextHook' = nextHook + 1
    BY <1>1 DEF OnReload
  <2>3. IsEnd(queue[nextHook], log)
    <3>1. queue[nextHook] = <<>> /\ log \in Seq(Publishable)
      BY <2>1 DEF HooksInv, IInv, SharedInv
    <3>2. IsEnd(<<>>, log)
      BY <3>1, EmptySeq, LenProperties DEF IsEnd
    <3> QED
      BY <3>1, <3>2
  <2>4. ASSUME NEW h \in hooks' PROVE h < nextHook + 1 /\ IsEnd(queue[h], log)
    <3>1. CASE h = nextHook
      BY <2>1, <2>3, <3>1
    <3>2. CASE h \in hooks
      BY <2>1, <3>2 DEF HooksInv
    <3> QED
      BY <2>2, <3>1, <3>2
  <2>5. ASSUME NEW h \in HookTokens, h >= nextHook + 1 PROVE queue[h] = <<>>
    BY <2>1, <2>5 DEF HooksInv, HookTokens
  <2> QED
    BY <2>2, <2>4, <2>5 DEF HooksInv
<1>2. ASSUME NEW h \in HookTokens, RemoveHook(h) PROVE HooksInv'
  BY <1>2 DEF RemoveHook, HooksInv
<1> QED
  BY <1>1, <1>2 DEF Subscription

LEMMA NextHooksInv == IInv /\ HooksInv /\ [Next]_vars => HooksInv'
<1> SUFFICES ASSUME IInv, HooksInv, [Next]_vars PROVE HooksInv'
  OBVIOUS
<1>1. ASSUME NEW t \in Threads, Load(t) PROVE HooksInv'
  BY <1>1, HooksUntouched
     DEF Load, StartLoad, Refused, Accepted, DrawSequence, Stage, RefusedLate,
         Prepared, EngineInstall, ReadInstalled
<1>2. ASSUME NEW t \in Threads, Commit(t) PROVE HooksInv'
  <2>1. CASE QueueHooks(t)
    BY <2>1, QueueKeepsHooks
  <2>2. CASE ~QueueHooks(t)
    BY <1>2, <2>2, HooksUntouched
       DEF Commit, StartCommit, Discard, StartReplace, TakeStaged, NothingStaged,
           Claim, Overtaken, WriteCache, BumpGeneration
  <2> QED
    BY <2>1, <2>2
<1>3. CASE Subscription \/ \E h \in HookTokens : Deliver(h)
  BY <1>3, SubscriptionKeepsHooks, DeliverKeepsHooks
<1>4. CASE UNCHANGED vars
  BY <1>4, HooksUntouched DEF vars
<1> QED
  BY <1>1, <1>2, <1>3, <1>4 DEF Next
=============================================================================
