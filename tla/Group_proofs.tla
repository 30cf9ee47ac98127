----------------------------- MODULE Group_proofs -----------------------------
(***************************************************************************)
(* What Group keeps for every number of members, calls and deployments.    *)
(*                                                                         *)
(* A call owns its tokens: nobody else takes one out, and it begins to     *)
(* commit only when it holds one in every member.  A member shows nothing  *)
(* of a call that prepares, since a validation moves nothing that is       *)
(* shown.                                                                  *)
(***************************************************************************)
EXTENDS Group, SequenceTheorems, WellFoundedInduction, TLAPS

(* The native half of one member. *)
Native == [staged : Seq(Entry), drawn : Nat, claimed : Nat, generation : Nat,
           serving : Trees \cup {NoTree}, installed : Trees \cup {NoTree}]

(* What is staged, and what was claimed, was drawn. *)
Numbered(n) ==
  /\ n.claimed <= n.drawn
  /\ \A i \in DOMAIN n.staged : n.staged[i].sequence <= n.drawn

Sound(n) == n \in Native /\ Numbered(n)

(* A call that was made knows its tree, and the tokens it still has to     *)
(* commit are there.                                                       *)
HoldsTokens(c) ==
  /\ phase[c] # "ready" => tree[c] \in Trees
  /\ phase[c] \in {"ready", "preparing"} => next[c] = 1
  /\ phase[c] = "ready" => \A m \in Members : answer[c][m] = "none"
  /\ phase[c] = "preparing" =>
       \A m \in Members : answer[c][m] = "prepared" => c \in tokens[m]
  /\ phase[c] = "committing" =>
       \A i \in next[c]..Len(Order) : c \in tokens[Order[i]]

(* What a member shows while c prepares is not the doing of c. *)
ShowsNothing(c) ==
  c \in Atomic /\ phase[c] = "preparing" => \A m \in Members : Served(m) = before[c][m]

TokensInv == \A c \in Calls : HoldsTokens(c)
IInv == TypeOK /\ (\A m \in Members : Numbered(native[m])) /\ TokensInv

-----------------------------------------------------------------------------
(* The native half of one member. *)

LEMMA RemoveAtType ==
  ASSUME NEW S, NEW s \in Seq(S), NEW i \in 1..Len(s)
  PROVE  /\ RemoveAt(s, i) \in Seq(S)
         /\ \A j \in DOMAIN RemoveAt(s, i) : \E k \in DOMAIN s : RemoveAt(s, i)[j] = s[k]
<1> DEFINE front == SubSeq(s, 1, i - 1)  back == SubSeq(s, i + 1, Len(s))
<1>1. Len(s) \in Nat /\ DOMAIN s = 1..Len(s) /\ \A j \in 1..Len(s) : s[j] \in S
  BY LenProperties, ElementOfSeq
<1>2. /\ front \in Seq(S) /\ Len(front) = i - 1
      /\ \A j \in 1..(i - 1) : front[j] = s[j]
  <2>1. i - 1 \in Int /\ \A j \in 1..(i - 1) : s[j] \in S
    BY <1>1
  <2> QED
    BY <1>1, <2>1, SubSeqProperties
<1>3. /\ back \in Seq(S) /\ Len(back) = Len(s) - i
      /\ \A j \in 1..(Len(s) - i) : back[j] = s[i + j]
  <2>1. i + 1 \in Int /\ Len(s) \in Int /\ \A j \in (i + 1)..Len(s) : s[j] \in S
    BY <1>1
  <2>2. /\ back \in Seq(S)
        /\ Len(back) = IF i + 1 <= Len(s) THEN Len(s) - (i + 1) + 1 ELSE 0
        /\ \A j \in 1..(Len(s) - (i + 1) + 1) : back[j] = s[(i + 1) + j - 1]
    BY <2>1, SubSeqProperties
  <2> HIDE DEF back
  <2>3. Len(s) - (i + 1) + 1 = Len(s) - i /\ \A j \in Int : (i + 1) + j - 1 = i + j
    BY <1>1
  <2>4. ASSUME NEW j \in 1..(Len(s) - i) PROVE back[j] = s[i + j]
    <3>1. j \in 1..(Len(s) - (i + 1) + 1) /\ j \in Int
      BY <1>1, <2>3
    <3>2. back[j] = s[(i + 1) + j - 1] /\ (i + 1) + j - 1 = i + j
      BY <2>2, <2>3, <3>1
    <3> QED
      BY <3>2
  <2>5. Len(back) = Len(s) - i
    <3>1. Len(back) = IF i + 1 <= Len(s) THEN Len(s) - i ELSE 0
      BY <2>2, <2>3
    <3>2. Len(s) \in Nat /\ i \in Nat /\ i <= Len(s)
      BY <1>1
    <3>3. CASE i + 1 <= Len(s)
      BY <3>1, <3>3
    <3>4. CASE i = Len(s)
      BY <3>1, <3>2, <3>4
    <3> QED
      BY <3>2, <3>3, <3>4
  <2> QED
    BY <2>2, <2>4, <2>5
<1> HIDE DEF front, back
<1>4. /\ RemoveAt(s, i) \in Seq(S) /\ Len(RemoveAt(s, i)) = Len(front) + Len(back)
      /\ \A j \in 1..(Len(front) + Len(back)) :
           RemoveAt(s, i)[j] = IF j <= Len(front) THEN front[j] ELSE back[j - Len(front)]
  BY <1>2, <1>3, ConcatProperties DEF RemoveAt, front, back
<1>5. DOMAIN RemoveAt(s, i) = 1..(Len(s) - 1)
  <2>1. Len(RemoveAt(s, i)) = Len(s) - 1
    BY <1>1, <1>2, <1>3, <1>4
  <2> QED
    BY <1>4, <2>1, LenProperties
<1>6. ASSUME NEW j \in 1..(Len(s) - 1)
      PROVE  \E k \in 1..Len(s) : RemoveAt(s, i)[j] = s[k]
  <2>1. j \in 1..(Len(front) + Len(back)) /\ Len(front) = i - 1
    BY <1>1, <1>2, <1>3
  <2>2. RemoveAt(s, i)[j] = IF j <= i - 1 THEN front[j] ELSE back[j - (i - 1)]
    BY <1>4, <2>1
  <2>3. CASE j <= i - 1
    <3>1. j \in 1..(i - 1) /\ j \in 1..Len(s)
      BY <1>1, <2>3
    <3> QED
      BY <1>2, <2>2, <2>3, <3>1
  <2>4. CASE ~(j <= i - 1)
    <3>1. /\ j - (i - 1) \in 1..(Len(s) - i) /\ j + 1 \in 1..Len(s)
          /\ i + (j - (i - 1)) = j + 1
      BY <1>1, <2>4
    <3>2. RemoveAt(s, i)[j] = s[j + 1]
      BY <1>3, <2>2, <2>4, <3>1
    <3> QED
      BY <3>1, <3>2
  <2> QED
    BY <2>3, <2>4
<1> QED
  BY <1>1, <1>4, <1>5, <1>6

(* A non-empty set of naturals has a least element. *)
LEMMA LeastOf ==
  ASSUME NEW T, T \subseteq Nat, T # {}
  PROVE  \E i \in T : \A j \in T : i <= j
<1> DEFINE R == {p \in Nat \X Nat : p[1] < p[2]}
<1>1. IsWellFoundedOn(R, Nat)
  BY NatLessThanWellFounded DEF OpToRel
<1>2. \A i, j \in Nat : <<j, i>> \notin R => i <= j
  OBVIOUS
<1> HIDE DEF R
<1>3. \E i \in T : \A j \in T : ~(<<j, i>> \in R)
  BY <1>1, WFMin, Zenon
<1> QED
  BY <1>2, <1>3

LEMMA EntryOf ==
  ASSUME NEW n, Sound(n), NEW i \in DOMAIN n.staged
  PROVE  /\ n.staged[i] \in Entry /\ n.staged[i].sequence <= n.drawn
         /\ n.staged[i].sequence \in Nat /\ DOMAIN n.staged = 1..Len(n.staged)
<1>1. n.staged \in Seq(Entry)
  BY DEF Sound, Native
<1>2. DOMAIN n.staged = 1..Len(n.staged)
  BY <1>1, LenProperties
<1>3. n.staged[i] \in Entry
  BY <1>1, <1>2, ElementOfSeq
<1> QED
  BY <1>2, <1>3 DEF Sound, Numbered, Entry

(* A validation is staged under a number of its own and shows nothing. *)
LEMMA ValidateIsSound ==
  ASSUME NEW n, Sound(n), NEW t \in Trees
  PROVE  Sound(Validate(n, t)) /\ Shown(Validate(n, t)) = Shown(n)
<1> DEFINE e == [sequence |-> n.drawn + 1, tree |-> t]
           pushed == Append(n.staged, e)
           kept == IF Len(pushed) > MaxStaged THEN Tail(pushed) ELSE pushed
<1>1. n.staged \in Seq(Entry) /\ n.drawn \in Nat /\ e \in Entry /\ Len(n.staged) \in Nat
  BY LenProperties DEF Sound, Native, Entry
<1>2. /\ pushed \in Seq(Entry) /\ pushed # <<>> /\ Len(pushed) = Len(n.staged) + 1
      /\ \A i \in 1..Len(n.staged) : pushed[i] = n.staged[i]
      /\ pushed[Len(n.staged) + 1] = e
  BY <1>1, AppendProperties
<1>3. e.sequence = n.drawn + 1
  OBVIOUS
<1>4. \A i \in 1..Len(pushed) : pushed[i].sequence <= n.drawn + 1
  <2> SUFFICES ASSUME NEW i \in 1..Len(pushed) PROVE pushed[i].sequence <= n.drawn + 1
    OBVIOUS
  <2>1. CASE i \in 1..Len(n.staged)
    <3>1. DOMAIN n.staged = 1..Len(n.staged)
      BY <1>1, LenProperties
    <3> QED
      BY <1>1, <1>2, <2>1, <3>1, EntryOf
  <2>2. CASE i = Len(n.staged) + 1
    BY <1>1, <1>2, <1>3, <2>2
  <2> QED
    BY <1>1, <1>2, <2>1, <2>2
<1> HIDE DEF e, pushed
<1>5. /\ kept \in Seq(Entry)
      /\ \A i \in DOMAIN kept : kept[i].sequence <= n.drawn + 1
  <2>1. Tail(pushed) \in Seq(Entry) /\ Len(Tail(pushed)) = Len(pushed) - 1
        /\ \A i \in 1..Len(Tail(pushed)) : Tail(pushed)[i] = pushed[i + 1]
    BY <1>2, HeadTailProperties
  <2>2. \A i \in DOMAIN Tail(pushed) : Tail(pushed)[i].sequence <= n.drawn + 1
    <3> SUFFICES ASSUME NEW i \in DOMAIN Tail(pushed)
                 PROVE  Tail(pushed)[i].sequence <= n.drawn + 1
      OBVIOUS
    <3>1. DOMAIN Tail(pushed) = 1..(Len(pushed) - 1) /\ Len(pushed) \in Nat
      BY <1>2, <2>1, LenProperties
    <3>2. i + 1 \in 1..Len(pushed) /\ Tail(pushed)[i] = pushed[i + 1]
      BY <2>1, <3>1
    <3> QED
      BY <1>4, <3>2
  <2>3. DOMAIN pushed = 1..Len(pushed)
    BY <1>2, LenProperties
  <2> QED
    BY <1>2, <1>4, <2>1, <2>2, <2>3
<1> HIDE DEF kept
<1>6. Validate(n, t) = [n EXCEPT !.drawn = n.drawn + 1, !.staged = kept]
  BY DEF Validate, kept, pushed, e
<1>7. n \in Native /\ n.claimed <= n.drawn /\ n.claimed \in Nat
  BY DEF Sound, Numbered, Native
<1>8. Validate(n, t) \in Native
  <2>1. Validate(n, t) =
          [staged |-> kept, drawn |-> n.drawn + 1, claimed |-> n.claimed,
           generation |-> n.generation, serving |-> n.serving, installed |-> n.installed]
    BY <1>6, <1>7 DEF Native
  <2>2. n.generation \in Nat /\ {n.serving, n.installed} \subseteq Trees \cup {NoTree}
    BY <1>7 DEF Native
  <2> QED
    BY <1>1, <1>5, <1>7, <2>1, <2>2 DEF Native
<1>9. /\ Validate(n, t).claimed = n.claimed /\ Validate(n, t).drawn = n.drawn + 1
      /\ Validate(n, t).staged = kept
      /\ Validate(n, t).serving = n.serving /\ Validate(n, t).installed = n.installed
      /\ Validate(n, t).generation = n.generation
  BY <1>6, <1>7 DEF Native
<1>10. Numbered(Validate(n, t))
  BY <1>1, <1>5, <1>7, <1>9 DEF Numbered
<1> QED
  BY <1>8, <1>9, <1>10 DEF Sound, Shown

(* A publication claims a number that was drawn. *)
LEMMA ToldIsSound ==
  ASSUME NEW n \in Native, Numbered(n), NEW k \in Nat, k <= n.drawn, NEW t \in Trees
  PROVE  Sound([n EXCEPT !.claimed = k, !.serving = t, !.generation = n.generation + 1])
<1> DEFINE g == n.generation + 1
           claimed == [n EXCEPT !.claimed = k]
           serving == [claimed EXCEPT !.serving = t]
           told == [serving EXCEPT !.generation = g]
<1>1. g \in Nat
  BY DEF Native
<1>2. /\ claimed \in Native /\ claimed.claimed = k
      /\ claimed.drawn = n.drawn /\ claimed.staged = n.staged
  BY DEF Native
<1>3. told = [n EXCEPT !.claimed = k, !.serving = t, !.generation = n.generation + 1]
  OBVIOUS
<1> HIDE DEF g, claimed
<1>4. /\ serving \in Native /\ serving.claimed = k
      /\ serving.drawn = n.drawn /\ serving.staged = n.staged
  BY <1>2 DEF Native
<1> HIDE DEF serving
<1>5. /\ told \in Native /\ told.claimed = k
      /\ told.drawn = n.drawn /\ told.staged = n.staged
  BY <1>1, <1>4 DEF Native
<1> HIDE DEF told
<1>6. Sound(told)
  BY <1>5 DEF Sound, Numbered
<1> QED
  BY <1>3, <1>6

LEMMA PublishIsSound ==
  ASSUME NEW n, Sound(n), NEW t \in Trees
  PROVE  Sound(Publish(n, t))
<1> DEFINE Match(i) == n.staged[i].tree = t
           first == CHOOSE i \in DOMAIN n.staged :
                      n.staged[i].tree = t /\ \A j \in 1..(i - 1) : n.staged[j].tree # t
<1>1. CASE \A i \in DOMAIN n.staged : ~Match(i)
  BY <1>1 DEF Publish
<1>2. CASE \E i \in DOMAIN n.staged : Match(i)
  <2>1. n.staged \in Seq(Entry) /\ DOMAIN n.staged = 1..Len(n.staged) /\ Len(n.staged) \in Nat
    BY LenProperties DEF Sound, Native
  <2>2. \E i \in DOMAIN n.staged : Match(i) /\ \A j \in 1..(i - 1) : ~Match(j)
    <3> DEFINE T == {i \in DOMAIN n.staged : Match(i)}
    <3>1. T \subseteq Nat /\ T # {}
      BY <1>2, <2>1
    <3>2. PICK i \in T : \A j \in T : i <= j
      <4> HIDE DEF T
      <4> QED
        BY <3>1, LeastOf
    <3>3. \A j \in 1..(i - 1) : j \in DOMAIN n.staged /\ ~(i <= j)
      BY <2>1, <3>2
    <3> QED
      BY <3>2, <3>3
  <2>3. first \in DOMAIN n.staged
    BY <2>2
  <2> HIDE DEF first
  <2> DEFINE number == n.staged[first].sequence
             taken == [n EXCEPT !.staged = RemoveAt(n.staged, first)]
  <2>4. number \in Nat /\ number <= n.drawn /\ n.drawn \in Nat /\ n \in Native
    BY <2>3, EntryOf DEF Sound, Native
  <2>5. /\ RemoveAt(n.staged, first) \in Seq(Entry)
        /\ \A j \in DOMAIN RemoveAt(n.staged, first) :
             RemoveAt(n.staged, first)[j].sequence <= n.drawn
    <3>1. first \in 1..Len(n.staged)
      BY <2>1, <2>3
    <3>2. /\ RemoveAt(n.staged, first) \in Seq(Entry)
          /\ \A j \in DOMAIN RemoveAt(n.staged, first) :
               \E k \in DOMAIN n.staged : RemoveAt(n.staged, first)[j] = n.staged[k]
      BY <2>1, <3>1, RemoveAtType
    <3> QED
      BY <3>2, EntryOf
  <2>6. taken \in Native /\ Numbered(taken) /\ taken.drawn = n.drawn
        /\ taken.staged = RemoveAt(n.staged, first)
    BY <2>4, <2>5 DEF Native, Sound, Numbered
  <2> DEFINE told == [taken EXCEPT !.claimed = number, !.serving = t,
                                   !.generation = taken.generation + 1]
  <2>7. Sound(told)
    <3> HIDE DEF number, taken
    <3> QED
      BY <2>4, <2>6, ToldIsSound
  <2>8. Publish(n, t) = IF number <= n.claimed THEN taken ELSE told
    <3>1. Publish(n, t) =
            LET i == first
                out == [n EXCEPT !.staged = RemoveAt(n.staged, i)]
            IN IF n.staged[i].sequence <= n.claimed THEN out
               ELSE [out EXCEPT !.claimed = n.staged[i].sequence, !.serving = t,
                                !.generation = out.generation + 1]
      BY <1>2 DEF Publish, first
    <3> QED
      BY <3>1
  <2> QED
    BY <2>6, <2>7, <2>8 DEF Sound
<1> QED
  BY <1>1, <1>2

LEMMA InstallIsSound ==
  ASSUME NEW n, Sound(n), NEW t \in Trees
  PROVE  Sound(Hooked(n, t)) /\ Sound(Install(n, t))
<1>1. Sound([n EXCEPT !.installed = t])
  BY DEF Sound, Native, Numbered
<1> QED
  BY <1>1, PublishIsSound DEF Hooked, Install

-----------------------------------------------------------------------------
(* A step on one member leaves the others as they were. *)

LEMMA OneMemberMoves ==
  ASSUME IInv, NEW m \in Members, NEW moved, Sound(moved),
         native' = [native EXCEPT ![m] = moved]
  PROVE  native' \in [Members -> Native] /\ \A o \in Members : Numbered(native'[o])
  BY DEF IInv, TypeOK, Native, Sound

LEMMA MembersAreSound == IInv => \A m \in Members : Sound(native[m])
  BY DEF IInv, TypeOK, Native, Sound

(* What a member shows is of the type of what calls remember. *)
LEMMA ShownType ==
  ASSUME NEW n, Sound(n)
  PROVE  Shown(n) \in (Trees \cup {NoTree}) \X (Trees \cup {NoTree}) \X Nat
<1>1. n.generation \in Nat /\ {n.serving, n.installed} \subseteq Trees \cup {NoTree}
  BY DEF Sound, Native
<1> QED
  BY <1>1 DEF Shown

(* A member that moved is noted by some calls, which keeps their type. *)
LEMMA NotedType ==
  ASSUME IInv, NEW m \in Members, NEW others, Sound(native'[m]), Noted(m, others)
  PROVE  before' \in [Calls -> [Members ->
           (Trees \cup {NoTree}) \X (Trees \cup {NoTree}) \X Nat]]
<1> DEFINE Memory == [Members -> (Trees \cup {NoTree}) \X (Trees \cup {NoTree}) \X Nat]
<1>1. before \in [Calls -> Memory]
  BY DEF IInv, TypeOK
<1>2. \A c \in Calls : [before[c] EXCEPT ![m] = Shown(native'[m])] \in Memory
  BY <1>1, ShownType
<1> HIDE DEF Memory
<1>3. \A c \in Calls :
        (IF c \in others THEN [before[c] EXCEPT ![m] = Shown(native'[m])] ELSE before[c])
          \in Memory
  BY <1>1, <1>2
<1>4. before' \in [Calls -> Memory]
  BY <1>3 DEF Noted
<1> QED
  BY <1>4 DEF Memory

(* A call that watches a member move alone goes on showing nothing. *)
LEMMA NotedShowsNothing ==
  ASSUME IInv, NEW m \in Members, NEW moved, native' = [native EXCEPT ![m] = moved],
         NEW others, Noted(m, others), NEW c \in others, c \in Calls,
         UNCHANGED phase, ShowsNothing(c)
  PROVE  ShowsNothing(c)'
<1>1. before'[c] = [before[c] EXCEPT ![m] = Shown(native'[m])]
  BY DEF Noted
<1>2. before[c] \in [Members -> (Trees \cup {NoTree}) \X (Trees \cup {NoTree}) \X Nat]
  BY DEF IInv, TypeOK
<1>3. \A o \in Members : native'[o] = IF o = m THEN moved ELSE native[o]
  BY DEF IInv, TypeOK
<1> SUFFICES ASSUME c \in Atomic, phase[c] = "preparing", NEW o \in Members
             PROVE  Shown(native'[o]) = before'[c][o]
  BY DEF ShowsNothing, Served
<1>4. CASE o = m
  BY <1>1, <1>2, <1>4
<1>5. CASE o # m
  BY <1>1, <1>2, <1>3, <1>5 DEF ShowsNothing, Served
<1> QED
  BY <1>4, <1>5

-----------------------------------------------------------------------------
(* The steps. *)

LEMMA InitIsSound == Init => IInv /\ \A c \in Calls : ShowsNothing(c)
<1> SUFFICES ASSUME Init PROVE IInv /\ \A c \in Calls : ShowsNothing(c)
  OBVIOUS
<1> DEFINE fresh == [staged |-> <<>>, drawn |-> 0, claimed |-> 0, generation |-> 0,
                     serving |-> NoTree, installed |-> NoTree]
<1>1. Sound(fresh)
  BY EmptySeq DEF Sound, Native, Numbered
<1>2. native \in [Members -> Native] /\ \A m \in Members : native[m] = fresh
  BY <1>1 DEF Init, Sound
<1> HIDE DEF fresh
<1>3. \A m \in Members : Numbered(native[m]) /\ native[m].claimed <= native[m].drawn
  BY <1>1, <1>2 DEF Sound, Numbered
<1>4. \A m \in Members :
        Served(m) \in (Trees \cup {NoTree}) \X (Trees \cup {NoTree}) \X Nat
  BY <1>1, <1>2, ShownType DEF Served
<1>5. Len(Order) \in Nat
  BY GroupAssumption, LenProperties
<1>6. TypeOK
  BY <1>2, <1>3, <1>4, <1>5, GroupAssumption DEF Init, TypeOK, Native
<1>7. TokensInv
  BY DEF Init, TokensInv, HoldsTokens
<1> QED
  BY <1>3, <1>6, <1>7 DEF IInv, Init, ShowsNothing

LEMMA CallsKnowTheirTree ==
  ASSUME IInv, NEW c \in Calls,
         phase[c] # "ready" \/ \E m \in Members : answer[c][m] # "none"
  PROVE  tree[c] \in Trees
  BY DEF IInv, TokensInv, HoldsTokens

(* What is left to commit is in the group. *)
LEMMA LeftIsInOrder ==
  ASSUME IInv, NEW c \in Calls
  PROVE  /\ \A i \in next[c]..Len(Order) : i \in 1..Len(Order)
         /\ \A i \in 1..Len(Order) : Order[i] \in Members /\ i \in DOMAIN Order
         /\ Len(Order) \in Nat /\ next[c] \in 1..(Len(Order) + 1)
<1>1. /\ \A i \in 1..Len(Order) : Order[i] \in Members /\ i \in DOMAIN Order
      /\ Len(Order) \in Nat
  BY GroupAssumption, ElementOfSeq, LenProperties
<1>2. next[c] \in 1..(Len(Order) + 1)
  BY DEF IInv, TypeOK
<1> QED
  BY <1>1, <1>2

LEMMA CallIsSound ==
  ASSUME IInv, \A c \in Calls : ShowsNothing(c), NEW c \in Calls, Call(c)
  PROVE  IInv' /\ \A d \in Calls : ShowsNothing(d)'
<1>1. \A m \in Members :
        Served(m) \in (Trees \cup {NoTree}) \X (Trees \cup {NoTree}) \X Nat
  BY MembersAreSound, ShownType DEF Served
<1>2. TypeOK'
  BY <1>1 DEF Call, IInv, TypeOK
<1>3. TokensInv'
  <2> SUFFICES ASSUME NEW d \in Calls PROVE HoldsTokens(d)'
    BY DEF TokensInv
  <2>1. CASE d = c
    BY <2>1 DEF Call, IInv, TypeOK, TokensInv, HoldsTokens
  <2>2. CASE d # c
    BY <2>2 DEF Call, IInv, TypeOK, TokensInv, HoldsTokens
  <2> QED
    BY <2>1, <2>2
<1>4. \A d \in Calls : ShowsNothing(d)'
  <2> SUFFICES ASSUME NEW d \in Calls PROVE ShowsNothing(d)'
    OBVIOUS
  <2>1. CASE d = c
    BY <2>1 DEF Call, IInv, TypeOK, ShowsNothing, Served
  <2>2. CASE d # c
    BY <2>2 DEF Call, IInv, TypeOK, ShowsNothing, Served
  <2> QED
    BY <2>1, <2>2
<1> QED
  BY <1>2, <1>3, <1>4 DEF Call, IInv

LEMMA PrepareIsSound ==
  ASSUME IInv, \A c \in Calls : ShowsNothing(c),
         NEW c \in Calls, NEW m \in Members, Prepare(c, m)
  PROVE  IInv' /\ \A d \in Calls : ShowsNothing(d)'
<1> DEFINE moved == Validate(native[m], tree[c])
<1>1. Sound(moved) /\ Shown(moved) = Shown(native[m])
  BY MembersAreSound, ValidateIsSound, CallsKnowTheirTree DEF Prepare
<1> HIDE DEF moved
<1>2. native' = [native EXCEPT ![m] = moved]
  BY DEF Prepare, moved
<1>3. native' \in [Members -> Native] /\ \A o \in Members : Numbered(native'[o])
  BY <1>1, <1>2, OneMemberMoves
<1>4. \A o \in Members : Shown(native'[o]) = Shown(native[o])
  BY <1>1, <1>2 DEF IInv, TypeOK
<1>5. TypeOK'
  BY <1>3 DEF Prepare, IInv, TypeOK, Native, Numbered
<1>6. TokensInv'
  <2> SUFFICES ASSUME NEW d \in Calls PROVE HoldsTokens(d)'
    BY DEF TokensInv
  <2>1. /\ \A o \in Members, d1 \in Calls : d1 \in tokens[o] => d1 \in tokens'[o]
        /\ c \in tokens'[m]
        /\ \A o \in Members : o # m => answer'[c][o] = answer[c][o]
        /\ \A d1 \in Calls : d1 # c => answer'[d1] = answer[d1]
        /\ UNCHANGED <<phase, next>>
    BY DEF Prepare, IInv, TypeOK
  <2>2. phase[c] # "ready" /\ UNCHANGED tree
    BY DEF Prepare, IInv, TokensInv, HoldsTokens
  <2>3. CASE d = c
    BY <2>1, <2>2, <2>3, LeftIsInOrder DEF IInv, TokensInv, HoldsTokens
  <2>4. CASE d # c
    BY <2>1, <2>2, <2>4, LeftIsInOrder DEF IInv, TokensInv, HoldsTokens
  <2> QED
    BY <2>3, <2>4
<1>7. \A d \in Calls : ShowsNothing(d)'
  BY <1>4 DEF Prepare, ShowsNothing, Served
<1> QED
  BY <1>3, <1>5, <1>6, <1>7 DEF IInv

LEMMA ReloadIsSound ==
  ASSUME IInv, \A c \in Calls : ShowsNothing(c),
         NEW c \in Calls, NEW m \in Members, Reload(c, m)
  PROVE  IInv' /\ \A d \in Calls : ShowsNothing(d)'
<1> DEFINE moved == Install(Validate(native[m], tree[c]), tree[c])
<1>1. Sound(moved)
  BY MembersAreSound, ValidateIsSound, InstallIsSound, CallsKnowTheirTree DEF Reload
<1> HIDE DEF moved
<1>2. native' = [native EXCEPT ![m] = moved]
  BY DEF Reload, moved
<1>3. native' \in [Members -> Native] /\ \A o \in Members : Numbered(native'[o])
  BY <1>1, <1>2, OneMemberMoves
<1>4. Sound(native'[m]) /\ Noted(m, Calls \ {c})
  BY <1>1, <1>2 DEF Reload, IInv, TypeOK
<1>5. TypeOK'
  BY <1>3, <1>4, NotedType DEF Reload, IInv, TypeOK, Native, Numbered
<1>6. TokensInv'
  <2>1. phase[c] # "ready" /\ UNCHANGED <<phase, tokens, next, tree>>
    BY DEF Reload, IInv, TokensInv, HoldsTokens
  <2>2. \A d \in Calls, o \in Members :
          answer'[d][o] = answer[d][o] \/ (d = c /\ answer'[d][o] = "reloaded")
    BY DEF Reload, IInv, TypeOK
  <2> QED
    BY <2>1, <2>2 DEF IInv, TokensInv, HoldsTokens
<1>7. \A d \in Calls : ShowsNothing(d)'
  <2> SUFFICES ASSUME NEW d \in Calls PROVE ShowsNothing(d)'
    OBVIOUS
  <2>1. CASE d = c
    BY <2>1 DEF Reload, ShowsNothing
  <2>2. CASE d # c
    BY <1>2, <1>4, <2>2, NotedShowsNothing DEF Reload
  <2> QED
    BY <2>1, <2>2
<1> QED
  BY <1>3, <1>5, <1>6, <1>7 DEF IInv

LEMMA WatchIsSound ==
  ASSUME IInv, \A c \in Calls : ShowsNothing(c), NEW m \in Watched, Watch(m)
  PROVE  IInv' /\ \A d \in Calls : ShowsNothing(d)'
<1>1. PICK t \in Trees : native' = [native EXCEPT ![m] = Hooked(Validate(@, t), t)]
  BY DEF Watch
<1> DEFINE moved == Hooked(Validate(native[m], t), t)
<1>2. m \in Members
  BY GroupAssumption
<1>3. Sound(moved)
  BY <1>2, MembersAreSound, ValidateIsSound, InstallIsSound
<1> HIDE DEF moved
<1>4. native' = [native EXCEPT ![m] = moved]
  BY <1>1 DEF moved
<1>5. native' \in [Members -> Native] /\ \A o \in Members : Numbered(native'[o])
  BY <1>2, <1>3, <1>4, OneMemberMoves
<1>6. Sound(native'[m]) /\ Noted(m, Calls)
  BY <1>2, <1>3, <1>4 DEF Watch, IInv, TypeOK
<1>7. TypeOK'
  <2>1. watches' \in 0..MaxWatches
    BY GroupAssumption DEF Watch, IInv, TypeOK
  <2> QED
    BY <1>2, <1>5, <1>6, <2>1, NotedType DEF Watch, IInv, TypeOK, Native, Numbered
<1>8. TokensInv'
  BY DEF Watch, IInv, TokensInv, HoldsTokens
<1>9. \A d \in Calls : ShowsNothing(d)'
  BY <1>2, <1>4, <1>6, NotedShowsNothing DEF Watch
<1> QED
  BY <1>5, <1>7, <1>8, <1>9 DEF IInv

LEMMA CommitIsSound ==
  ASSUME IInv, \A c \in Calls : ShowsNothing(c), NEW c \in Calls, CommitNext(c)
  PROVE  IInv' /\ \A d \in Calls : ShowsNothing(d)'
<1> DEFINE m == Order[next[c]]
           moved == Install(native[m], tree[c])
<1>1. next[c] \in 1..Len(Order) /\ m \in Members
  BY LeftIsInOrder DEF CommitNext
<1>2. Sound(moved)
  BY <1>1, MembersAreSound, InstallIsSound, CallsKnowTheirTree DEF CommitNext
<1> HIDE DEF moved
<1>3. /\ native' = [native EXCEPT ![m] = moved] /\ tokens' = [tokens EXCEPT ![m] = @ \ {c}]
      /\ Noted(m, Calls \ {c}) /\ phase[c] = "committing"
      /\ next' = [next EXCEPT ![c] = @ + 1] /\ UNCHANGED <<phase, tree, answer, watches>>
  BY DEF CommitNext, moved
<1> HIDE DEF m
<1>4. native' \in [Members -> Native] /\ \A o \in Members : Numbered(native'[o])
  BY <1>1, <1>2, <1>3, OneMemberMoves
<1>5. Sound(native'[m])
  BY <1>1, <1>2, <1>3 DEF IInv, TypeOK
<1>6. TypeOK'
  <2>1. next' \in [Calls -> 1..(Len(Order) + 1)]
    <3>1. next \in [Calls -> 1..(Len(Order) + 1)]
      BY DEF IInv, TypeOK
    <3>2. next[c] + 1 \in 1..(Len(Order) + 1)
      BY <1>1, LeftIsInOrder
    <3>3. next' = [next EXCEPT ![c] = next[c] + 1]
      BY <1>3
    <3> QED
      BY <3>1, <3>2, <3>3
  <2>2. before' \in [Calls -> [Members ->
           (Trees \cup {NoTree}) \X (Trees \cup {NoTree}) \X Nat]]
    BY <1>1, <1>3, <1>5, NotedType
  <2>3. tokens' \in [Members -> SUBSET Calls]
    BY <1>3 DEF IInv, TypeOK
  <2> QED
    BY <1>3, <1>4, <2>1, <2>2, <2>3 DEF IInv, TypeOK, Native, Numbered
<1>7. TokensInv'
  <2> SUFFICES ASSUME NEW d \in Calls PROVE HoldsTokens(d)'
    BY DEF TokensInv
  <2>1. CASE d = c
    <3>1. \A i \in next'[c]..Len(Order) : i \in next[c]..Len(Order) /\ i # next[c]
      <4>1. next'[c] = next[c] + 1
        BY <1>3 DEF IInv, TypeOK
      <4> QED
        BY <4>1, LeftIsInOrder
    <3>2. \A i \in next'[c]..Len(Order) : Order[i] # m /\ Order[i] \in Members
      BY <1>1, <3>1, LeftIsInOrder, GroupAssumption DEF m
    <3>3. \A i \in next'[c]..Len(Order) : c \in tokens'[Order[i]]
      BY <1>3, <3>1, <3>2 DEF IInv, TypeOK, TokensInv, HoldsTokens
    <3> QED
      BY <1>3, <2>1, <3>3 DEF IInv, TokensInv, HoldsTokens
  <2>2. CASE d # c
    <3>1. \A o \in Members : d \in tokens[o] => d \in tokens'[o]
      BY <1>3, <2>2 DEF IInv, TypeOK
    <3>2. next'[d] = next[d]
      BY <1>3, <2>2 DEF IInv, TypeOK
    <3> QED
      BY <1>3, <3>1, <3>2, LeftIsInOrder DEF IInv, TokensInv, HoldsTokens
  <2> QED
    BY <2>1, <2>2
<1>8. \A d \in Calls : ShowsNothing(d)'
  <2> SUFFICES ASSUME NEW d \in Calls PROVE ShowsNothing(d)'
    OBVIOUS
  <2>1. CASE d = c
    BY <1>3, <2>1 DEF ShowsNothing
  <2>2. CASE d # c
    BY <1>1, <1>3, <2>2, NotedShowsNothing
  <2> QED
    BY <2>1, <2>2
<1> QED
  BY <1>4, <1>6, <1>7, <1>8 DEF IInv

(* The steps that move no member: answers, and the loop's continuations. *)
LEMMA ContinuationIsSound ==
  ASSUME IInv, \A c \in Calls : ShowsNothing(c), NEW c \in Calls,
         \/ Reject(c) \/ Settle(c) \/ StartCommits(c) \/ EndCommits(c)
         \/ \E m \in Members : Refuse(c, m)
  PROVE  IInv' /\ \A d \in Calls : ShowsNothing(d)'
<1>1. CASE \E m \in Members : Refuse(c, m)
  <2>1. PICK m \in Members : Refuse(c, m)
    BY <1>1
  <2>2. TypeOK'
    BY <2>1 DEF Refuse, IInv, TypeOK
  <2>3. \A d \in Calls, o \in Members :
          answer'[d][o] = answer[d][o] \/ (d = c /\ answer'[d][o] = "refused")
    BY <2>1 DEF Refuse, IInv, TypeOK
  <2>4. phase[c] # "ready"
    BY <2>1 DEF Refuse, IInv, TokensInv, HoldsTokens
  <2>5. TokensInv'
    BY <2>1, <2>3, <2>4 DEF Refuse, IInv, TokensInv, HoldsTokens
  <2> QED
    BY <2>1, <2>2, <2>5 DEF Refuse, IInv, ShowsNothing, Served
<1>2. CASE Reject(c) \/ Settle(c) \/ StartCommits(c) \/ EndCommits(c)
  <2>1. /\ UNCHANGED <<native, tokens, tree, answer, next, watches, before>>
        /\ phase[c] # "ready"
        /\ \A d \in Calls \ {c} : phase'[d] = phase[d]
        /\ phase'[c] \in {"committing", "resolved", "rejected"}
    BY <1>2 DEF Reject, Settle, StartCommits, EndCommits, IInv, TypeOK
  <2>2. TypeOK'
    BY <1>2 DEF Reject, Settle, StartCommits, EndCommits, IInv, TypeOK
  <2>3. HoldsTokens(c)'
    <3>1. phase'[c] = "committing" =>
            /\ phase[c] = "preparing" /\ \A m \in Members : answer[c][m] = "prepared"
      BY <1>2 DEF Reject, Settle, StartCommits, EndCommits, IInv, TypeOK
    <3> QED
      BY <2>1, <3>1, LeftIsInOrder DEF IInv, TokensInv, HoldsTokens
  <2>4. TokensInv'
    BY <2>1, <2>3 DEF IInv, TokensInv, HoldsTokens
  <2>5. \A d \in Calls : ShowsNothing(d)'
    BY <2>1 DEF ShowsNothing, Served
  <2> QED
    BY <2>1, <2>2, <2>4, <2>5 DEF IInv
<1> QED
  BY <1>1, <1>2

LEMMA StepIsSound ==
  ASSUME IInv, \A c \in Calls : ShowsNothing(c), [Next]_vars
  PROVE  IInv' /\ \A c \in Calls : ShowsNothing(c)'
<1>1. ASSUME NEW c \in Calls, Call(c) \/ Proceed(c)
      PROVE  IInv' /\ \A d \in Calls : ShowsNothing(d)'
  BY <1>1, CallIsSound, PrepareIsSound, ReloadIsSound, CommitIsSound, ContinuationIsSound
     DEF Proceed
<1>2. CASE UNCHANGED vars
  BY <1>2 DEF vars, IInv, TypeOK, Numbered, TokensInv, HoldsTokens, ShowsNothing, Served
<1> QED
  BY <1>1, <1>2, WatchIsSound DEF Next

LEMMA GroupInductive == Spec => [](IInv /\ \A c \in Calls : ShowsNothing(c))
<1> DEFINE Kept == IInv /\ \A c \in Calls : ShowsNothing(c)
<1>1. Init => Kept
  BY InitIsSound
<1>2. Kept /\ [Next]_vars => Kept'
  BY StepIsSound
<1> HIDE DEF Kept
<1>3. Spec => []Kept
  BY <1>1, <1>2, PTL DEF Spec
<1> QED
  BY <1>3 DEF Kept

-----------------------------------------------------------------------------
(* Calls of reloadAtomic() that are awaited and never refused, by members  *)
(* nobody watches.                                                         *)

Undisturbed == Awaited /\ ~Refusals /\ Watched = {} /\ Calls \subseteq Atomic

(* The member staged this deployment and nothing else, under a new number. *)
Fresh(n, t) == \E s \in Nat : n.staged = <<[sequence |-> s, tree |-> t]>> /\ s > n.claimed

Level == \A m, o \in Members : native[m].serving = native[o].serving

(* How far the one call under way has come, member by member. *)
Stands(c) ==
  /\ phase[c] = "preparing" =>
       /\ Level
       /\ \A m \in Members : IF answer[c][m] = "prepared" THEN Fresh(native[m], tree[c])
                             ELSE answer[c][m] = "loading" /\ native[m].staged = <<>>
  /\ phase[c] = "committing" =>
       \A i \in 1..Len(Order) :
         IF i < next[c] THEN /\ native[Order[i]].staged = <<>>
                             /\ native[Order[i]].serving = tree[c]
         ELSE Fresh(native[Order[i]], tree[c])

OneByOne ==
  /\ \A c, d \in Calls : UnderWay(c) /\ UnderWay(d) => c = d
  /\ \A c \in Calls : phase[c] \in {"ready", "preparing", "committing", "resolved"}
  /\ \A c \in Calls, m \in Members :
       /\ phase[c] = "ready" => answer[c][m] = "none"
       /\ phase[c] \in {"committing", "resolved"} => answer[c][m] = "prepared"
  /\ (\A c \in Calls : ~UnderWay(c)) => Level /\ \A m \in Members : native[m].staged = <<>>
  /\ \A c \in Calls : UnderWay(c) => Stands(c)

LEMMA FirstStaged ==
  ASSUME NEW n, Sound(n), NEW t \in Trees, n.staged = <<>>
  PROVE  Fresh(Validate(n, t), t) /\ Validate(n, t).serving = n.serving
<1> DEFINE e == [sequence |-> n.drawn + 1, tree |-> t]
           pushed == Append(n.staged, e)
           kept == IF Len(pushed) > MaxStaged THEN Tail(pushed) ELSE pushed
<1>1. n \in Native /\ n.drawn \in Nat /\ n.claimed \in Nat /\ n.claimed <= n.drawn
  BY DEF Sound, Numbered, Native
<1>2. kept = <<e>>
  <2>1. pushed = <<e>> /\ Len(<<e>>) = 1
    OBVIOUS
  <2> QED
    BY <2>1 DEF MaxStaged
<1>3. Validate(n, t) = [n EXCEPT !.drawn = n.drawn + 1, !.staged = kept]
  BY DEF Validate
<1> HIDE DEF kept
<1>4. /\ Validate(n, t).staged = kept /\ Validate(n, t).claimed = n.claimed
      /\ Validate(n, t).serving = n.serving
  BY <1>1, <1>3 DEF Native
<1>5. n.drawn + 1 \in Nat /\ n.drawn + 1 > n.claimed
  BY <1>1
<1>6. Validate(n, t).staged = <<[sequence |-> n.drawn + 1, tree |-> t]>>
  BY <1>2, <1>4, Zenon
<1>7. Fresh(Validate(n, t), t)
  BY <1>4, <1>5, <1>6, Zenon DEF Fresh
<1> QED
  BY <1>4, <1>7

LEMMA OnlyOneLeft ==
  ASSUME NEW S, NEW e \in S
  PROVE  RemoveAt(<<e>>, 1) = <<>>
<1>1. <<e>> \in Seq(S) /\ Len(<<e>>) = 1
  OBVIOUS
<1>2. SubSeq(<<e>>, 1, 0) = <<>> /\ SubSeq(<<e>>, 2, 1) = <<>>
  BY <1>1, SubSeqEmpty
<1>3. RemoveAt(<<e>>, 1) = <<>> \o <<>>
  BY <1>1, <1>2 DEF RemoveAt
<1> QED
  BY <1>3

LEMMA FreshIsPublished ==
  ASSUME NEW n, Sound(n), NEW t \in Trees, Fresh(n, t)
  PROVE  Install(n, t).staged = <<>> /\ Install(n, t).serving = t
<1> DEFINE swapped == [n EXCEPT !.installed = t]
<1>1. PICK s \in Nat : n.staged = <<[sequence |-> s, tree |-> t]>> /\ s > n.claimed
  BY DEF Fresh
<1>2. /\ swapped \in Native /\ swapped.staged = <<[sequence |-> s, tree |-> t]>>
      /\ swapped.claimed = n.claimed /\ ~(s <= n.claimed)
  BY <1>1 DEF Sound, Native
<1> HIDE DEF swapped
<1> DEFINE first == CHOOSE i \in DOMAIN swapped.staged :
                      /\ swapped.staged[i].tree = t
                      /\ \A j \in 1..(i - 1) : swapped.staged[j].tree # t
           taken == [swapped EXCEPT !.staged = RemoveAt(swapped.staged, first)]
           told == [taken EXCEPT !.claimed = s, !.serving = t,
                                 !.generation = taken.generation + 1]
<1>3. DOMAIN swapped.staged = {1} /\ swapped.staged[1].tree = t /\ swapped.staged[1].sequence = s
  BY <1>2
<1>4. first = 1
  BY <1>3
<1>5. RemoveAt(swapped.staged, first) = <<>>
  BY <1>2, <1>4, OnlyOneLeft
<1>6. Publish(swapped, t) =
        LET i == first
            out == [swapped EXCEPT !.staged = RemoveAt(swapped.staged, i)]
        IN IF swapped.staged[i].sequence <= swapped.claimed THEN out
           ELSE [out EXCEPT !.claimed = swapped.staged[i].sequence, !.serving = t,
                            !.generation = out.generation + 1]
  BY <1>3 DEF Publish, first
<1>7. Publish(swapped, t) = told
  <2> HIDE DEF first
  <2> QED
    BY <1>2, <1>3, <1>4, <1>6
<1>8. told.staged = <<>> /\ told.serving = t
  <2>1. taken.staged = <<>> /\ taken \in Native
    <3>1. <<>> \in Seq(Entry)
      BY EmptySeq
    <3> QED
      BY <1>2, <1>5, <3>1 DEF Native
  <2> HIDE DEF taken
  <2> QED
    BY <2>1 DEF Native
<1> HIDE DEF told
<1>9. Publish(told, t) = told
  BY <1>8 DEF Publish
<1>10. Install(n, t) = told
  BY <1>7, <1>9 DEF Install, Hooked, swapped
<1> QED
  BY <1>8, <1>10

LEMMA CallKeepsOrder ==
  ASSUME Undisturbed, IInv, OneByOne, NEW c \in Calls, Call(c)
  PROVE  OneByOne'
<1>1. \A d \in Calls : ~UnderWay(d)
  BY DEF Call, Undisturbed
<1>2. /\ phase[c] = "ready" /\ phase'[c] = "preparing" /\ UNCHANGED <<native, next>>
      /\ \A d \in Calls \ {c} : phase'[d] = phase[d] /\ answer'[d] = answer[d]
      /\ \A m \in Members : answer'[c][m] = "loading"
  BY DEF Call, Undisturbed, IInv, TypeOK
<1>3. Level /\ \A m \in Members : native[m].staged = <<>>
  BY <1>1 DEF OneByOne
<1>4. \A d \in Calls : UnderWay(d)' => d = c
  BY <1>1, <1>2 DEF UnderWay
<1>5. Stands(c)'
  BY <1>2, <1>3 DEF Stands, Level
<1>6. UnderWay(c)'
  BY <1>2 DEF UnderWay
<1> QED
  BY <1>2, <1>4, <1>5, <1>6 DEF OneByOne

LEMMA PrepareKeepsOrder ==
  ASSUME Undisturbed, IInv, OneByOne, NEW c \in Calls, NEW m \in Members, Prepare(c, m)
  PROVE  OneByOne'
<1> DEFINE moved == Validate(native[m], tree[c])
<1>1. answer[c][m] = "loading" /\ phase[c] = "preparing"
  BY DEF Prepare, OneByOne
<1>2. UnderWay(c) /\ Stands(c)
  BY <1>1 DEF UnderWay, OneByOne
<1>3. native[m].staged = <<>> /\ Level
  BY <1>1, <1>2 DEF Stands
<1>4. Fresh(moved, tree[c]) /\ moved.serving = native[m].serving
  <2>1. Sound(native[m]) /\ tree[c] \in Trees
    BY <1>1, MembersAreSound, CallsKnowTheirTree
  <2> QED
    BY <1>3, <2>1, FirstStaged
<1> HIDE DEF moved
<1>5. /\ \A o \in Members : native'[o] = IF o = m THEN moved ELSE native[o]
      /\ \A d \in Calls, o \in Members :
           answer'[d][o] = IF d = c /\ o = m THEN "prepared" ELSE answer[d][o]
      /\ UNCHANGED <<phase, tree>>
  BY DEF Prepare, moved, IInv, TypeOK
<1>6. Level'
  BY <1>3, <1>4, <1>5 DEF Level
<1>7. Stands(c)'
  <2>1. \A o \in Members :
          IF answer'[c][o] = "prepared" THEN Fresh(native'[o], tree[c])
          ELSE answer'[c][o] = "loading" /\ native'[o].staged = <<>>
    BY <1>1, <1>2, <1>4, <1>5 DEF Stands
  <2> QED
    BY <1>1, <1>5, <1>6, <2>1 DEF Stands
<1>8. \A d \in Calls : UnderWay(d)' <=> UnderWay(d)
  BY <1>5 DEF UnderWay
<1>9. \A d \in Calls : UnderWay(d) => d = c
  BY <1>2 DEF OneByOne
<1> QED
  BY <1>1, <1>2, <1>5, <1>7, <1>8, <1>9 DEF OneByOne

LEMMA CommitKeepsOrder ==
  ASSUME Undisturbed, IInv, OneByOne, NEW c \in Calls, CommitNext(c)
  PROVE  OneByOne'
<1> DEFINE m == Order[next[c]]
           moved == Install(native[m], tree[c])
<1>1. next[c] \in 1..Len(Order) /\ m \in Members /\ phase[c] = "committing"
  BY LeftIsInOrder DEF CommitNext
<1>2. UnderWay(c) /\ Stands(c)
  BY <1>1 DEF UnderWay, OneByOne
<1>3. moved.staged = <<>> /\ moved.serving = tree[c]
  <2>1. Sound(native[m]) /\ tree[c] \in Trees
    BY <1>1, MembersAreSound, CallsKnowTheirTree
  <2>2. Fresh(native[m], tree[c])
    <3>1. ~(next[c] < next[c])
      BY <1>1
    <3> QED
      BY <1>1, <1>2, <3>1 DEF Stands
  <2> QED
    BY <2>1, <2>2, FreshIsPublished
<1> HIDE DEF moved
<1>4. /\ \A o \in Members : native'[o] = IF o = m THEN moved ELSE native[o]
      /\ next'[c] = next[c] + 1 /\ UNCHANGED <<phase, tree, answer>>
  BY DEF CommitNext, moved, IInv, TypeOK
<1>5. ASSUME NEW i \in 1..Len(Order)
      PROVE  IF i < next'[c] THEN /\ native'[Order[i]].staged = <<>>
                                  /\ native'[Order[i]].serving = tree[c]
             ELSE Fresh(native'[Order[i]], tree[c])
  <2>1. Order[i] \in Members /\ Len(Order) \in Nat
    BY LeftIsInOrder
  <2>2. CASE i = next[c]
    <3>1. Order[i] = m /\ i < next'[c]
      BY <1>1, <1>4, <2>1, <2>2
    <3> QED
      BY <1>1, <1>3, <1>4, <3>1
  <2>3. CASE i # next[c]
    <3>1. Order[i] # m
      BY <1>1, <2>1, <2>3, LeftIsInOrder, GroupAssumption
    <3>2. i < next'[c] <=> i < next[c]
      BY <1>1, <1>4, <2>1, <2>3
    <3>3. native'[Order[i]] = native[Order[i]]
      BY <1>4, <2>1, <3>1
    <3> QED
      BY <1>1, <1>2, <3>2, <3>3 DEF Stands
  <2> QED
    BY <2>2, <2>3
<1>6. Stands(c)'
  BY <1>1, <1>4, <1>5 DEF Stands
<1>7. \A d \in Calls : UnderWay(d)' <=> UnderWay(d)
  BY <1>4 DEF UnderWay
<1>8. \A d \in Calls : UnderWay(d) => d = c
  BY <1>2 DEF OneByOne
<1> QED
  BY <1>2, <1>4, <1>6, <1>7, <1>8 DEF OneByOne

LEMMA ContinuationKeepsOrder ==
  ASSUME Undisturbed, IInv, OneByOne, NEW c \in Calls, StartCommits(c) \/ EndCommits(c)
  PROVE  OneByOne'
<1>1. /\ \A d \in Calls \ {c} : phase'[d] = phase[d]
      /\ UNCHANGED <<native, tree, answer, next>>
      /\ phase[c] \in {"preparing", "committing"}
  BY DEF StartCommits, EndCommits, IInv, TypeOK
<1>2. UnderWay(c) /\ Stands(c) /\ \A d \in Calls : UnderWay(d) => d = c
  BY <1>1 DEF UnderWay, OneByOne
<1>3. \A d \in Calls : UnderWay(d)' => d = c
  BY <1>1, <1>2 DEF UnderWay
<1>4. CASE StartCommits(c)
  <2>1. /\ phase[c] = "preparing" /\ phase'[c] = "committing"
        /\ \A m \in Members : answer[c][m] = "prepared"
    BY <1>4 DEF StartCommits, IInv, TypeOK
  <2>2. next[c] = 1
    BY <2>1 DEF IInv, TokensInv, HoldsTokens
  <2>3. \A i \in 1..Len(Order) : Fresh(native[Order[i]], tree[c]) /\ ~(i < 1)
    BY <1>2, <2>1, LeftIsInOrder DEF Stands
  <2>4. Stands(c)'
    BY <1>1, <2>1, <2>2, <2>3 DEF Stands
  <2>5. UnderWay(c)'
    BY <2>1 DEF UnderWay
  <2> QED
    BY <1>1, <1>3, <2>1, <2>4, <2>5 DEF OneByOne
<1>5. CASE EndCommits(c)
  <2>1. phase[c] = "committing" /\ phase'[c] = "resolved" /\ next[c] > Len(Order)
    BY <1>5 DEF EndCommits, IInv, TypeOK
  <2>2. \A i \in 1..Len(Order) : i < next[c]
    BY <2>1, LeftIsInOrder
  <2>3. \A m \in Members : native[m].staged = <<>> /\ native[m].serving = tree[c]
    <3> SUFFICES ASSUME NEW m \in Members
                 PROVE  native[m].staged = <<>> /\ native[m].serving = tree[c]
      OBVIOUS
    <3>1. PICK i \in 1..Len(Order) : Order[i] = m
      BY GroupAssumption, LenProperties
    <3> QED
      BY <1>2, <2>1, <2>2, <3>1 DEF Stands
  <2>4. \A d \in Calls : ~UnderWay(d)'
    BY <1>3, <2>1 DEF UnderWay
  <2>5. Level'
    BY <1>1, <2>3 DEF Level
  <2> QED
    BY <1>1, <1>2, <2>1, <2>3, <2>4, <2>5 DEF OneByOne
<1> QED
  BY <1>4, <1>5

LEMMA StepKeepsOrder ==
  ASSUME Undisturbed, IInv, OneByOne, [Next]_vars
  PROVE  OneByOne'
<1>1. ASSUME NEW c \in Calls, Call(c) \/ Proceed(c) PROVE OneByOne'
  <2>1. ~Reject(c) /\ ~Settle(c)
    <3>1. CASE Reject(c)
      <4>1. phase[c] = "preparing"
        BY <3>1 DEF Reject, OneByOne
      <4>2. \A m \in Members : answer[c][m] # "refused"
        BY <4>1 DEF OneByOne, UnderWay, Stands
      <4> QED
        BY <3>1, <4>2 DEF Reject
    <3> QED
      BY <3>1 DEF Settle, OneByOne
  <2>2. \A m \in Members : ~Reload(c, m) /\ ~Refuse(c, m)
    BY DEF Reload, Refuse, Undisturbed
  <2> QED
    BY <1>1, <2>1, <2>2, CallKeepsOrder, PrepareKeepsOrder, CommitKeepsOrder,
       ContinuationKeepsOrder DEF Proceed
<1>2. CASE UNCHANGED vars
  BY <1>2 DEF vars, OneByOne, UnderWay, Stands, Level
<1> QED
  BY <1>1, <1>2 DEF Next, Undisturbed

-----------------------------------------------------------------------------
(* The theorems. *)

(* Every variable of the group keeps its type, and no member claims a      *)
(* number it did not draw.                                                 *)
THEOREM GroupTypeCorrect == Spec => []TypeOK
<1>1. IInv => TypeOK
  BY DEF IInv
<1> QED
  BY <1>1, GroupInductive, PTL

(***************************************************************************)
(* However calls overlap, and whatever members refuse, a call of           *)
(* reloadAtomic() that has begun to commit finds its token in every member *)
(* that is left.                                                           *)
(***************************************************************************)
THEOREM TokensAreFound == Spec => []CommitsFindTheirTokens
<1>1. IInv => CommitsFindTheirTokens
  BY DEF IInv, TokensInv, HoldsTokens, CommitsFindTheirTokens
<1> QED
  BY <1>1, GroupInductive, PTL

(***************************************************************************)
(* A reloadAtomic() that rejects has shown nothing of itself in any        *)
(* member, whoever else reloads the members meanwhile.                     *)
(***************************************************************************)
THEOREM RefusalsLeaveEverything == Spec => RefusalLeavesEverything
<1>1. (\A c \in Calls : ShowsNothing(c)) =>
        \A c \in Atomic : phase[c] = "preparing" /\ phase'[c] = "rejected" =>
          \A m \in Members : Served(m) = before[c][m]
  BY GroupAssumption DEF ShowsNothing
<1> QED
  BY <1>1, GroupInductive, PTL DEF RefusalLeavesEverything

(***************************************************************************)
(* "The mixed state this exists to prevent" is prevented in a program that *)
(* awaits its calls of reloadAtomic(), whose members refuse none of them,  *)
(* and with no watcher on any of them.                                     *)
(***************************************************************************)
THEOREM AcceptedCallsNeverMix ==
  ASSUME Undisturbed
  PROVE  Spec => []NeverMixed
<1>1. Init => OneByOne
  BY DEF Init, OneByOne, UnderWay, Level
<1>2. IInv /\ OneByOne /\ [Next]_vars => OneByOne'
  BY StepKeepsOrder
<1>3. OneByOne => NeverMixed
  <2> SUFFICES ASSUME OneByOne, LoopIsFree PROVE Level
    BY DEF NeverMixed, Level
  <2>1. CASE \A c \in Calls : ~UnderWay(c)
    BY <2>1 DEF OneByOne
  <2>2. CASE \E c \in Calls : UnderWay(c)
    <3>1. PICK c \in Calls : UnderWay(c)
      BY <2>2
    <3>2. phase[c] = "preparing"
      BY <3>1 DEF OneByOne, LoopIsFree, UnderWay
    <3> QED
      BY <3>1, <3>2 DEF OneByOne, Stands
  <2> QED
    BY <2>1, <2>2
<1> QED
  BY <1>1, <1>2, <1>3, GroupInductive, PTL DEF Spec
=============================================================================
