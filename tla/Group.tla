-------------------------------- MODULE Group --------------------------------
(***************************************************************************)
(* `ConfigGroup` (index.js): reloadAtomic(), which prepares every member   *)
(* before it commits any, reload(), which lets every member have its turn, *)
(* and init(), which fails with the first member that does.  Calls         *)
(* overlap: an event loop runs others while one awaits its members, and a  *)
(* member's watcher reloads it whenever its files change.                  *)
(*                                                                         *)
(* A member is Install with one publication at a time: a step here is a    *)
(* validation, or an install with both of its attempts to publish.         *)
(***************************************************************************)
EXTENDS Integers, SequencesExt

CONSTANTS
  Members,     \* the configurations of the group
  Order,       \* the order they were given to the constructor in
  Calls,       \* the calls a program makes on the group
  Atomic,      \* those that are reloadAtomic(); the others reload() or init()
  Trees,       \* what a deployment may put in the files of every member
  Refusals,    \* TRUE if a member may refuse
  Awaited,     \* TRUE if the program awaits each call before it makes the next
  Watched,     \* the members with a watcher
  MaxWatches,  \* bound: reloads by watchers
  NoTree

ASSUME GroupAssumption ==
  /\ Order \in Seq(Members)
  /\ \A m \in Members : \E i \in DOMAIN Order : Order[i] = m
  /\ \A i, j \in DOMAIN Order : Order[i] = Order[j] => i = j
  /\ Atomic \subseteq Calls /\ Watched \subseteq Members
  /\ MaxWatches \in Nat /\ {Refusals, Awaited} \subseteq BOOLEAN /\ NoTree \notin Trees

VARIABLES
  native,   \* native[m]: the compiled half of member m
  tokens,   \* tokens[m]: the calls with a prepared commit in m
  phase,    \* phase[c]: how far call c is
  tree,     \* tree[c]: what the files held when call c was made
  answer,   \* answer[c][m]: what m answered call c
  next,     \* next[c]: the member call c commits next, in Order
  watches,  \* reloads by watchers so far
  before    \* history: what the members served when call c was made, but for
            \* what others than c did since

vars == <<native, tokens, phase, tree, answer, next, watches, before>>

Entry == [sequence : Nat, tree : Trees]

TypeOK ==
  /\ native \in [Members -> [staged : Seq(Entry), drawn : Nat, claimed : Nat,
                             generation : Nat, serving : Trees \cup {NoTree},
                             installed : Trees \cup {NoTree}]]
  /\ \A m \in Members : native[m].claimed <= native[m].drawn
  /\ tokens \in [Members -> SUBSET Calls]
  /\ phase \in [Calls -> {"ready", "preparing", "reloading", "initialising", "committing",
                        "resolved", "rejected"}]
  /\ tree \in [Calls -> Trees \cup {NoTree}]
  /\ answer \in [Calls -> [Members -> {"none", "loading", "prepared", "reloaded", "refused"}]]
  /\ next \in [Calls -> 1..(Len(Order) + 1)]
  /\ watches \in 0..MaxWatches
  /\ before \in [Calls -> [Members -> (Trees \cup {NoTree}) \X (Trees \cup {NoTree}) \X Nat]]

(* What a program can tell about a member: the document, the engine's, and *)
(* the generation.                                                         *)
Shown(n) == <<n.serving, n.installed, n.generation>>
Served(m) == Shown(native[m])

Init ==
  /\ native = [m \in Members |->
                 [staged |-> <<>>, drawn |-> 0, claimed |-> 0, generation |-> 0,
                  serving |-> NoTree, installed |-> NoTree]]
  /\ tokens = [m \in Members |-> {}]
  /\ phase = [c \in Calls |-> "ready"]
  /\ tree = [c \in Calls |-> NoTree]
  /\ answer = [c \in Calls |-> [m \in Members |-> "none"]]
  /\ next = [c \in Calls |-> 1]
  /\ watches = 0
  /\ before = [c \in Calls |-> [m \in Members |-> Served(m)]]

-----------------------------------------------------------------------------
(* The native half of one member, as functions of its state.               *)

MaxStaged == 4

Validate(n, t) ==
  LET pushed == Append(n.staged, [sequence |-> n.drawn + 1, tree |-> t])
  IN [n EXCEPT !.drawn = @ + 1,
               !.staged = IF Len(pushed) > MaxStaged THEN Tail(pushed) ELSE pushed]

(* A mistake: the claim is one too far. *)
PublishAhead(n, t) ==
  IF \A i \in DOMAIN n.staged : n.staged[i].tree # t
    THEN n
    ELSE LET i == CHOOSE i \in DOMAIN n.staged : n.staged[i].tree = t
         IN [n EXCEPT !.claimed = n.staged[i].sequence + 1, !.serving = t]

(* Inner::commit: take the first match, claim its number, publish. *)
Publish(n, t) ==
  IF \A i \in DOMAIN n.staged : n.staged[i].tree # t
    THEN n
    ELSE LET i == CHOOSE i \in DOMAIN n.staged :
                    /\ n.staged[i].tree = t
                    /\ \A j \in 1..(i - 1) : n.staged[j].tree # t
             taken == [n EXCEPT !.staged = RemoveAt(@, i)]
             number == n.staged[i].sequence
         IN IF number <= n.claimed
              THEN taken
              ELSE [taken EXCEPT !.claimed = number, !.serving = t,
                                 !.generation = @ + 1]

(* The engine installs and its hook publishes; then the explicit attempt. *)
Hooked(n, t) == Publish([n EXCEPT !.installed = t], t)
Install(n, t) == Publish(Hooked(n, t), t)

-----------------------------------------------------------------------------
(* The commits of a call run without an await between them: until they     *)
(* are through, the event loop runs nothing else.                          *)
LoopIsFree == \A c \in Calls : phase[c] # "committing"

(* What m serves now is not the doing of a call among `others`. *)
Noted(m, others) ==
  before' = [c \in Calls |->
    IF c \in others THEN [before[c] EXCEPT ![m] = Shown(native'[m])] ELSE before[c]]

UnderWay(c) == phase[c] \in {"preparing", "reloading", "initialising", "committing"}

Call(c) ==
  /\ LoopIsFree /\ phase[c] = "ready"
  /\ Awaited => \A d \in Calls : ~UnderWay(d)
  /\ \E began \in IF c \in Atomic THEN {"preparing"} ELSE {"reloading", "initialising"} :
       phase' = [phase EXCEPT ![c] = began]
  /\ \E t \in Trees : tree' = [tree EXCEPT ![c] = t]
  /\ answer' = [answer EXCEPT ![c] = [m \in Members |-> "loading"]]
  /\ before' = [before EXCEPT ![c] = [m \in Members |-> Served(m)]]
  /\ UNCHANGED <<native, tokens, next, watches>>

(* A mistake: the first half installs already. *)
PrepareAndInstall(c, m) ==
  /\ c \in Atomic /\ answer[c][m] = "loading"
  /\ native' = [native EXCEPT ![m] = Install(Validate(@, tree[c]), tree[c])]
  /\ tokens' = [tokens EXCEPT ![m] = @ \cup {c}]
  /\ answer' = [answer EXCEPT ![c][m] = "prepared"]
  /\ UNCHANGED <<phase, tree, next, watches, before>>

(* native.prepare() on a worker: also after Promise.all gave up on it. *)
Prepare(c, m) ==
  /\ c \in Atomic /\ answer[c][m] = "loading"
  /\ native' = [native EXCEPT ![m] = Validate(@, tree[c])]
  /\ tokens' = [tokens EXCEPT ![m] = @ \cup {c}]
  /\ answer' = [answer EXCEPT ![c][m] = "prepared"]
  /\ UNCHANGED <<phase, tree, next, watches, before>>

(* config.reload() or config.init() of one member, also after Promise.all   *)
(* gave up on it.                                                          *)
Reload(c, m) ==
  /\ c \notin Atomic /\ answer[c][m] = "loading"
  /\ native' = [native EXCEPT ![m] = Install(Validate(@, tree[c]), tree[c])]
  /\ answer' = [answer EXCEPT ![c][m] = "reloaded"]
  /\ Noted(m, Calls \ {c})
  /\ UNCHANGED <<tokens, phase, tree, next, watches>>

Refuse(c, m) ==
  /\ Refusals /\ answer[c][m] = "loading"
  /\ answer' = [answer EXCEPT ![c][m] = "refused"]
  /\ UNCHANGED <<native, tokens, phase, tree, next, watches, before>>

(***************************************************************************)
(* Promise.all rejects with the first refusal.  The tokens of the other    *)
(* members were to be pushed once all had answered: `prepared` is empty,   *)
(* and the loop that discards has nothing to discard.                      *)
(***************************************************************************)
Reject(c) ==
  /\ LoopIsFree /\ phase[c] \in {"preparing", "initialising"}
  /\ \E m \in Members : answer[c][m] = "refused"
  /\ phase' = [phase EXCEPT ![c] = "rejected"]
  /\ UNCHANGED <<native, tokens, tree, answer, next, watches, before>>

(* A mistake: no way out once a member refused. *)
SettleWhenReloaded(c) ==
  /\ LoopIsFree /\ phase[c] \in {"reloading", "initialising"}
  /\ \A m \in Members : answer[c][m] = "reloaded"
  /\ phase' = [phase EXCEPT ![c] = "resolved"]
  /\ UNCHANGED <<native, tokens, tree, answer, next, watches, before>>

(* Promise.allSettled: nobody is left out, and then the first failure; of  *)
(* an init(), Promise.all, and there is none.                              *)
Settle(c) ==
  /\ LoopIsFree /\ phase[c] \in {"reloading", "initialising"}
  /\ \A m \in Members : answer[c][m] \in {"reloaded", "refused"}
  /\ phase' = [phase EXCEPT ![c] =
       IF \E m \in Members : answer[c][m] = "refused" THEN "rejected" ELSE "resolved"]
  /\ UNCHANGED <<native, tokens, tree, answer, next, watches, before>>

(* A mistake: every member answered, prepared or not. *)
StartCommitsWhenAnswered(c) ==
  /\ LoopIsFree /\ phase[c] = "preparing"
  /\ \A m \in Members : answer[c][m] # "loading"
  /\ phase' = [phase EXCEPT ![c] = "committing"]
  /\ UNCHANGED <<native, tokens, tree, answer, next, watches, before>>

StartCommits(c) ==
  /\ LoopIsFree /\ phase[c] = "preparing"
  /\ \A m \in Members : answer[c][m] = "prepared"
  /\ phase' = [phase EXCEPT ![c] = "committing"]
  /\ UNCHANGED <<native, tokens, tree, answer, next, watches, before>>

(* native.commit(token), member by member. *)
CommitNext(c) ==
  /\ phase[c] = "committing" /\ next[c] <= Len(Order)
  /\ LET m == Order[next[c]] IN
       /\ c \in tokens[m]
       /\ tokens' = [tokens EXCEPT ![m] = @ \ {c}]
       /\ native' = [native EXCEPT ![m] = Install(@, tree[c])]
       /\ Noted(m, Calls \ {c})
  /\ next' = [next EXCEPT ![c] = @ + 1]
  /\ UNCHANGED <<phase, tree, answer, watches>>

EndCommits(c) ==
  /\ phase[c] = "committing" /\ next[c] > Len(Order)
  /\ phase' = [phase EXCEPT ![c] = "resolved"]
  /\ UNCHANGED <<native, tokens, tree, answer, next, watches, before>>

(* A reload on the watcher's thread, at any time; it has one attempt. *)
Watch(m) ==
  /\ m \in Watched /\ watches < MaxWatches
  /\ watches' = watches + 1
  /\ \E t \in Trees : native' = [native EXCEPT ![m] = Hooked(Validate(@, t), t)]
  /\ Noted(m, Calls)
  /\ UNCHANGED <<tokens, phase, tree, answer, next>>

(* The steps of a call once it was made, and of its loads. *)
Proceed(c) ==
  \/ Reject(c) \/ Settle(c)
  \/ StartCommits(c) \/ CommitNext(c) \/ EndCommits(c)
  \/ \E m \in Members : Prepare(c, m) \/ Reload(c, m) \/ Refuse(c, m)

Next ==
  \/ \E c \in Calls : Call(c) \/ Proceed(c)
  \/ \E m \in Watched : Watch(m)

Spec == Init /\ [][Next]_vars

(* The pool runs every load to its end, and the loop its continuations. *)
FairSpec == Spec /\ \A c \in Calls : WF_vars(Proceed(c))

-----------------------------------------------------------------------------
(***************************************************************************)
(* "A refusal leaves every document exactly as it was, generation          *)
(* included": when reloadAtomic() rejects, after some members prepared and *)
(* others did not, no member shows anything but what watchers and other    *)
(* calls did to it meanwhile.                                              *)
(***************************************************************************)
RefusalLeavesEverything ==
  [][\A c \in Atomic : phase[c] = "preparing" /\ phase'[c] = "rejected" =>
       \A m \in Members : Served(m) = before[c][m]]_vars

(***************************************************************************)
(* The mixed state reloadAtomic() exists to prevent: whenever the event    *)
(* loop can run anything else, all members serve the same deployment.      *)
(***************************************************************************)
NeverMixed ==
  LoopIsFree => \A m, o \in Members : native[m].serving = native[o].serving

(***************************************************************************)
(* A call that commits finds a token in every member, whoever else calls,  *)
(* reloads or is refused meanwhile: the path on which a commit fails half  *)
(* way through the group is never taken.                                   *)
(***************************************************************************)
CommitsFindTheirTokens ==
  \A c \in Calls : phase[c] = "committing" =>
    \A i \in next[c]..Len(Order) : c \in tokens[Order[i]]

(***************************************************************************)
(* Once a refused call has heard from every member, no member keeps a      *)
(* commit of it.                                                           *)
(***************************************************************************)
TokensReleased ==
  \A c \in Atomic :
    phase[c] = "rejected" /\ (\A m \in Members : answer[c][m] # "loading")
      => \A m \in Members : c \notin tokens[m]

(***************************************************************************)
(* The calls come back, whatever their members answer, in whatever order,  *)
(* and whoever prepares or reloads the same members meanwhile.             *)
(***************************************************************************)
EveryCallEnds == <>[](\A c \in Calls : phase[c] \in {"ready", "resolved", "rejected"})
=============================================================================
