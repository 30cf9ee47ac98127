------------------------------- MODULE Sources -------------------------------
(***************************************************************************)
(* When the sources of a configuration may be declared: `Engine` of        *)
(* config.rs, from Building to Ready.                                      *)
(*                                                                         *)
(* A source method changes the builder on the loop.  The first operation   *)
(* that needs the engine turns the builder into one, on whichever thread   *)
(* it runs, and registers the hook that publishes documents.  Both happen  *)
(* under one lock; a load that was begun and not awaited races with the    *)
(* sources declared after it.  The runtime layers (defaults, overrides,    *)
(* assignments, bindings, aliases) are shared with the engine and change   *)
(* in either phase, for the loads that complete afterwards.                *)
(***************************************************************************)
EXTENDS Integers, FiniteSets

CONSTANTS
  Sources,   \* what can be declared: a file, a prefix of the environment
  Misspelt,  \* the declarations of a cache whose mode is none
  Settings,  \* what can be set in a layer: a default, an override, an alias
  Calls      \* the operations the program begins

VARIABLES
  phase,      \* "building" until the engine exists
  builder,    \* the sources of the builder, then of the engine
  publishers, \* how often the publishing hook is on the engine
  layers,     \* what is set in the runtime layers
  call,       \* call[c]: an operation, where it is, and (history) what has
              \* been set in the layers since before it began
  serving,    \* the sources and settings the document in force came from
  owed,       \* history: the settings its load had to find
  accepted,   \* history: the declarations answered ok
  refused     \* history: the declarations answered with a refusal

vars == <<phase, builder, publishers, layers, call, serving, owed, accepted, refused>>

Loads == {"init", "reload"}
Queued == Loads \cup {"load", "prepare", "refresh"}
Kinds == Queued \cup {"watch", "diagnose"}
NoDoc == {"no document"}
Idle == [kind |-> "none", at |-> "ready", had |-> {}]

TypeOK ==
  /\ phase \in {"building", "ready"}
  /\ {builder, accepted, refused} \subseteq SUBSET Sources
  /\ publishers \in 0..1
  /\ {layers, owed} \subseteq SUBSET Settings
  /\ call \in [Calls -> [kind : Kinds, at : {"queued", "entered", "done", "failed"},
                         had : SUBSET Settings] \cup {Idle}]
  /\ serving \in {NoDoc} \cup SUBSET (Sources \cup Settings)

Init ==
  /\ phase = "building" /\ builder = {} /\ publishers = 0
  /\ layers = {} /\ call = [c \in Calls |-> Idle]
  /\ serving = NoDoc /\ owed = {} /\ accepted = {} /\ refused = {}

-----------------------------------------------------------------------------
(* A mistake: the builder inside the engine is changed as well. *)
DeclareAnyTime(s) ==
  /\ s \notin Misspelt
  /\ builder' = builder \cup {s} /\ accepted' = accepted \cup {s}
  /\ UNCHANGED <<phase, publishers, layers, call, serving, owed, refused>>

(* file(), env(), cache() and the others. *)
Declare(s) ==
  /\ phase = "building" /\ s \notin Misspelt
  /\ builder' = builder \cup {s} /\ accepted' = accepted \cup {s}
  /\ UNCHANGED <<phase, publishers, layers, call, serving, owed, refused>>

Refuse(s) ==
  /\ phase = "ready" \/ s \in Misspelt
  /\ refused' = refused \cup {s}
  /\ UNCHANGED <<phase, builder, publishers, layers, call, serving, owed, accepted>>

(* setDefault(), setOverride(), setAssignments(), bindEnv(), alias(). *)
SetLayer(s) ==
  /\ layers' = layers \cup {s}
  /\ UNCHANGED <<phase, builder, publishers, call, serving, owed, accepted, refused>>

(* clearDefaults(), clearOverrides(), clearAssignments(). *)
ClearLayer(s) ==
  /\ s \in layers
  /\ layers' = layers \ {s}
  /\ call' = [c \in Calls |-> [call[c] EXCEPT !.had = @ \ {s}]]
  /\ UNCHANGED <<phase, builder, publishers, serving, owed, accepted, refused>>

(* The call of an operation on the loop; its work is queued for a worker.   *)
(* prepare() is only made by a group's reloadAtomic(), for its members.     *)
Begin(c) ==
  /\ call[c] = Idle
  /\ \E k \in Queued :
       call' = [call EXCEPT ![c] = [kind |-> k, at |-> "queued", had |-> layers]]
  /\ UNCHANGED <<phase, builder, publishers, layers, serving, owed, accepted, refused>>

(* dynamic(): the engine, built on first use. *)
Dynamic ==
  /\ phase' = "ready"
  /\ publishers' = IF phase = "building" THEN publishers + 1 ELSE publishers

(* compute(): the first thing a worker does, whatever the operation. *)
Enter(c) ==
  /\ call[c].at = "queued"
  /\ Dynamic
  /\ call' = [call EXCEPT ![c].at = "entered"]
  /\ UNCHANGED <<builder, layers, serving, owed, accepted, refused>>

(* The operation itself, with the sources and layers the engine has.       *)
Complete(c) ==
  /\ call[c].at = "entered"
  /\ call' = [call EXCEPT ![c].at = "done"]
  /\ IF call[c].kind \in Loads
       THEN serving' = builder \cup layers /\ owed' = call[c].had
       ELSE UNCHANGED <<serving, owed>>
  /\ UNCHANGED <<phase, builder, publishers, layers, accepted, refused>>

(* It fails: nothing is installed, and the engine stays. *)
Fail(c) ==
  /\ call[c].at = "entered"
  /\ call' = [call EXCEPT ![c].at = "failed"]
  /\ UNCHANGED <<phase, builder, publishers, layers, serving, owed, accepted, refused>>

(* watch() runs on the loop, and may have nothing to watch. *)
Watch(c) ==
  /\ call[c] = Idle
  /\ Dynamic
  /\ \E at \in {"done", "failed"} :
       call' = [call EXCEPT ![c] = [kind |-> "watch", at |-> at, had |-> layers]]
  /\ UNCHANGED <<builder, layers, serving, owed, accepted, refused>>

(* check(), explain(), sourceOf() and isSet() borrow the builder where it  *)
(* is; status(), snapshot() and fingerprint() ask no engine that is not    *)
(* there.  None of them closes the declaring phase.                        *)
Diagnose(c) ==
  /\ call[c] = Idle
  /\ \E at \in {"done", "failed"} :
       call' = [call EXCEPT ![c] = [kind |-> "diagnose", at |-> at, had |-> layers]]
  /\ UNCHANGED <<phase, builder, publishers, layers, serving, owed, accepted, refused>>

(* replace() is not here: it publishes past the engine. *)
Next ==
  \/ \E s \in Sources : Declare(s) \/ Refuse(s)
  \/ \E s \in Settings : SetLayer(s) \/ ClearLayer(s)
  \/ \E c \in Calls : \/ Begin(c) \/ Enter(c) \/ Complete(c) \/ Fail(c)
                      \/ Watch(c) \/ Diagnose(c)

Spec == Init /\ [][Next]_vars

-----------------------------------------------------------------------------
(***************************************************************************)
(* What was accepted, even after a load was begun, is in every document    *)
(* loaded, and nothing that was refused; and so is what was set in a layer *)
(* before the load was begun and has not been cleared while it ran.        *)
(***************************************************************************)
ServedWithAllAccepted ==
  serving # NoDoc => serving \cap Sources = accepted /\ owed \subseteq serving

(***************************************************************************)
(* "This configuration has already loaded": what a refusal says.           *)
(***************************************************************************)
RefusedOnceLoaded == refused # {} => serving # NoDoc
=============================================================================
