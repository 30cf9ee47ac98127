------------------------------ MODULE AsyncHook ------------------------------
(***************************************************************************)
(* `onReloadAsync` (index.js): a hook that returns a promise, and what     *)
(* becomes of the installs that outrun it under each of the three          *)
(* backpressure policies.                                                  *)
(***************************************************************************)
EXTENDS Integers, Sequences

CONSTANT
  MaxInstalls   \* bound: documents installed

VARIABLES
  policy,      \* the policy the hook was registered with
  installs,    \* documents installed; a document is its number
  running,     \* the flag `running`
  queued,      \* the list `queued`
  controller,  \* the document whose call the controller in force belongs to
  active,      \* the documents whose call of the hook has not settled
  aborted,     \* the documents whose signal has been aborted
  started,     \* history: the documents the hook was called with, in order
  threw        \* history: whether onError has thrown

vars == <<policy, installs, running, queued, controller, active, aborted, started, threw>>

Policies == {"latest", "serial", "every"}
Documents == 1..MaxInstalls
None == 0

TypeOK ==
  /\ policy \in Policies
  /\ installs \in 0..MaxInstalls
  /\ {running, threw} \subseteq BOOLEAN /\ queued \in Seq(Documents)
  /\ controller \in Documents \cup {None}
  /\ active \subseteq Documents /\ aborted \subseteq Documents
  /\ started \in Seq(Documents) /\ Len(started) + Len(queued) <= installs

Init ==
  /\ policy \in Policies
  /\ installs = 0 /\ running = FALSE /\ queued = <<>> /\ controller = None
  /\ active = {} /\ aborted = {} /\ started = <<>> /\ threw = FALSE

(* A mistake: the flag is not raised. *)
StartUnmarked(d, settled) ==
  /\ controller' = d
  /\ active' = (active \ settled) \cup {d}
  /\ started' = Append(started, d)
  /\ UNCHANGED running

(* start(document), up to the await of the hook. *)
Start(d, settled) ==
  /\ running' = TRUE
  /\ controller' = d
  /\ active' = (active \ settled) \cup {d}
  /\ started' = Append(started, d)

(* A mistake: one document waits at most, whatever the policy. *)
InstallOneWaits ==
  /\ installs < MaxInstalls
  /\ installs' = installs + 1
  /\ IF policy = "every" \/ ~running
       THEN Start(installs + 1, {}) /\ UNCHANGED <<queued, aborted>>
       ELSE /\ queued' = <<installs + 1>>
            /\ aborted' = IF policy = "latest" THEN aborted \cup {controller}
                          ELSE aborted
            /\ UNCHANGED <<running, controller, active, started>>
  /\ UNCHANGED <<policy, threw>>

(* The next document reaches the hook of onReload. *)
Install ==
  /\ installs < MaxInstalls
  /\ installs' = installs + 1
  /\ IF policy = "every" \/ ~running
       THEN Start(installs + 1, {}) /\ UNCHANGED <<queued, aborted>>
       ELSE /\ queued' = IF policy = "latest" THEN <<installs + 1>>
                         ELSE Append(queued, installs + 1)
            /\ aborted' = IF policy = "latest" THEN aborted \cup {controller}
                          ELSE aborted
            /\ UNCHANGED <<running, controller, active, started>>
  /\ UNCHANGED <<policy, threw>>

(* A mistake: nobody looks at the queue. *)
SettleAlone(d) ==
  /\ d \in active
  /\ running' = FALSE /\ active' = active \ {d}
  /\ UNCHANGED <<policy, installs, aborted, queued, controller, started, threw>>

(* A call of the hook resolves, or rejects and is reported; the one that    *)
(* waits is started.                                                       *)
Settle(d) ==
  /\ d \in active
  /\ IF queued = <<>>
       THEN /\ running' = FALSE /\ active' = active \ {d}
            /\ UNCHANGED <<queued, controller, started>>
       ELSE Start(Head(queued), {d}) /\ queued' = Tail(queued)
  /\ UNCHANGED <<policy, installs, aborted, threw>>

(* It rejects, and onError throws: the rest of start() is not reached.     *)
ReportThrows(d) ==
  /\ d \in active
  /\ active' = active \ {d} /\ threw' = TRUE
  /\ UNCHANGED <<policy, installs, running, queued, controller, aborted, started>>

Next == Install \/ \E d \in Documents : Settle(d) \/ ReportThrows(d)

Spec == Init /\ [][Next]_vars

(* The program's hook settles; nothing obliges anybody to install.         *)
FairSpec == Spec /\ \A d \in Documents : WF_vars(Settle(d) \/ ReportThrows(d))

-----------------------------------------------------------------------------
(***************************************************************************)
(* latest and serial never run two calls of the hook at once, across any   *)
(* interleaving of installs with calls that settle.                        *)
(***************************************************************************)
NeverInterleaved == policy # "every" => \A d, e \in active : d = e

(***************************************************************************)
(* What is dropped: under serial and every the hook is called with every   *)
(* document, in order, and what it was not called with waits; under latest *)
(* the one document that waits is the newest, and the call under way has   *)
(* been told to stop exactly when there is one: its signal is neither late *)
(* nor left over for its heir.                                             *)
(***************************************************************************)
OnlyOvertakenAreDropped ==
  IF policy = "latest"
    THEN /\ queued # <<>> => queued = <<installs>>
         /\ \A d \in active : d \in aborted <=> queued # <<>>
    ELSE started \o queued = [i \in 1..installs |-> i]

(***************************************************************************)
(* The hook comes to be called with the newest document, whichever policy  *)
(* dropped the ones before it and however its calls end, unless a newer    *)
(* one is installed or, short of every, the program's own onError threw.   *)
(***************************************************************************)
Called(d) == \E i \in DOMAIN started : started[i] = d

NewestIsStarted ==
  \A d \in Documents :
    installs = d ~> (installs > d \/ Called(d) \/ (threw /\ policy # "every"))

(***************************************************************************)
(* "latest", the default, "keeps the newest and drops what it overtook",   *)
(* and a rejection is reported, "because a configuration hook is not the   *)
(* place to end a process".                                                *)
(***************************************************************************)
NewestIsKept == \A d \in Documents : installs = d ~> (installs > d \/ Called(d))
=============================================================================
