-------------------------------- MODULE Stores --------------------------------
(***************************************************************************)
(* The eight stores of dynamic-config-node-remote (stores.rs, task.rs,     *)
(* tls.rs): what each takes and refuses, where its client is built, and    *)
(* the credential each request carries.  A fetch is called on the event    *)
(* loop and runs on a worker; a credential that rotates is a function that *)
(* the worker has the loop call (LoopCall models that call).               *)
(*                                                                         *)
(* The clients themselves are other crates: a request leaves with what the *)
(* code put on it, and is answered or not.                                 *)
(***************************************************************************)
EXTENDS Integers, FiniteSets

CONSTANTS
  Fetches,      \* the calls of fetch()
  WatchTask,    \* the call of watch()
  MaxRotations  \* bound: times the credential rotates

Tasks == Fetches \cup {WatchTask}

(***************************************************************************)
(* The options the classes tell apart.  Vault, Firestore and git call      *)
(* `key` and `keys` `path` and `paths`, Firestore its token `accessToken`; *)
(* "badFormat" is a format name that is none.                              *)
(***************************************************************************)
Shape == {"key", "keys", "prefix"}
Reference == {"branch", "tag", "commit"}
Login == {"username", "password"}
Files == {"clientCertificateFile", "clientKeyFile"}
Pems == {"clientCertificatePem", "clientKeyPem"}
Rotating == {"token", "tokenFn"}
Pairs == {Login, Files, Pems}

(* A class: what it takes, how its fetch leaves the loop (with a client    *)
(* built on the worker, in a runtime there, or on the loop), and whether   *)
(* it watches.                                                             *)
Consul == [takes |-> Shape \cup {"badFormat"} \cup Rotating \cup Files \cup Pems,
           task |-> "Deferred", watches |-> TRUE]
Vault == [takes |-> {"key", "keys", "badFormat"} \cup Rotating \cup Files \cup Pems,
          task |-> "Deferred", watches |-> FALSE]
Redis == [takes |-> Shape \cup {"badFormat"} \cup Files \cup Pems,
          task |-> "Deferred", watches |-> TRUE]
Etcd == [takes |-> Shape \cup {"badFormat"} \cup Login,
         task |-> "Asynchronous", watches |-> TRUE]
Nats == [takes |-> {"key", "keys", "badFormat"}, task |-> "Asynchronous", watches |-> TRUE]
S3 == [takes |-> Shape \cup {"badFormat"}, task |-> "Asynchronous", watches |-> FALSE]
Firestore == [takes |-> {"key", "keys"} \cup Rotating \cup Files \cup Pems,
              task |-> "Deferred", watches |-> FALSE]
Git == [takes |-> Shape \cup Reference \cup {"badFormat", "token"},
        task |-> "Blocking", watches |-> FALSE]

Classes == {Consul, Vault, Redis, Etcd, Nats, S3, Firestore, Git}

VARIABLES
  class, given,  \* the class and the options its constructor is called with
  store,         \* whether there is a store
  rotation,      \* how often the credential behind tokenFn rotated
  task           \* per task: where it is, the rotation when it was called,
                 \* what its request carries, and the rotation that was minted

vars == <<class, given, store, rotation, task>>

TypeOK ==
  /\ class \in Classes /\ given \subseteq class.takes
  /\ store \in {"none", "refused", "built"}
  /\ rotation \in 0..MaxRotations
  /\ task \in [Tasks -> [at : {"idle", "called", "minting", "sent", "answered", "failed"},
                         called : 0..MaxRotations, minted : 0..MaxRotations,
                         carries : SUBSET {Login, Files, Pems, {"token"}, {"tokenFn"}}]]
  /\ \A t \in Tasks : task[t].at # "idle" => store = "built"

Init ==
  /\ class \in Classes /\ given \in SUBSET class.takes
  /\ store = "none" /\ rotation = 0
  /\ task = [t \in Tasks |-> [at |-> "idle", called |-> 0, minted |-> 0, carries |-> {}]]

-----------------------------------------------------------------------------
(* Exactly one of `key`, `keys` and `prefix`. *)
OneShape == Cardinality(given \cap Shape) = 1

(* A mistake: half a pair is ignored. *)
AnyPairs == TRUE

(* "Half a client identity is refused rather than ignored", half a login too. *)
WholePairs == \A pair \in Pairs : pair \subseteq given \/ pair \cap given = {}

Construct ==
  /\ store = "none"
  /\ store' = IF /\ OneShape /\ WholePairs
                 /\ "badFormat" \notin given
                 /\ Cardinality(given \cap Reference) <= 1
              THEN "built" ELSE "refused"
  /\ UNCHANGED <<class, given, rotation, task>>

(* The world: a lease ends, the kubelet rewrites a file. *)
Rotate ==
  /\ rotation < MaxRotations /\ rotation' = rotation + 1
  /\ UNCHANGED <<class, given, store, task>>

Goto(t, where) == task' = [task EXCEPT ![t].at = where]

(* fetch() and watch(): on the loop, with copies of the options. *)
Begin(t) ==
  /\ store = "built" /\ task[t].at = "idle"
  /\ t = WatchTask => class.watches
  /\ task' = [task EXCEPT ![t].at = IF "tokenFn" \in given THEN "minting" ELSE "called",
                          ![t].called = rotation]
  /\ UNCHANGED <<class, given, store, rotation>>

(* A mistake: a credential minted for one task serves the others. *)
MintOnce(t) ==
  /\ task[t].at = "minting"
  /\ task' = [task EXCEPT ![t].at = "called",
       ![t].minted = IF \E o \in Tasks \ {t} : task[o].at \in {"sent", "answered"}
                     THEN task[CHOOSE o \in Tasks \ {t} :
                                 task[o].at \in {"sent", "answered"}].minted
                     ELSE rotation]
  /\ UNCHANGED <<class, given, store, rotation>>

(* Rotating.current(): the worker has the loop call the function ... *)
Mint(t) ==
  /\ task[t].at = "minting"
  /\ task' = [task EXCEPT ![t].at = "called", ![t].minted = rotation]
  /\ UNCHANGED <<class, given, store, rotation>>

(* ... which throws, does not answer in time, or is out of reach. *)
MintFails(t) ==
  /\ task[t].at = "minting"
  /\ Goto(t, "failed")
  /\ UNCHANGED <<class, given, store, rotation>>

(* No runtime for the future, a URL Redis cannot use, or a git repository   *)
(* that cannot be described: the last on the loop, where fetch() throws.   *)
Unbuilt(t) ==
  /\ class.task # "Deferred" \/ class = Redis
  /\ task[t].at = "called"
  /\ Goto(t, "failed")
  /\ UNCHANGED <<class, given, store, rotation>>

(* The function wins over the pasted token; pairs go whole or not at all.  *)
Credentials ==
  (IF "tokenFn" \in given THEN {{"tokenFn"}} ELSE IF "token" \in given THEN {{"token"}} ELSE {})
    \cup {pair \in Pairs : pair \subseteq given}

Send(t) ==
  /\ task[t].at = "called"
  /\ task' = [task EXCEPT ![t].at = "sent", ![t].carries = Credentials]
  /\ UNCHANGED <<class, given, store, rotation>>

(* The document or the store's refusal, back through the promise. *)
Answered(t) ==
  /\ task[t].at = "sent" /\ t # WatchTask
  /\ Goto(t, "answered")
  /\ UNCHANGED <<class, given, store, rotation>>

(* A watch asks again and again, with the client it was built with. *)
AskAgain ==
  /\ task[WatchTask].at = "sent"
  /\ task' = [task EXCEPT ![WatchTask].called = rotation]
  /\ UNCHANGED <<class, given, store, rotation>>

Next ==
  \/ Construct \/ Rotate \/ AskAgain
  \/ \E t \in Tasks : \/ Begin(t) \/ Mint(t) \/ MintFails(t)
                      \/ Unbuilt(t) \/ Send(t) \/ Answered(t)

Spec == Init /\ [][Next]_vars

-----------------------------------------------------------------------------
Sent(t) == task[t].at \in {"sent", "answered"}

(***************************************************************************)
(* No request goes out with less identity than its store was given a part  *)
(* of: "the connection would be anonymous", and the answer about the wrong *)
(* thing.                                                                  *)
(***************************************************************************)
NeverAnonymous ==
  \A t \in Tasks : Sent(t) =>
    /\ \A pair \in Pairs : pair \cap given # {} => pair \in task[t].carries
    /\ Rotating \cap given # {} => {"tokenFn"} \in task[t].carries \/ {"token"} \in task[t].carries

(***************************************************************************)
(* A fetch carries the credential that was current when it was called, or  *)
(* a later one, however long it waited for its worker and whatever other   *)
(* fetches minted: "a value read there is the current one".                *)
(***************************************************************************)
CarriesCurrent ==
  \A f \in Fetches : Sent(f) /\ "tokenFn" \in given =>
    {"tokenFn"} \in task[f].carries /\ task[f].minted >= task[f].called

(***************************************************************************)
(* The same of every request of a watch, whose credential was minted when  *)
(* it began.                                                               *)
(***************************************************************************)
WatchCarriesCurrent == Sent(WatchTask) /\ "tokenFn" \in given => task[WatchTask].minted >= task[WatchTask].called
=============================================================================
