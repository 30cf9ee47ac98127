------------------------------- MODULE Remote -------------------------------
(***************************************************************************)
(* Stores written in JavaScript: setRemoteAsync() and its courier,         *)
(* setRemote(), refreshRemote() and clearRemote() of index.js, `Shim` of   *)
(* remote.rs, and useStore() of the remote package.                        *)
(*                                                                         *)
(* A refresh is awaited on the loop, enters the engine on a worker, comes  *)
(* back to the loop for its document and leaves it in the remote layer;    *)
(* between any two of these the program may install another store, clear   *)
(* the one there is, or refresh again.                                     *)
(***************************************************************************)
EXTENDS Integers, Sequences, FiniteSets

CONSTANTS
  Calls,      \* the refreshes a program makes
  MaxStores   \* bound: stores ever installed

VARIABLES
  stores,    \* the stores installed so far: "async", or "use" for useStore()
  awaited,   \* #awaited: the async store in force, or None
  source,    \* JsSource: the store whose function the engine calls, or None
  slot,      \* slot[s]: `handed` of an async store, `latest` of the other kind
  layer,     \* the document in the engine's remote layer
  call,      \* call[c]: a refresh: where it is, its store, its document
  fills      \* history: the documents written into the layer, in order

vars == <<stores, awaited, source, slot, layer, call, fills>>

None == 0
Stores == 1..MaxStores
NoDoc == [store |-> None, fetch |-> "none"]

(* A document is named by its store and by the refresh that fetched it; a  *)
(* useStore() has fetched one before it installs its store.                *)
Docs == [store : Stores, fetch : Calls \cup {"first"}]

Where == {"ready", "store", "fetch", "enter", "asked", "answered", "done",
          "rejected", "failed"}

TypeOK ==
  /\ stores \in Seq({"async", "use"}) /\ Len(stores) <= MaxStores
  /\ awaited \in Stores \cup {None} /\ source \in Stores \cup {None}
  /\ slot \in [Stores -> Docs \cup {NoDoc}]
  /\ layer \in Docs \cup {NoDoc}
  /\ call \in [Calls -> [at : Where, store : Stores \cup {None}, through : Stores \cup {None},
                         doc : Docs \cup {NoDoc}]]
  /\ fills \in Seq(Docs)

Init ==
  /\ stores = <<>> /\ awaited = None /\ source = None
  /\ slot = [s \in Stores |-> NoDoc] /\ layer = NoDoc
  /\ call = [c \in Calls |-> [at |-> "ready", store |-> None, through |-> None, doc |-> NoDoc]]
  /\ fills = <<>>

-----------------------------------------------------------------------------
(* Installing and clearing: synchronous, on the loop. *)

NewStore == Len(stores) + 1

SetRemoteAsync ==
  /\ Len(stores) < MaxStores
  /\ stores' = Append(stores, "async")
  /\ awaited' = NewStore /\ source' = NewStore
  /\ UNCHANGED <<slot, layer, call, fills>>

(* useStore(), once its first fetch has come: setRemote(() => latest). *)
UseStore ==
  /\ Len(stores) < MaxStores
  /\ stores' = Append(stores, "use")
  /\ awaited' = None /\ source' = NewStore
  /\ slot' = [slot EXCEPT ![NewStore] = [store |-> NewStore, fetch |-> "first"]]
  /\ UNCHANGED <<layer, call, fills>>

(* The layer is emptied; JsSource keeps its function, and an engine that    *)
(* still calls it gets what it answers.                                     *)
ClearRemote ==
  /\ stores # <<>> /\ (awaited # None \/ layer # NoDoc)
  /\ awaited' = None /\ layer' = NoDoc
  /\ UNCHANGED <<stores, source, slot, call, fills>>

-----------------------------------------------------------------------------
(* Refreshing. *)

Goto(c, where) == call' = [call EXCEPT ![c].at = where]
Begins(c) == call[c].at = "ready"

(* refreshRemote(): the store whose `handed` will be written is chosen     *)
(* before the await, when the reference on the left is evaluated.          *)
Awaiting(c) ==
  IF awaited # None THEN [call EXCEPT ![c].at = "fetch", ![c].store = awaited]
                    ELSE [call EXCEPT ![c].at = "enter"]

Refresh(c) ==
  /\ Begins(c) /\ stores # <<>>
  /\ call' = Awaiting(c)
  /\ UNCHANGED <<stores, awaited, source, slot, layer, fills>>

(* handle.refresh() of a useStore(), whatever store is in force by now. *)
HandleRefresh(c, s) ==
  /\ Begins(c) /\ s \in DOMAIN stores /\ stores[s] = "use"
  /\ call' = [call EXCEPT ![c].at = "store", ![c].store = s]
  /\ UNCHANGED <<stores, awaited, source, slot, layer, fills>>

StoreFetched(c) ==
  /\ call[c].at = "store"
  /\ slot' = [slot EXCEPT ![call[c].store] = [store |-> call[c].store, fetch |-> c]]
  /\ call' = Awaiting(c)
  /\ UNCHANGED <<stores, awaited, source, layer, fills>>

(* A mistake: the store is looked up when the fetch has come back. *)
FetchedForAnother(c) ==
  /\ call[c].at = "fetch"
  /\ slot' = [slot EXCEPT ![awaited] = [store |-> call[c].store, fetch |-> c]]
  /\ Goto(c, "enter")
  /\ UNCHANGED <<stores, awaited, source, layer, fills>>

Fetched(c) ==
  /\ call[c].at = "fetch"
  /\ slot' = [slot EXCEPT ![call[c].store] = [store |-> call[c].store, fetch |-> c]]
  /\ Goto(c, "enter")
  /\ UNCHANGED <<stores, awaited, source, layer, fills>>

(* The caller's own error: nothing has entered the engine. *)
FetchRejects(c) ==
  /\ call[c].at \in {"store", "fetch"}
  /\ Goto(c, "rejected")
  /\ UNCHANGED <<stores, awaited, source, slot, layer, fills>>

(* Shim::fetch on a worker: the function is taken out from under its lock. *)
Enter(c) ==
  /\ call[c].at = "enter"
  /\ call' = [call EXCEPT ![c].at = "asked", ![c].through = source]
  /\ UNCHANGED <<stores, awaited, source, slot, layer, fills>>

(* The function runs on the loop: a courier hands over what waits in the   *)
(* async store in force now, once; the other kind answers its latest.      *)
Handed(c) == IF stores[call[c].through] = "use" THEN slot[call[c].through]
             ELSE IF awaited = None THEN NoDoc ELSE slot[awaited]

(* Two mistakes: an empty hand is an answer, ... *)
AnswerAnything(c) ==
  /\ call[c].at = "asked"
  /\ call' = [call EXCEPT ![c].at = "answered", ![c].doc = Handed(c)]
  /\ slot' = IF stores[call[c].through] = "use" \/ awaited = None THEN slot
             ELSE [slot EXCEPT ![awaited] = NoDoc]
  /\ UNCHANGED <<stores, awaited, source, layer, fills>>

(* ... and what was handed over stays to be handed over again. *)
AnswerAndKeep(c) ==
  /\ call[c].at = "asked" /\ Handed(c) # NoDoc
  /\ call' = [call EXCEPT ![c].at = "answered", ![c].doc = Handed(c)]
  /\ UNCHANGED <<stores, awaited, source, slot, layer, fills>>

Answer(c) ==
  /\ call[c].at = "asked" /\ Handed(c) # NoDoc
  /\ call' = [call EXCEPT ![c].at = "answered", ![c].doc = Handed(c)]
  /\ slot' = IF stores[call[c].through] = "use" THEN slot
             ELSE [slot EXCEPT ![awaited] = NoDoc]
  /\ UNCHANGED <<stores, awaited, source, layer, fills>>

(* "there is none waiting here" *)
NothingWaits(c) ==
  /\ call[c].at = "asked" /\ Handed(c) = NoDoc
  /\ Goto(c, "failed")
  /\ UNCHANGED <<stores, awaited, source, slot, layer, fills>>

(* Its answer came after the 30 seconds, or was not a document: the worker  *)
(* has given up, and what the courier handed over is gone.                 *)
Dropped(c) ==
  /\ call[c].at = "answered"
  /\ Goto(c, "rejected")
  /\ UNCHANGED <<stores, awaited, source, slot, layer, fills>>

Fill(c) ==
  /\ call[c].at = "answered"
  /\ layer' = call[c].doc /\ fills' = Append(fills, call[c].doc)
  /\ Goto(c, "done")
  /\ UNCHANGED <<stores, awaited, source, slot>>

Proceed(c) ==
  \/ StoreFetched(c) \/ Fetched(c) \/ FetchRejects(c)
  \/ Enter(c) \/ Answer(c) \/ NothingWaits(c) \/ Dropped(c) \/ Fill(c)

Next ==
  \/ SetRemoteAsync \/ UseStore \/ ClearRemote
  \/ \E c \in Calls : \/ Refresh(c) \/ Proceed(c)
                      \/ \E s \in Stores : HandleRefresh(c, s)

Spec == Init /\ [][Next]_vars

-----------------------------------------------------------------------------
(***************************************************************************)
(* An async document is handed to the engine at most once, however many    *)
(* refreshes ask for one.                                                  *)
(***************************************************************************)
HandedOnce ==
  \A i, j \in DOMAIN fills :
    i # j /\ stores[fills[i].store] = "async" => fills[i] # fills[j]

(***************************************************************************)
(* A refresh that was awaiting one store when the program installed        *)
(* another never passes the old store's document off as the new one's:     *)
(* what waits in a store came from it, and what a courier hands over is    *)
(* the store's in force.                                                   *)
(***************************************************************************)
NoStoreAnswersForAnother ==
  [][\A c \in Calls : call[c].at = "asked" /\ call'[c].at = "answered" =>
       call'[c].doc.store \in {awaited, call[c].through}]_vars

(***************************************************************************)
(* refreshRemote() hands the engine "the document it already has": with    *)
(* one store installed for good, a refresh whose fetch resolved does not   *)
(* fail.                                                                   *)
(***************************************************************************)
FetchedIsHandedOver ==
  \A c \in Calls : call[c].at = "failed" => Len(stores) > 1 \/ awaited = None
=============================================================================
