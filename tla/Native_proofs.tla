---------------------------- MODULE Native_proofs ----------------------------
(***************************************************************************)
(* The safety properties of the five parts of MCNative, for all values of  *)
(* their constants.  A part has an invariant of its own, which its steps   *)
(* keep and every other step leaves alone.                                 *)
(***************************************************************************)
EXTENDS MCNative, TLAPS

(***************************************************************************)
(* A step of the whole is a step of each part, or leaves it as it is.      *)
(***************************************************************************)
LEMMA PartSteps ==
  ASSUME [Next]_vars
  PROVE  /\ [L!Next]_loopVars
         /\ [W!Next]_watchVars
         /\ [D!Next]_sourcesVars
         /\ [B!Next]_logVars
         /\ [S!Next]_storesVars
<1>1. CASE UNCHANGED vars
  BY <1>1 DEF vars
<1>2. CASE Next
  <2>1. \/ InLoop /\ L!Next
        \/ InWatch /\ W!Next
        \/ InSources /\ D!Next
        \/ InLog /\ B!Next
        \/ InStores /\ S!Next
    BY <1>2 DEF Next, L!Next, W!Next, D!Next, B!Next, S!Next
  <2> QED BY <2>1 DEF InLoop, InWatch, InSources, InLog, InStores
<1> QED BY <1>1, <1>2

-----------------------------------------------------------------------------
(* LoopCall. *)

(* What waits in a channel is its own call's answer. *)
ChannelsAreOwn ==
  \A n \in L!Calls : channel[n] \in L!Outcomes => channel[n].of = n

LoopInv == L!TypeOK /\ ChannelsAreOwn /\ L!AnswersAreOwn

(***************************************************************************)
(* At first nothing has been asked, sent or got.                           *)
(***************************************************************************)
LEMMA InitLoop ==
  ASSUME MaxCalls \in Nat, L!Init
  PROVE  LoopInv
BY DEF L!Init, LoopInv, L!TypeOK, ChannelsAreOwn, L!AnswersAreOwn,
       L!Nothing, L!Calls, L!Outcomes, L!Unsent, L!Open

(***************************************************************************)
(* Every step of a thread and of the loop keeps the types and the          *)
(* channels: only Answer writes one, for the call the loop is in.          *)
(***************************************************************************)
LEMMA NextLoop ==
  ASSUME MaxCalls \in Nat, LoopInv, [L!Next]_loopVars
  PROVE  LoopInv'
<1> USE DEF LoopInv, L!TypeOK, ChannelsAreOwn, L!AnswersAreOwn, L!Nothing, L!Calls, L!Outcomes
<1>1. ASSUME NEW t \in Threads, L!Ask(t) PROVE LoopInv'
  BY <1>1 DEF L!Ask
<1>2. ASSUME NEW t \in Threads, L!Unreachable(t) PROVE LoopInv'
  BY <1>2 DEF L!Unreachable, L!Refused
<1>3. ASSUME NEW t \in Threads, L!Receive(t) PROVE LoopInv'
  <2>1. asked[t] \in L!Calls /\ channel[asked[t]] \in L!Outcomes
    BY <1>3 DEF L!Receive
  <2>2. channel[asked[t]].of = asked[t]
    BY <2>1
  <2>3. got' = [got EXCEPT ![asked[t]] = channel[asked[t]]]
    BY <1>3 DEF L!Receive, L!Ends
  <2>4. got' \in [L!Calls -> L!Outcomes \cup {L!Open, L!Refused}]
    BY <2>1, <2>3
  <2>5. L!AnswersAreOwn'
    BY <2>1, <2>2, <2>3
  <2>6. asked' \in [Threads -> 0..calls']
    BY <1>3 DEF L!Receive, L!Ends
  <2> QED BY <1>3, <2>4, <2>5, <2>6 DEF L!Receive
<1>4. ASSUME NEW t \in Threads, L!GiveUp(t) PROVE LoopInv'
  <2>1. asked[t] \in L!Calls
    BY <1>4 DEF L!GiveUp
  <2>2. got' = [got EXCEPT ![asked[t]] = L!Refused]
    BY <1>4 DEF L!GiveUp, L!Ends
  <2>3. L!Refused \notin L!Outcomes
    BY DEF L!Refused
  <2>4. got' \in [L!Calls -> L!Outcomes \cup {L!Open, L!Refused}] /\ L!AnswersAreOwn'
    BY <2>1, <2>2, <2>3
  <2>5. asked' \in [Threads -> 0..calls']
    BY <1>4 DEF L!GiveUp, L!Ends
  <2> QED BY <1>4, <2>4, <2>5 DEF L!GiveUp
<1>5. CASE L!Run
  <2>1. queue \in Seq(L!Calls) /\ queue # <<>> /\ running' = Head(queue) /\ queue' = Tail(queue)
    BY <1>5 DEF L!Run
  <2>2. queue' \in Seq(L!Calls) /\ running' \in L!Calls
    BY <2>1
  <2> QED BY <1>5, <2>2 DEF L!Run
<1>6. CASE L!Answer
  <2>1. PICK what \in {"answer", "thrown"} :
          channel' = IF L!Listened(running)
                     THEN [channel EXCEPT ![running] = [what |-> what, of |-> running]]
                     ELSE channel
    BY <1>6 DEF L!Answer
  <2>2. running \in L!Calls /\ [what |-> what, of |-> running] \in L!Outcomes
    BY <1>6 DEF L!Answer
  <2>3. channel' \in [L!Calls -> L!Outcomes \cup {L!Unsent}]
    BY <2>1, <2>2
  <2>4. ChannelsAreOwn'
    BY <2>1, <2>2
  <2> QED BY <1>6, <2>3, <2>4 DEF L!Answer
<1>7. CASE L!GoAway
  <2>1. <<>> \in Seq(L!Calls)
    OBVIOUS
  <2> QED BY <1>7, <2>1 DEF L!GoAway
<1>8. CASE UNCHANGED loopVars
  BY <1>8 DEF loopVars
<1> QED BY <1>1, <1>2, <1>3, <1>4, <1>5, <1>6, <1>7, <1>8 DEF L!Next

-----------------------------------------------------------------------------
(* StoreWatch. *)

(* While the watch's thread runs after a stop(), one stop() has its handle  *)
(* and joins it; nobody who waits has resolved before there was a stop().   *)
OneJoins ==
  /\ handle => \A c \in Stops : stop[c] = "ready"
  /\ ~handle /\ thread # "ended" => \E c \in Stops : stop[c] = "joining"
  /\ thread # "ended" => failures = 0

WatchInv == W!TypeOK /\ OneJoins

LEMMA InitWatch ==
  ASSUME MaxMoves \in Nat, W!Init
  PROVE  WatchInv
<1>1. <<>> \in Seq(1..MaxMoves) /\ Len(<<>>) = 0
  OBVIOUS
<1> QED BY <1>1 DEF W!Init, WatchInv, W!TypeOK, OneJoins, W!Joining

(***************************************************************************)
(* The steps of the watch's thread, of stop() and of the loop.             *)
(***************************************************************************)
LEMMA NextWatch ==
  ASSUME MaxMoves \in Nat, WatchInv, [W!Next]_watchVars
  PROVE  WatchInv'
<1> USE DEF WatchInv, W!TypeOK, OneJoins, W!Joining
<1>1. CASE W!Started
  BY <1>1 DEF W!Started
<1>2. CASE W!HandOver
  <2>1. documents' \in Seq(1..MaxMoves) /\ Len(documents') = Len(documents) + 1
    BY <1>2 DEF W!HandOver
  <2> QED BY <1>2, <2>1 DEF W!HandOver
<1>3. CASE W!Fail
  BY <1>3 DEF W!Fail
<1>4. CASE W!Notice
  BY <1>4 DEF W!Notice
<1>5. CASE W!OnChange
  <2>1. documents' \in Seq(1..MaxMoves) /\ Len(documents') <= Len(documents)
    BY <1>5 DEF W!OnChange
  <2> QED BY <1>5, <2>1 DEF W!OnChange
<1>6. CASE W!OnError
  BY <1>6 DEF W!OnError
<1>7. ASSUME NEW c \in Stops, W!Stop(c) PROVE WatchInv'
  BY <1>7 DEF W!Stop
<1>8. ASSUME NEW c \in Stops, W!Join(c) PROVE WatchInv'
  BY <1>8 DEF W!Join
<1>9. ASSUME NEW c \in Stops, W!Resolve(c) PROVE WatchInv'
  BY <1>9 DEF W!Resolve
<1>10. CASE UNCHANGED watchVars
  BY <1>10 DEF watchVars
<1> QED BY <1>1, <1>2, <1>3, <1>4, <1>5, <1>6, <1>7, <1>8, <1>9, <1>10 DEF W!Next

(***************************************************************************)
(* The handle is taken by the first stop(), so that by the time all of     *)
(* them have resolved its join has ended.                                  *)
(***************************************************************************)
LEMMA WatchEnds ==
  ASSUME WatchInv
  PROVE  W!AllStopsWaited
BY DEF WatchInv, W!TypeOK, OneJoins, W!AllStopsWaited, W!Resolved

-----------------------------------------------------------------------------
(* Sources. *)

(* The engine's sources are those accepted; a worker that is past dynamic() *)
(* has closed the declaring phase; what its load has to find is set.        *)
LoadsFindAll ==
  /\ builder = accepted
  /\ phase = "building" => serving = D!NoDoc /\ publishers = 0
  /\ \A c \in Operations :
       /\ call[c].at = "entered" => phase = "ready"
       /\ call[c].had \subseteq layers

SourcesInv == D!TypeOK /\ LoadsFindAll /\ D!ServedWithAllAccepted

LEMMA InitSources ==
  ASSUME D!Init
  PROVE  SourcesInv
<1> USE DEF D!Init
<1>1. D!TypeOK
  BY DEF D!TypeOK
<1>2. LoadsFindAll
  BY DEF LoadsFindAll, D!Idle
<1> QED BY <1>1, <1>2 DEF SourcesInv, D!ServedWithAllAccepted

(***************************************************************************)
(* Declarations, layers, and the steps of an operation.                    *)
(***************************************************************************)
LEMMA NextSources ==
  ASSUME Sources \cap Settings = {}, SourcesInv, [D!Next]_sourcesVars
  PROVE  SourcesInv'
<1> USE DEF SourcesInv, D!TypeOK, LoadsFindAll, D!ServedWithAllAccepted, D!Idle
<1>1. ASSUME NEW s \in Sources, D!Declare(s) PROVE SourcesInv'
  BY <1>1 DEF D!Declare
<1>2. ASSUME NEW s \in Sources, D!Refuse(s) PROVE SourcesInv'
  BY <1>2 DEF D!Refuse
<1>3. ASSUME NEW s \in Settings, D!SetLayer(s) PROVE SourcesInv'
  BY <1>3 DEF D!SetLayer
<1>4. ASSUME NEW s \in Settings, D!ClearLayer(s) PROVE SourcesInv'
  <2>1. ASSUME NEW c \in Operations
        PROVE  /\ call'[c] \in [kind : D!Kinds, at : {"queued", "entered", "done", "failed"},
                                 had : SUBSET Settings] \cup {D!Idle}
               /\ call'[c].at = call[c].at
               /\ call'[c].had \subseteq layers'
    <3>1. call'[c] = [call[c] EXCEPT !.had = @ \ {s}]
      BY <1>4 DEF D!ClearLayer
    <3>2. CASE call[c] = D!Idle
      <4>1. call'[c] = D!Idle
        <5>1. call'[c] = [D!Idle EXCEPT !.had = {}]
          BY <3>1, <3>2
        <5> QED BY <5>1
      <4> QED BY <3>2, <4>1
    <3>3. CASE call[c] # D!Idle
      BY <1>4, <3>1, <3>3 DEF D!ClearLayer
    <3> QED BY <3>2, <3>3
  <2>2. call' \in [Operations -> [kind : D!Kinds, at : {"queued", "entered", "done", "failed"},
                                  had : SUBSET Settings] \cup {D!Idle}]
    BY <1>4, <2>1 DEF D!ClearLayer
  <2> QED BY <1>4, <2>1, <2>2 DEF D!ClearLayer
<1>5. ASSUME NEW c \in Operations, D!Begin(c) PROVE SourcesInv'
  BY <1>5 DEF D!Begin, D!Kinds
<1>6. ASSUME NEW c \in Operations, D!Enter(c) PROVE SourcesInv'
  BY <1>6 DEF D!Enter, D!Dynamic
<1>7. ASSUME NEW c \in Operations, D!Complete(c) PROVE SourcesInv'
  BY <1>7 DEF D!Complete
<1>8. ASSUME NEW c \in Operations, D!Fail(c) PROVE SourcesInv'
  BY <1>8 DEF D!Fail
<1>9. ASSUME NEW c \in Operations, D!Watch(c) PROVE SourcesInv'
  BY <1>9 DEF D!Watch, D!Dynamic, D!Kinds
<1>10. ASSUME NEW c \in Operations, D!Diagnose(c) PROVE SourcesInv'
  BY <1>10 DEF D!Diagnose, D!Kinds
<1>11. CASE UNCHANGED sourcesVars
  BY <1>11 DEF sourcesVars
<1> QED BY <1>1, <1>2, <1>3, <1>4, <1>5, <1>6, <1>7, <1>8, <1>9, <1>10, <1>11 DEF D!Next

-----------------------------------------------------------------------------
(* Stores. *)

(* What a request carries is settled by the options, which were whole; a    *)
(* fetch's credential was minted after it was called.                      *)
CarriedWhole ==
  /\ store = "built" => S!WholePairs
  /\ \A t \in S!Tasks :
       /\ task[t].called <= rotation
       /\ S!Sent(t) => task[t].carries = S!Credentials
  /\ \A f \in Fetches :
       "tokenFn" \in given /\ task[f].at \in {"called", "sent", "answered"}
         => task[f].minted >= task[f].called

StoresInv == S!TypeOK /\ CarriedWhole

LEMMA InitStores ==
  ASSUME MaxRotations \in Nat, S!Init
  PROVE  StoresInv
BY DEF S!Init, StoresInv, S!TypeOK, CarriedWhole, S!Tasks, S!Sent

(***************************************************************************)
(* What a class's constructor, its tasks and the world behind tokenFn do.  *)
(***************************************************************************)
LEMMA NextStores ==
  ASSUME MaxRotations \in Nat, WatchTask \notin Fetches, StoresInv, [S!Next]_storesVars
  PROVE  StoresInv'
<1> USE DEF StoresInv, S!TypeOK, CarriedWhole, S!Tasks, S!Sent, S!Goto
<1>1. CASE S!Construct
  BY <1>1 DEF S!Construct, S!WholePairs
<1>2. CASE S!Rotate
  BY <1>2 DEF S!Rotate, S!WholePairs, S!Credentials
<1>3. CASE S!AskAgain
  BY <1>3 DEF S!AskAgain, S!WholePairs, S!Credentials
<1>4. ASSUME NEW t \in S!Tasks, S!Begin(t) PROVE StoresInv'
  BY <1>4 DEF S!Begin, S!WholePairs, S!Credentials
<1>5. ASSUME NEW t \in S!Tasks, S!Mint(t) PROVE StoresInv'
  BY <1>5 DEF S!Mint, S!WholePairs, S!Credentials
<1>6. ASSUME NEW t \in S!Tasks, S!MintFails(t) PROVE StoresInv'
  BY <1>6 DEF S!MintFails, S!WholePairs, S!Credentials
<1>7. ASSUME NEW t \in S!Tasks, S!Unbuilt(t) PROVE StoresInv'
  BY <1>7 DEF S!Unbuilt, S!WholePairs, S!Credentials
<1>8. ASSUME NEW t \in S!Tasks, S!Send(t) PROVE StoresInv'
  BY <1>8 DEF S!Send, S!WholePairs, S!Credentials
<1>9. ASSUME NEW t \in S!Tasks, S!Answered(t) PROVE StoresInv'
  BY <1>9 DEF S!Answered, S!WholePairs, S!Credentials
<1>10. CASE UNCHANGED storesVars
  BY <1>10 DEF storesVars, S!WholePairs, S!Credentials
<1> QED BY <1>1, <1>2, <1>3, <1>4, <1>5, <1>6, <1>7, <1>8, <1>9, <1>10 DEF S!Next

(***************************************************************************)
(* Whole pairs of options are whole pairs on the wire.                     *)
(***************************************************************************)
LEMMA RequestsAreWhole ==
  ASSUME StoresInv
  PROVE  S!NeverAnonymous /\ S!CarriesCurrent
<1> USE DEF StoresInv, CarriedWhole
<1>1. \A t \in S!Tasks : S!Sent(t) => store = "built"
  BY DEF S!TypeOK, S!Sent
<1>2. S!NeverAnonymous
  BY <1>1 DEF S!NeverAnonymous, S!WholePairs, S!Credentials, S!Rotating
<1>3. S!CarriesCurrent
  BY DEF S!CarriesCurrent, S!Credentials, S!Tasks, S!Sent
<1> QED BY <1>2, <1>3

-----------------------------------------------------------------------------
(* LogBridge. *)

(* Whoever finds the engine's sink finds a logger behind it, and a line in  *)
(* the sink that finds none crossed the end of a setLogger().              *)
SinkHasLogger ==
  /\ sink \/ setting = "sink" => logger
  /\ setting \in {"clear", "reset"} => ~sink
  /\ \A t \in Emitters : emitting[t] = "bridge" /\ ~logger => t \in crossed

LogInv == B!TypeOK /\ SinkHasLogger

LEMMA InitLog ==
  ASSUME MaxLines \in Nat, B!Init
  PROVE  LogInv
<1>1. B!TypeOK
  <2>1. {sink, logger, gone} \subseteq BOOLEAN
    BY Zenon DEF B!Init
  <2>2. emitting \in [Emitters -> {"idle", "gated", "bridge"}] /\ crossed \subseteq Emitters
    BY DEF B!Init
  <2> QED BY <2>1, <2>2 DEF B!Init, B!TypeOK
<1> QED BY <1>1 DEF B!Init, LogInv, SinkHasLogger

(***************************************************************************)
(* The halves of setLogger() and the steps of a line.                      *)
(***************************************************************************)
LEMMA NextLog ==
  ASSUME MaxLines \in Nat, LogInv, [B!Next]_logVars
  PROVE  LogInv'
<1> USE DEF LogInv, B!TypeOK, SinkHasLogger
<1>1. CASE B!SetSink
  BY <1>1 DEF B!SetSink, B!LoopRuns
<1>2. CASE B!SetEngineSink
  BY <1>2 DEF B!SetEngineSink
<1>3. CASE B!Take
  BY <1>3 DEF B!Take
<1>4. CASE B!SetLevel
  BY <1>4 DEF B!SetLevel
<1>5. CASE B!LoopGone
  BY <1>5 DEF B!LoopGone
<1>6. ASSUME NEW after \in {"clear", "reset"}, B!ClearEngineSink(after) PROVE LogInv'
  BY <1>6 DEF B!ClearEngineSink, B!LoopRuns
<1>7. ASSUME NEW t \in Emitters, NEW loud, B!Emit(t, loud) PROVE LogInv'
  BY <1>7 DEF B!Emit, B!Goto
<1>8. ASSUME NEW t \in Emitters, B!ReadSink(t) PROVE LogInv'
  BY <1>8 DEF B!ReadSink, B!Goto
<1>9. ASSUME NEW t \in Emitters, B!Call(t) PROVE LogInv'
  BY <1>9 DEF B!Call, B!Goto
<1>10. CASE UNCHANGED logVars
  BY <1>10 DEF logVars
<1> QED
  BY <1>1, <1>2, <1>3, <1>4, <1>5, <1>6, <1>7, <1>8, <1>9, <1>10 DEF B!Next

(***************************************************************************)
(* A thread is done with its line on stderr, or in the sink: there the     *)
(* line finds a logger, or has crossed.                                    *)
(***************************************************************************)
LEMMA LinesAreHeard ==
  ASSUME LogInv, [B!Next]_logVars, NEW t \in Emitters,
         emitting[t] # "idle", emitting'[t] = "idle"
  PROVE  heard' > heard \/ t \in crossed
<1> USE DEF LogInv, B!TypeOK, SinkHasLogger
<1>1. emitting' # emitting
  BY Zenon
<1>2. PICK e \in Emitters : B!Emit(e, "info") \/ B!Emit(e, "warn") \/ B!ReadSink(e) \/ B!Call(e)
  BY <1>1 DEF B!Next, B!SetSink, B!SetEngineSink, B!Take, B!SetLevel, B!LoopGone,
              B!ClearEngineSink, logVars
<1>3. e = t /\ (B!ReadSink(t) \/ B!Call(t))
  BY <1>2 DEF B!Emit, B!ReadSink, B!Call, B!Goto
<1>4. CASE B!ReadSink(t)
  <2>1. ~sink
    BY <1>4 DEF B!ReadSink, B!Goto
  <2> QED BY <1>4, <2>1 DEF B!ReadSink
<1>5. CASE B!Call(t)
  BY <1>5 DEF B!Call
<1> QED BY <1>3, <1>4, <1>5

-----------------------------------------------------------------------------
(* The whole. *)

IInv == LoopInv /\ WatchInv /\ SourcesInv /\ LogInv /\ StoresInv

(***************************************************************************)
(* The five invariants hold together from the start ...                    *)
(***************************************************************************)
LEMMA InitIInv ==
  ASSUME Init
  PROVE  IInv
BY InitLoop, InitWatch, InitSources, InitLog, InitStores, NativeAssumption DEF Init, IInv

(***************************************************************************)
(* ... and are kept by every step, which is a step of each part or none.   *)
(***************************************************************************)
LEMMA NextIInv ==
  ASSUME IInv, [Next]_vars
  PROVE  IInv'
<1>1. /\ [L!Next]_loopVars
      /\ [W!Next]_watchVars
      /\ [D!Next]_sourcesVars
      /\ [B!Next]_logVars
      /\ [S!Next]_storesVars
  BY PartSteps
<1> QED
  BY <1>1, NextLoop, NextWatch, NextSources, NextLog, NextStores, NativeAssumption DEF IInv

(***************************************************************************)
(* Types, for any number of threads, stops, operations, lines and fetches. *)
(***************************************************************************)
THEOREM TypesHold == Spec => []NativeTypeOK
<1>1. IInv => NativeTypeOK
  BY DEF IInv, LoopInv, WatchInv, SourcesInv, LogInv, StoresInv, NativeTypeOK
<1> QED BY <1>1, InitIInv, NextIInv, PTL DEF Spec

(***************************************************************************)
(* Door.validate, Shim.fetch and Rotating.current never take one call's    *)
(* answer for another's, whatever is given up, thrown or left behind.      *)
(***************************************************************************)
THEOREM AnswersStayOwn == Spec => []AnswersAreOwn
<1>1. IInv => AnswersAreOwn
  BY DEF IInv, LoopInv, AnswersAreOwn
<1> QED BY <1>1, InitIInv, NextIInv, PTL DEF Spec

(***************************************************************************)
(* However often and whenever stop() is called, once every call has        *)
(* resolved the watch's thread has ended.                                  *)
(***************************************************************************)
THEOREM StopsAreJoined == Spec => []AllStopsWaited
<1>1. IInv => AllStopsWaited
  BY WatchEnds DEF IInv, AllStopsWaited
<1> QED BY <1>1, InitIInv, NextIInv, PTL DEF Spec

(***************************************************************************)
(* No accepted source and no layer setting made before a load is missing   *)
(* from the document it installs, whatever raced with it.                  *)
(***************************************************************************)
THEOREM LoadsFindWhatWasDeclared == Spec => []ServedWithAllAccepted
<1>1. IInv => ServedWithAllAccepted
  BY DEF IInv, SourcesInv, ServedWithAllAccepted
<1> QED BY <1>1, InitIInv, NextIInv, PTL DEF Spec

(***************************************************************************)
(* Between setLogger()'s two halves no line is dropped, of any number of   *)
(* threads, but one that was inside the sink when the logger went away.    *)
(***************************************************************************)
THEOREM NoLineIsDropped == Spec => EveryLineIsHeard
<1>1. IInv /\ [Next]_vars =>
        [\A t \in Emitters : emitting[t] # "idle" /\ emitting'[t] = "idle" =>
           heard' > heard \/ t \in crossed]_(B!vars)
  BY PartSteps, LinesAreHeard DEF IInv
<1> QED BY <1>1, InitIInv, NextIInv, PTL DEF Spec, EveryLineIsHeard, B!EveryLineIsHeard

(***************************************************************************)
(* No request of any of the eight stores is less authenticated than its    *)
(* options asked for, ...                                                  *)
(***************************************************************************)
THEOREM RequestsAreAuthenticated == Spec => []NeverAnonymous
<1>1. IInv => NeverAnonymous
  BY RequestsAreWhole DEF IInv, NeverAnonymous
<1> QED BY <1>1, InitIInv, NextIInv, PTL DEF Spec

(***************************************************************************)
(* ... and a fetch never carries a credential older than its call.         *)
(***************************************************************************)
THEOREM FetchesAreCurrent == Spec => []CarriesCurrent
<1>1. IInv => CarriesCurrent
  BY RequestsAreWhole DEF IInv, CarriesCurrent
<1> QED BY <1>1, InitIInv, NextIInv, PTL DEF Spec
=============================================================================
