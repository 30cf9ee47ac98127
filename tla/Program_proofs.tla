--------------------------- MODULE Program_proofs ---------------------------
(***************************************************************************)
(* The safety properties of the parts of MCProgram, for all values of      *)
(* their constants.  A part has an invariant of its own, which its steps   *)
(* keep and every other step leaves alone.                                 *)
(***************************************************************************)
EXTENDS MCProgram, FiniteSetTheorems, TLAPS

(***************************************************************************)
(* A step of the whole is a step of each part, or leaves it as it is.      *)
(***************************************************************************)
LEMMA PartSteps ==
  ASSUME [Next]_vars
  PROVE  /\ [A!Next]_hookVars
         /\ [R!Next]_remoteVars
         /\ [W!Next]_watcherVars
         /\ [O!Next]_overridesVars
         /\ [S!Next]_streamVars
         /\ [D!Install]_documentVars
<1>1. CASE UNCHANGED vars
  BY <1>1 DEF vars
<1>2. CASE Next
  <2>1. \/ InHook /\ A!Next
        \/ InRemote /\ R!Next
        \/ InWatcher /\ W!Next
        \/ InOverrides /\ O!Next
        \/ InStreams /\ S!Next
        \/ InDocuments /\ D!Install
    BY <1>2 DEF Next, A!Next, R!Next, R!Proceed, W!Next, O!Next, S!Next, S!Loop, S!Threads
  <2> QED BY <2>1 DEF InHook, InRemote, InWatcher, InOverrides, InStreams, InDocuments
<1> QED BY <1>1, <1>2

LEMMA Appending ==
  ASSUME NEW T, NEW s \in Seq(T), NEW e \in T
  PROVE  /\ Append(s, e) \in Seq(T) /\ Len(Append(s, e)) = Len(s) + 1
         /\ \A i \in DOMAIN Append(s, e) :
              \/ i \in DOMAIN s /\ Append(s, e)[i] = s[i]
              \/ i = Len(s) + 1 /\ Append(s, e)[i] = e
<1>1. DOMAIN s = 1..Len(s) /\ DOMAIN Append(s, e) = 1..(Len(s) + 1) /\ Len(s) \in Nat
  OBVIOUS
<1>2. \A i \in 1..Len(s) : Append(s, e)[i] = s[i]
  OBVIOUS
<1>3. Append(s, e)[Len(s) + 1] = e
  OBVIOUS
<1> QED BY <1>1, <1>2, <1>3

LEMMA Tailing ==
  ASSUME NEW T, NEW s \in Seq(T), s # <<>>
  PROVE  /\ Tail(s) \in Seq(T) /\ Len(Tail(s)) = Len(s) - 1
         /\ 1 \in DOMAIN s /\ Head(s) = s[1] /\ Head(s) \in T
         /\ \A i \in DOMAIN Tail(s) : i + 1 \in DOMAIN s /\ Tail(s)[i] = s[i + 1]
<1>1. Len(s) \in Nat /\ Len(s) >= 1 /\ DOMAIN s = 1..Len(s)
  OBVIOUS
<1>2. Tail(s) \in Seq(T) /\ Len(Tail(s)) = Len(s) - 1
  OBVIOUS
<1>3. \A i \in 1..(Len(s) - 1) : Tail(s)[i] = s[i + 1]
  OBVIOUS
<1>4. DOMAIN Tail(s) = 1..(Len(s) - 1)
  BY <1>2
<1>5. Head(s) = s[1] /\ s[1] \in T
  BY <1>1
<1> QED BY <1>1, <1>2, <1>3, <1>4, <1>5

-----------------------------------------------------------------------------
(* AsyncHook. *)

(* latest and serial: the call under way is that of the controller, and     *)
(* documents wait only behind it (or behind a call whose rejection onError  *)
(* threw out of, for good).  latest: the one that waits is the        *)
(* newest, and nobody has told it to stop.  serial and every: the documents *)
(* started and those that wait are the installs, one by one.                *)
OneAtATime ==
  policy # "every" =>
    /\ running => active \subseteq {controller} /\ controller # A!None
    /\ ~running => active = {} /\ queued = <<>>

NewestWaits ==
  /\ controller <= installs /\ \A d \in aborted : d <= installs
  /\ policy = "latest" =>
       /\ queued # <<>> => queued = <<installs>> /\ installs \notin aborted
       /\ \A d \in active : d \in aborted <=> queued # <<>>

NoneMissing ==
  policy # "latest" =>
    /\ policy = "every" => queued = <<>>
    /\ Len(started) + Len(queued) = installs
    /\ \A i \in DOMAIN started : started[i] = i
    /\ \A i \in DOMAIN queued : queued[i] = Len(started) + i

HookInv == A!TypeOK /\ OneAtATime /\ NewestWaits /\ NoneMissing

LEMMA InitHook ==
  ASSUME MaxInstalls \in Nat, A!Init
  PROVE  HookInv
<1> USE DEF A!Init
<1>1. A!TypeOK
  <2>1. policy \in A!Policies /\ {running, threw} \subseteq BOOLEAN
    BY Zenon
  <2>2. queued \in Seq(A!Documents) /\ started \in Seq(A!Documents)
    OBVIOUS
  <2>3. installs \in 0..MaxInstalls /\ controller \in A!Documents \cup {A!None} 
    OBVIOUS
  <2>4. active \subseteq A!Documents /\ aborted \subseteq A!Documents
    OBVIOUS
  <2>5. Len(started) + Len(queued) <= installs
    OBVIOUS
  <2> QED BY <2>1, <2>2, <2>3, <2>4, <2>5 DEF A!TypeOK
<1>2. OneAtATime /\ NewestWaits
  BY DEF A!None, OneAtATime, NewestWaits
<1>3. NoneMissing
  BY DEF NoneMissing
<1> QED BY <1>1, <1>2, <1>3 DEF HookInv

(***************************************************************************)
(* An install starts its call or waits; a call that settles starts the one *)
(* that waits.                                                             *)
(***************************************************************************)
LEMMA NextHook ==
  ASSUME MaxInstalls \in Nat, HookInv, [A!Next]_hookVars
  PROVE  HookInv'
<1> USE DEF HookInv, A!TypeOK, A!Documents, A!None, A!Policies
<1>1. CASE A!Install
  <2> DEFINE new == installs + 1
  <2>1. new \in A!Documents /\ installs' = new /\ policy' = policy
    BY <1>1 DEF A!Install
  <2>0. threw' = threw /\ threw \in BOOLEAN
    BY <1>1 DEF A!Install
  <2>2. CASE policy = "every" \/ ~running
    <3>0. running' /\ {running', threw'} \subseteq BOOLEAN
      <4>1. running' = TRUE
        BY <1>1, <2>2 DEF A!Install, A!Start
      <4> QED BY <2>0, <4>1, Zenon
    <3>1. /\ controller' = new /\ active' = active \cup {new}
          /\ started' = Append(started, new) /\ queued' = queued /\ aborted' = aborted
      BY <1>1, <2>2 DEF A!Install, A!Start
    <3>2. queued = <<>>
      BY <2>2 DEF OneAtATime, NoneMissing
    <3>3. started' \in Seq(A!Documents) /\ Len(started') = Len(started) + 1
      BY <2>1, <3>1
    <3>4. A!TypeOK'
      BY <2>1, <3>0, <3>1, <3>3
    <3>5. policy # "every" => active' = {new}
      BY <2>2, <3>1 DEF OneAtATime
    <3>6. OneAtATime'
      BY <2>1, <3>0, <3>1, <3>5 DEF OneAtATime
    <3>7. NewestWaits'
      BY <2>1, <3>1, <3>2, <3>5 DEF NewestWaits
    <3>8. NoneMissing'
      BY <2>1, <3>1, <3>2, <3>3 DEF NoneMissing
    <3> QED BY <3>4, <3>6, <3>7, <3>8
  <2>3. CASE policy = "latest" /\ running
    <3>1. /\ UNCHANGED <<running, controller, active, started>>
          /\ queued' = <<new>> /\ aborted' = aborted \cup {controller}
      BY <1>1, <2>3 DEF A!Install
    <3>2. queued' \in Seq(A!Documents) /\ Len(queued') = 1 /\ queued' # <<>>
      BY <2>1, <3>1
    <3>3. Len(started') + Len(queued') <= installs'
      BY <2>1, <3>1, <3>2
    <3>4. A!TypeOK'
      <4>1. {running', threw'} \subseteq BOOLEAN
        BY <2>0, <3>1
      <4> QED BY <2>1, <2>3, <3>1, <3>2, <3>3, <4>1 DEF OneAtATime
    <3>5. OneAtATime' /\ NewestWaits'
      BY <2>1, <2>3, <3>1, <3>2 DEF OneAtATime, NewestWaits
    <3> QED BY <2>1, <2>3, <3>4, <3>5 DEF NoneMissing
  <2>4. CASE policy = "serial" /\ running
    <3>1. /\ UNCHANGED <<running, controller, active, started, aborted>>
          /\ queued' = Append(queued, new)
      BY <1>1, <2>4 DEF A!Install
    <3>2. queued' \in Seq(A!Documents) /\ Len(queued') = Len(queued) + 1
      BY <2>1, <3>1
    <3>3. A!TypeOK'
      <4>1. {running', threw'} \subseteq BOOLEAN
        BY <2>0, <3>1
      <4> QED BY <2>1, <3>1, <3>2, <4>1
    <3>4. OneAtATime' /\ NewestWaits'
      BY <2>1, <2>4, <3>1 DEF OneAtATime, NewestWaits
    <3>5. NoneMissing'
      BY <2>1, <2>4, <3>1, <3>2 DEF NoneMissing
    <3> QED BY <3>3, <3>4, <3>5
  <2> QED BY <2>2, <2>3, <2>4
<1>2. ASSUME NEW d \in A!Documents, A!Settle(d) PROVE HookInv'
  <2>1. /\ d \in active /\ UNCHANGED <<policy, installs, aborted>>
        /\ policy # "every" => running /\ d = controller
    BY <1>2 DEF A!Settle, OneAtATime
  <2>0. threw' = threw /\ threw \in BOOLEAN
    BY <1>2 DEF A!Settle
  <2>2. CASE queued = <<>>
    <3>0. ~running' /\ {running', threw'} \subseteq BOOLEAN
      <4>1. running' = FALSE
        BY <1>2, <2>2 DEF A!Settle
      <4> QED BY <2>0, <4>1, Zenon
    <3>1. active' = active \ {d} /\ UNCHANGED <<queued, controller, started>>
      BY <1>2, <2>2 DEF A!Settle
    <3> QED BY <2>1, <2>2, <3>0, <3>1 DEF OneAtATime, NewestWaits, NoneMissing
  <2>3. CASE queued # <<>>
    <3> DEFINE new == Head(queued)
    <3>0. running' /\ {running', threw'} \subseteq BOOLEAN
      <4>1. running' = TRUE
        BY <1>2, <2>3 DEF A!Settle, A!Start
      <4> QED BY <2>0, <4>1, Zenon
    <3>1. /\ controller' = new /\ active' = (active \ {d}) \cup {new}
          /\ started' = Append(started, new) /\ queued' = Tail(queued)
      BY <1>2, <2>3 DEF A!Settle, A!Start
    <3>2. new \in A!Documents /\ new = queued[1] /\ Len(queued) >= 1
      BY <2>3
    <3>3. queued' \in Seq(A!Documents) /\ Len(queued') = Len(queued) - 1
      BY <2>3, <3>1
    <3>4. started' \in Seq(A!Documents) /\ Len(started') = Len(started) + 1
      BY <3>1, <3>2
    <3>5. active' \subseteq A!Documents
      BY <3>1, <3>2
    <3>6. Len(started') + Len(queued') <= installs'
      BY <2>1, <3>3, <3>4
    <3>7. A!TypeOK'
      BY <2>1, <3>0, <3>1, <3>2, <3>3, <3>4, <3>5, <3>6
    <3>8. policy # "every" => active' = {new}
      BY <2>1, <3>1 DEF OneAtATime
    <3>9. CASE policy = "latest"
      <4>1. queued = <<installs>>
        BY <2>3, <3>9 DEF NewestWaits
      <4>2. new = installs /\ queued' = <<>>
        BY <3>1, <4>1
      <4>3. NewestWaits'
        BY <2>1, <2>3, <3>1, <3>8, <3>9, <4>2 DEF NewestWaits
      <4>4. OneAtATime'
        BY <2>1, <3>0, <3>1, <3>2, <3>8, <3>9 DEF OneAtATime
      <4> QED BY <2>1, <3>7, <3>9, <4>3, <4>4 DEF NoneMissing
    <3>10. CASE policy = "serial"
      <4>1. new = Len(started) + 1 /\ Len(started) + Len(queued) = installs
        BY <3>2, <3>10 DEF NoneMissing
      <4>2. OneAtATime' /\ NewestWaits'
        BY <2>1, <3>0, <3>1, <3>2, <3>8, <3>10, <4>1 DEF OneAtATime, NewestWaits
      <4>3. \A i \in 1..Len(started') : started'[i] = i
        BY <3>1, <3>4, <3>10, <4>1 DEF NoneMissing
      <4>4. \A i \in 1..Len(queued') : queued'[i] = Len(started') + i
        <5>1. \A i \in 1..Len(queued') : queued'[i] = queued[i + 1]
          BY <2>3, <3>1, <3>3
        <5>2. \A i \in 1..Len(queued) : queued[i] = Len(started) + i
          BY <3>10 DEF NoneMissing
        <5>3. \A i \in 1..Len(queued') :
                i + 1 \in 1..Len(queued) /\ Len(started) + (i + 1) = Len(started') + i
          BY <3>3, <3>4
        <5> QED BY <5>1, <5>2, <5>3
      <4>5. NoneMissing'
        <5>1. Len(started') + Len(queued') = installs' /\ policy' # "every"
          <6>1. installs' = installs /\ policy' = "serial"
            BY <2>1, <3>10
          <6>2. Len(started) \in Nat /\ Len(queued) \in Nat
            OBVIOUS
          <6>3. Len(started') + Len(queued') = Len(started) + Len(queued)
            BY <3>3, <3>4, <6>2
          <6> QED BY <4>1, <6>1, <6>3
        <5>2. DOMAIN started' = 1..Len(started') /\ DOMAIN queued' = 1..Len(queued')
          BY <3>3, <3>4
        <5> QED BY <4>3, <4>4, <5>1, <5>2 DEF NoneMissing
      <4> QED BY <3>7, <4>2, <4>5
    <3>11. policy # "every"
      BY <2>3 DEF NoneMissing
    <3> QED BY <3>9, <3>10, <3>11
  <2> QED BY <2>2, <2>3
<1>3. ASSUME NEW d \in A!Documents, A!ReportThrows(d) PROVE HookInv'
  <2>1. /\ active' = active \ {d} /\ d \in active
        /\ UNCHANGED <<policy, installs, running, queued, controller, aborted, started>>
    BY <1>3 DEF A!ReportThrows
  <2>2. {running', threw'} \subseteq BOOLEAN
    <3>1. threw' = TRUE /\ running' = running
      BY <1>3 DEF A!ReportThrows
    <3>2. running \in BOOLEAN
      OBVIOUS
    <3> QED BY <3>1, <3>2, Zenon
  <2> QED BY <2>1, <2>2 DEF OneAtATime, NewestWaits, NoneMissing
<1>4. CASE UNCHANGED hookVars
  BY <1>4 DEF hookVars, OneAtATime, NewestWaits, NoneMissing
<1> QED BY <1>1, <1>2, <1>3, <1>4 DEF A!Next

LEMMA Counting ==
  ASSUME NEW Item, NEW s \in Seq(Item), NEW n \in Nat, Len(s) = n,
         \A i \in 1..n : s[i] = i
  PROVE  s = [i \in 1..n |-> i]
OBVIOUS

(***************************************************************************)
(* At most one call runs, and what was dropped was overtaken.              *)
(***************************************************************************)
LEMMA HookKeepsItsWord ==
  ASSUME HookInv
  PROVE  A!NeverInterleaved /\ A!OnlyOvertakenAreDropped
<1>1. A!NeverInterleaved
  BY DEF HookInv, OneAtATime, A!NeverInterleaved
<1>2. ASSUME policy # "latest" PROVE started \o queued = [i \in 1..installs |-> i]
  <2>1. /\ started \in Seq(A!Documents) /\ queued \in Seq(A!Documents)
        /\ Len(started) + Len(queued) = installs
        /\ \A i \in 1..Len(started) : started[i] = i
        /\ \A i \in 1..Len(queued) : queued[i] = Len(started) + i
    BY <1>2 DEF HookInv, A!TypeOK, NoneMissing
  <2>2. /\ started \o queued \in Seq(A!Documents) /\ Len(started \o queued) = installs
        /\ \A i \in 1..installs : (started \o queued)[i] = i
    BY <2>1
  <2>3. installs \in Nat
    BY DEF HookInv, A!TypeOK
  <2> QED BY <2>2, <2>3, Counting
<1>3. policy = "latest" =>
        /\ queued # <<>> => queued = <<installs>>
        /\ \A d \in active : d \in aborted <=> queued # <<>>
  BY DEF HookInv, NewestWaits
<1> QED BY <1>2, <1>1, <1>3 DEF A!OnlyOvertakenAreDropped

-----------------------------------------------------------------------------
(* Watcher. *)

(* Whoever owns a watcher is still there to stop it: a block in its body    *)
(* covers it, a signal listens for it.  A block that threw owns nothing if *)
(* it could only throw before its first watcher.                           *)
OwnersStop ==
  \A m \in {m1, m2} : watching[m] # W!None =>
    /\ watching[m] \in Lifetimes /\ lifetime[watching[m]] \in {"on", "threw"}
    /\ IF watching[m] \in {block, groupBlock}
         THEN /\ lifetime[watching[m]] = "on" => m \in W!Over(watching[m])
              /\ W!FirstsFail => lifetime[watching[m]] = "on"
         ELSE m \in listens[watching[m]]

WatcherInv == W!TypeOK /\ OwnersStop

LEMMA Coverage ==
  ASSUME NEW l \in Lifetimes
  PROVE  /\ Covers[l] \in Seq({m1, m2})
         /\ \A n \in 1..Len(Covers[l]) : W!First(l, n) \subseteq W!Over(l)
         /\ W!First(l, Len(Covers[l])) = W!Over(l) /\ W!Over(l) \subseteq {m1, m2}
<1>1. Covers[l] = <<m1>> \/ Covers[l] = <<m2, m1>> \/ Covers[l] = <<m1, m2>>
  BY DEF Covers
<1>2. Covers[l] \in Seq({m1, m2})
  <2>1. {<<m1>>, <<m2, m1>>, <<m1, m2>>} \subseteq Seq({m1, m2})
    OBVIOUS
  <2> QED BY <1>1, <2>1
<1>3. DOMAIN Covers[l] = 1..Len(Covers[l]) /\ \A i \in DOMAIN Covers[l] : Covers[l][i] \in {m1, m2}
  BY <1>2
<1> QED BY <1>2, <1>3 DEF W!First, W!Over

(***************************************************************************)
(* A lifetime that ends takes along what it still owns.                    *)
(***************************************************************************)
LEMMA NextWatcher ==
  ASSUME WatcherInv, [W!Next]_watcherVars
  PROVE  WatcherInv'
<1> USE DEF WatcherInv, W!TypeOK
<1>1. ASSUME NEW l \in Lifetimes, NEW n \in 0..Len(Covers[l]), lifetime[l] = "ready",
             W!Started(l, n),
             \/ lifetime' = [lifetime EXCEPT ![l] = "on"]
             \/ /\ lifetime' = [lifetime EXCEPT ![l] = "threw"]
                /\ l \in {block, groupBlock} /\ W!FirstsFail => n = 0
      PROVE  WatcherInv'
  <2>1. W!First(l, n) \subseteq W!Over(l) /\ W!Over(l) \subseteq {m1, m2}
    BY Coverage DEF W!First, W!Over
  <2>2. /\ watching' = [m \in {m1, m2} |-> IF m \in W!First(l, n) THEN l ELSE watching[m]]
        /\ listens' = [listens EXCEPT ![l] = IF l \in {block, groupBlock} THEN {}
                                             ELSE W!First(l, n)]
        /\ reached' = [reached EXCEPT ![l] = W!First(l, n)]
    BY <1>1 DEF W!Started, W!Given
  <2>3. W!TypeOK'
    <3>1. watching' \in [{m1, m2} -> Lifetimes \cup {W!None}]
      BY <2>2
    <3>2. /\ {listens', reached'} \subseteq [Lifetimes -> SUBSET {m1, m2}]
          /\ lifetime' \in [Lifetimes -> {"ready", "on", "threw", "over"}]
      BY <1>1, <2>1, <2>2
    <3>3. \A k \in Lifetimes : listens'[k] \subseteq reached'[k] /\ reached'[k] \subseteq W!Over(k)'
      <4>1. \A k \in Lifetimes : W!Over(k)' = W!Over(k)
        BY DEF W!Over
      <4>2. listens'[l] \subseteq reached'[l] /\ reached'[l] \subseteq W!Over(l)
        BY <2>1, <2>2
      <4>3. \A k \in Lifetimes \ {l} : listens'[k] = listens[k] /\ reached'[k] = reached[k]
        BY <2>2
      <4> QED BY <4>1, <4>2, <4>3
    <3> QED BY <3>1, <3>2, <3>3
  <2>4. \A m \in {m1, m2} : watching[m] # W!None => watching[m] # l
    BY <1>1 DEF OwnersStop
  <2>5. ASSUME NEW m \in {m1, m2}, watching'[m] # W!None
        PROVE  /\ watching'[m] \in Lifetimes /\ lifetime'[watching'[m]] \in {"on", "threw"}
               /\ IF watching'[m] \in {block, groupBlock}
                    THEN /\ lifetime'[watching'[m]] = "on" => m \in W!Over(watching'[m])
                         /\ W!FirstsFail => lifetime'[watching'[m]] = "on"
                    ELSE m \in listens'[watching'[m]]
    <3>1. CASE m \in W!First(l, n)
      <4>1. watching'[m] = l
        BY <2>2, <3>1
      <4>2. lifetime'[l] \in {"on", "threw"} /\ m \in W!Over(l)
        BY <1>1, <2>1, <3>1
      <4>3. l \notin {block, groupBlock} => m \in listens'[l]
        BY <2>2, <3>1
      <4>4. l \in {block, groupBlock} /\ W!FirstsFail => lifetime'[l] = "on"
        <5>1. n # 0
          BY <3>1 DEF W!First
        <5> QED BY <1>1, <5>1
      <4> QED BY <4>1, <4>2, <4>3, <4>4
    <3>2. CASE m \notin W!First(l, n)
      <4>1. watching'[m] = watching[m] /\ watching[m] # l /\ watching[m] \in Lifetimes
        BY <2>2, <2>4, <2>5, <3>2
      <4>2. /\ lifetime'[watching[m]] = lifetime[watching[m]]
            /\ listens'[watching[m]] = listens[watching[m]]
        BY <1>1, <2>2, <4>1
      <4> QED BY <2>5, <4>1, <4>2 DEF OwnersStop
    <3> QED BY <3>1, <3>2
  <2>6. OwnersStop'
    BY <2>5 DEF OwnersStop, W!Over, W!FirstsFail
  <2> QED BY <2>3, <2>6
<1>2. ASSUME NEW l \in Lifetimes, NEW gone \in SUBSET {m1, m2},
             watching' = W!Given(watching, gone, W!None),
             lifetime' = [lifetime EXCEPT ![l] = "over"],
             listens' = listens \/ listens' = [listens EXCEPT ![l] = {}],
             \A m \in {m1, m2} : watching[m] = l /\ l # W!None => m \in gone
      PROVE  OwnersStop'
  <2>1. watching' = [m \in {m1, m2} |-> IF m \in gone THEN W!None ELSE watching[m]]
    BY <1>2 DEF W!Given
  <2>2. \A m \in {m1, m2} : watching'[m] # W!None =>
          watching'[m] = watching[m] /\ watching[m] # l
    BY <1>2, <2>1
  <2> QED BY <1>2, <2>2 DEF OwnersStop, W!Over, W!FirstsFail
<1>3. ASSUME NEW l \in Lifetimes, W!Begin(l) PROVE WatcherInv'
  <2>1. Len(Covers[l]) \in 0..Len(Covers[l])
    BY Coverage
  <2>2. /\ lifetime[l] = "ready" /\ W!Started(l, Len(Covers[l]))
        /\ lifetime' = [lifetime EXCEPT ![l] = "on"]
    BY <1>3 DEF W!Begin
  <2> QED BY <1>1, <2>1, <2>2
<1>4. ASSUME NEW l \in Lifetimes, W!BeginFails(l) PROVE WatcherInv'
  <2>1. PICK n \in DOMAIN Covers[l] : Covers[l][n] \in Failing /\ W!Started(l, n - 1)
    BY <1>4 DEF W!BeginFails
  <2>2. n - 1 \in 0..Len(Covers[l])
    BY Coverage
  <2>3. lifetime[l] = "ready" /\ lifetime' = [lifetime EXCEPT ![l] = "threw"]
    BY <1>4 DEF W!BeginFails
  <2>4. l \in {block, groupBlock} /\ W!FirstsFail => n - 1 = 0
    BY <2>1, <2>2, Coverage DEF W!FirstsFail
  <2> QED BY <1>1, <2>1, <2>2, <2>3, <2>4
<1>5. ASSUME NEW l \in Lifetimes, W!BeginAborted(l) PROVE WatcherInv'
  <2>1. W!TypeOK'
    BY <1>5, Coverage DEF W!BeginAborted, W!Given, W!Over
  <2>2. \A m \in {m1, m2} : watching[m] = l /\ l # W!None => m \in W!Over(l)
    BY <1>5 DEF W!BeginAborted, OwnersStop
  <2> QED BY <1>2, <1>5, <2>1, <2>2, Coverage DEF W!BeginAborted
<1>6. ASSUME NEW l \in Lifetimes, W!BodyEnds(l) PROVE WatcherInv'
  <2>1. W!TypeOK'
    BY <1>6, Coverage DEF W!BodyEnds, W!Given, W!Over
  <2>2. \A m \in {m1, m2} : watching[m] = l /\ l # W!None => m \in W!Over(l)
    BY <1>6 DEF W!BodyEnds, OwnersStop
  <2> QED BY <1>2, <1>6, <2>1, <2>2, Coverage DEF W!BodyEnds
<1>7. ASSUME NEW l \in Lifetimes, W!Abort(l) PROVE WatcherInv'
  <2>1. W!TypeOK'
    BY <1>7, Coverage DEF W!Abort, W!Given, W!Over
  <2>2. \A m \in {m1, m2} : watching[m] = l /\ l # W!None => m \in listens[l]
    BY <1>7 DEF W!Abort, OwnersStop
  <2>3. /\ listens[l] \in SUBSET {m1, m2} /\ watching' = W!Given(watching, listens[l], W!None)
        /\ lifetime' = [lifetime EXCEPT ![l] = "over"]
        /\ listens' = [listens EXCEPT ![l] = {}]
    BY <1>7 DEF W!Abort
  <2>4. OwnersStop'
    BY ONLY <1>2, <2>2, <2>3, l \in Lifetimes
  <2> QED BY <2>1, <2>4
<1>8. ASSUME NEW m \in {m1, m2}, W!StopWatching(m) PROVE WatcherInv'
  BY <1>8 DEF W!StopWatching, OwnersStop, W!Over, W!FirstsFail
<1>9. CASE UNCHANGED watcherVars
  BY <1>9 DEF watcherVars, OwnersStop, W!Over, W!FirstsFail
<1> QED BY <1>3, <1>4, <1>5, <1>6, <1>7, <1>8, <1>9 DEF W!Next

-----------------------------------------------------------------------------
(* Remote. *)

Async(d) == d.store \in DOMAIN stores /\ stores[d.store] = "async"
Answered(c) == call[c].at = "answered"

(* Whatever names a store names one that was installed, of the right kind,  *)
(* and what waits in a store is the store's.                               *)
Installed ==
  /\ stores # <<>> => source \in DOMAIN stores
  /\ awaited # R!None => awaited \in DOMAIN stores /\ stores[awaited] = "async"
  /\ \A s \in R!Stores : slot[s] # R!NoDoc => s \in DOMAIN stores /\ slot[s].store = s

Known(c) ==
  /\ call[c].at # "ready" => stores # <<>>
  /\ call[c].at = "store" =>
       call[c].store \in DOMAIN stores /\ stores[call[c].store] = "use"
  /\ call[c].at = "fetch" =>
       call[c].store \in DOMAIN stores /\ stores[call[c].store] = "async"
  /\ call[c].at = "asked" => call[c].through \in DOMAIN stores
  /\ Answered(c) => call[c].doc.store \in DOMAIN stores

Filled == \A i \in DOMAIN fills : fills[i].store \in DOMAIN stores

(* An async document is in one place: its store, a refresh that was         *)
(* answered, or the layer's history.                                       *)
InOnePlace ==
  /\ \A s \in R!Stores : Async(slot[s]) =>
       /\ \A c \in Refreshes : Answered(c) => call[c].doc # slot[s]
       /\ \A i \in DOMAIN fills : fills[i] # slot[s]
  /\ \A c \in Refreshes : Answered(c) /\ Async(call[c].doc) =>
       /\ \A k \in Refreshes : k # c /\ Answered(k) => call[k].doc # call[c].doc
       /\ \A i \in DOMAIN fills : fills[i] # call[c].doc
  /\ \A i, j \in DOMAIN fills : i # j /\ Async(fills[i]) => fills[i] # fills[j]

(* And nowhere before its fetch came back. *)
NotYet(c) ==
  /\ \A s \in R!Stores : Async(slot[s]) => slot[s].fetch # c
  /\ \A k \in Refreshes : Answered(k) /\ Async(call[k].doc) => call[k].doc.fetch # c
  /\ \A i \in DOMAIN fills : Async(fills[i]) => fills[i].fetch # c

Before(c) == call[c].at \in {"ready", "store", "fetch"}

RemoteInv ==
  /\ R!TypeOK /\ Installed /\ Filled /\ InOnePlace
  /\ \A c \in Refreshes : Known(c) /\ (Before(c) => NotYet(c))

Records == [at : R!Where, store : R!Stores \cup {R!None},
            through : R!Stores \cup {R!None}, doc : R!Docs \cup {R!NoDoc}]

(***************************************************************************)
(* A step of a refresh that is not answered moves no async document.       *)
(***************************************************************************)
LEMMA Moves ==
  ASSUME RemoteInv, NEW c \in Refreshes, NEW r \in Records,
         call' = [call EXCEPT ![c] = r], UNCHANGED <<stores, fills>>,
         \A s \in R!Stores : Async(slot[s])' => slot'[s] = slot[s],
         r.at # "answered", r.at \in {"ready", "store", "fetch"} => Before(c)
  PROVE  /\ call' \in [Refreshes -> Records]
         /\ InOnePlace' /\ \A k \in Refreshes : Before(k)' => NotYet(k)'
         /\ \A k \in Refreshes \ {c} : Known(k)'
<1> USE DEF Async, Answered, Before
<1>1. call \in [Refreshes -> Records]
  BY DEF RemoteInv, R!TypeOK, Records
<1>2. /\ call'[c] = r /\ \A k \in Refreshes \ {c} : call'[k] = call[k]
      /\ call' \in [Refreshes -> Records]
  BY <1>1
<1>3. \A k \in Refreshes : Answered(k)' => Answered(k) /\ call'[k] = call[k]
  BY <1>2
<1>4. \A k \in Refreshes : Before(k)' => Before(k)
  BY <1>2
<1>5. InOnePlace'
  BY <1>3 DEF RemoteInv, InOnePlace
<1>6. \A k \in Refreshes : NotYet(k) => NotYet(k)'
  BY <1>3 DEF NotYet
<1>7. \A k \in Refreshes \ {c} : Known(k)'
  BY <1>2 DEF RemoteInv, Known
<1> QED BY <1>2, <1>4, <1>5, <1>6, <1>7 DEF RemoteInv

LEMMA InitRemote ==
  ASSUME MaxStores \in Nat \ {0}, R!Init
  PROVE  RemoteInv
<1>1. R!TypeOK
  <2>1. stores \in Seq({"async", "use"}) /\ Len(stores) <= MaxStores /\ fills \in Seq(R!Docs)
    BY DEF R!Init
  <2>2. /\ slot \in [R!Stores -> R!Docs \cup {R!NoDoc}] /\ layer \in R!Docs \cup {R!NoDoc}
        /\ awaited \in R!Stores \cup {R!None} /\ source \in R!Stores \cup {R!None}
    BY DEF R!Init
  <2>3. call \in [Refreshes -> Records]
    BY DEF R!Init, Records, R!Where
  <2> QED BY <2>1, <2>2, <2>3 DEF R!TypeOK, Records
<1>2. /\ stores = <<>> /\ DOMAIN stores = {} /\ awaited = R!None
      /\ fills = <<>> /\ DOMAIN fills = {}
      /\ \A s \in R!Stores : slot[s] = R!NoDoc
      /\ \A c \in Refreshes : call[c].at = "ready"
  BY DEF R!Init
<1>3. Installed /\ Filled /\ \A c \in Refreshes : Known(c)
  BY <1>2 DEF Installed, Filled, Known, Answered
<1>4. InOnePlace /\ \A c \in Refreshes : NotYet(c)
  BY <1>2 DEF InOnePlace, NotYet, Async, Answered
<1> QED BY <1>1, <1>3, <1>4 DEF RemoteInv

(***************************************************************************)
(* Another store is installed: the documents there are stay whose they     *)
(* were, and a store that fetched before it was installed is not async.    *)
(***************************************************************************)
LEMMA Installs ==
  ASSUME MaxStores \in Nat \ {0}, RemoteInv, R!SetRemoteAsync \/ R!UseStore
  PROVE  RemoteInv'
<1> DEFINE n == Len(stores) + 1
<1> USE DEF RemoteInv
<1>1. PICK kind \in {"async", "use"} :
        /\ stores' = Append(stores, kind) /\ source' = n /\ UNCHANGED <<layer, call, fills>>
        /\ awaited' = IF kind = "async" THEN n ELSE R!None
        /\ slot' = IF kind = "async" THEN slot
                   ELSE [slot EXCEPT ![n] = [store |-> n, fetch |-> "first"]]
  BY DEF R!SetRemoteAsync, R!UseStore, R!NewStore
<1>2. stores \in Seq({"async", "use"}) /\ n \in R!Stores
  BY DEF R!SetRemoteAsync, R!UseStore, R!TypeOK, R!Stores
<1>3. /\ stores' \in Seq({"async", "use"}) /\ Len(stores') = n /\ n \in DOMAIN stores'
      /\ stores' # <<>> /\ n \notin DOMAIN stores /\ stores'[n] = kind
      /\ DOMAIN stores' = DOMAIN stores \cup {n}
      /\ \A s \in DOMAIN stores : stores'[s] = stores[s]
  BY <1>1, <1>2
<1>4. R!TypeOK'
  <2>1. [store |-> n, fetch |-> "first"] \in R!Docs
    BY <1>2 DEF R!Docs
  <2>2. slot' \in [R!Stores -> R!Docs \cup {R!NoDoc}]
    BY <1>1, <1>2, <2>1 DEF R!TypeOK
  <2>3. Len(stores') <= MaxStores
    BY <1>2, <1>3 DEF R!Stores
  <2> QED BY <1>1, <1>2, <1>3, <2>2, <2>3 DEF R!TypeOK
<1>5. \A s \in R!Stores : slot'[s] = slot[s] \/ (s = n /\ kind = "use" /\ slot'[s].store = n)
  BY <1>1, <1>2 DEF R!TypeOK
<1>6. Installed'
  BY <1>1, <1>2, <1>3, <1>5 DEF Installed
<1>7. Filled' /\ \A c \in Refreshes : Known(c)'
  BY <1>1, <1>2, <1>3 DEF Filled, Known, Answered
<1>8. \A s \in R!Stores : Async(slot[s])' => slot'[s] = slot[s] /\ Async(slot[s])
  <2> SUFFICES ASSUME NEW s \in R!Stores, Async(slot[s])'
               PROVE  slot'[s] = slot[s] /\ Async(slot[s])
    OBVIOUS
  <2>1. slot'[s] = slot[s]
    BY <1>3, <1>5 DEF Async
  <2>2. slot[s] # R!NoDoc
    BY <1>3, <2>1, <1>2 DEF Async, R!NoDoc, R!None
  <2> QED BY <1>3, <2>1, <2>2 DEF Async, Installed
<1>9. /\ \A c \in Refreshes : Answered(c) /\ Async(call[c].doc)' => Async(call[c].doc)
      /\ \A i \in DOMAIN fills : Async(fills[i])' => Async(fills[i])
  BY <1>1, <1>3 DEF Async, Filled, Known
<1>10. InOnePlace'
  BY <1>1, <1>8, <1>9 DEF InOnePlace, Answered
<1>11. \A c \in Refreshes : NotYet(c) => NotYet(c)'
  BY <1>1, <1>8, <1>9 DEF NotYet, Answered
<1> QED BY <1>1, <1>4, <1>6, <1>7, <1>10, <1>11 DEF Before

(***************************************************************************)
(* The store a refresh is sent to next: the async one in force, or none.   *)
(***************************************************************************)
LEMMA Sends ==
  ASSUME RemoteInv, NEW c \in Refreshes, stores # <<>>, Before(c),
         call' = R!Awaiting(c)
  PROVE  \E r \in Records :
           /\ call' = [call EXCEPT ![c] = r] /\ r.at \in {"fetch", "enter"}
           /\ r.at = "fetch" => r.store = awaited /\ awaited # R!None
<1>1. call[c] \in Records /\ awaited \in R!Stores \cup {R!None}
  BY DEF RemoteInv, R!TypeOK, Records
<1>2. CASE awaited # R!None
  <2> DEFINE r == [call[c] EXCEPT !.at = "fetch", !.store = awaited]
  <2>1. r \in Records /\ r.at = "fetch" /\ r.store = awaited
    BY <1>1 DEF Records, R!Where
  <2>2. call' = [call EXCEPT ![c] = r]
    BY <1>2 DEF R!Awaiting
  <2> QED BY <1>2, <2>1, <2>2
<1>3. CASE awaited = R!None
  <2> DEFINE r == [call[c] EXCEPT !.at = "enter"]
  <2>1. r \in Records /\ r.at = "enter"
    BY <1>1 DEF Records, R!Where
  <2>2. call' = [call EXCEPT ![c] = r]
    BY <1>3 DEF R!Awaiting
  <2> QED BY <2>1, <2>2
<1> QED BY <1>2, <1>3

(***************************************************************************)
(* The steps of a refresh that write no slot.                              *)
(***************************************************************************)
LEMMA Walks ==
  ASSUME RemoteInv, NEW c \in Refreshes,
         \/ R!Refresh(c) \/ R!FetchRejects(c) \/ R!Enter(c)
         \/ R!NothingWaits(c) \/ R!Dropped(c)
         \/ \E s \in R!Stores : R!HandleRefresh(c, s)
  PROVE  RemoteInv'
<1>0. /\ UNCHANGED <<stores, awaited, source, slot, layer, fills>>
      /\ call[c] \in Records /\ Known(c) /\ Installed
  BY DEF R!Refresh, R!FetchRejects, R!Enter, R!NothingWaits, R!Dropped, R!HandleRefresh,
         RemoteInv, R!TypeOK, Records
<1>1. \E r \in Records :
        /\ call' = [call EXCEPT ![c] = r]
        /\ r.at # "answered" /\ (r.at \in {"ready", "store", "fetch"} => Before(c))
        /\ r.at # "ready" => stores # <<>>
        /\ r.at = "store" => r.store \in DOMAIN stores /\ stores[r.store] = "use"
        /\ r.at = "fetch" => r.store \in DOMAIN stores /\ stores[r.store] = "async"
        /\ r.at = "asked" => r.through \in DOMAIN stores
  <2>1. CASE R!Refresh(c)
    BY <1>0, <2>1, Sends DEF R!Refresh, R!Begins, Before, Installed
  <2>2. CASE R!FetchRejects(c)
    <3> DEFINE r == [call[c] EXCEPT !.at = "rejected"]
    <3>1. r \in Records /\ r.at = "rejected" /\ call' = [call EXCEPT ![c] = r]
      BY <1>0, <2>2 DEF R!FetchRejects, R!Goto, Records, R!Where
    <3> QED BY <1>0, <2>2, <3>1 DEF Known, R!FetchRejects
  <2>3. CASE R!Enter(c)
    <3> DEFINE r == [call[c] EXCEPT !.at = "asked", !.through = source]
    <3>1. /\ r \in Records /\ r.at = "asked" /\ r.through = source
          /\ call' = [call EXCEPT ![c] = r]
      BY <1>0, <2>3 DEF R!Enter, Records, R!Where, RemoteInv, R!TypeOK
    <3>2. stores # <<>> /\ source \in DOMAIN stores
      BY <1>0, <2>3 DEF Known, Installed, R!Enter
    <3> HIDE DEF r
    <3> QED BY <3>1, <3>2
  <2>4. CASE R!NothingWaits(c)
    <3> DEFINE r == [call[c] EXCEPT !.at = "failed"]
    <3>1. r \in Records /\ r.at = "failed" /\ call' = [call EXCEPT ![c] = r]
      BY <1>0, <2>4 DEF R!NothingWaits, R!Goto, Records, R!Where
    <3> QED BY <1>0, <2>4, <3>1 DEF Known, R!NothingWaits
  <2>5. CASE \E s \in R!Stores : R!HandleRefresh(c, s)
    <3>1. PICK s \in R!Stores : R!HandleRefresh(c, s)
      BY <2>5
    <3> DEFINE r == [call[c] EXCEPT !.at = "store", !.store = s]
    <3>2. /\ r \in Records /\ r.at = "store" /\ r.store = s /\ Before(c)
          /\ call' = [call EXCEPT ![c] = r] /\ s \in DOMAIN stores /\ stores[s] = "use"
      BY <1>0, <3>1 DEF R!HandleRefresh, R!Begins, Records, R!Where, Before
    <3>3. stores # <<>>
      BY <3>2
    <3> QED BY <3>2, <3>3
  <2>6. CASE R!Dropped(c)
    <3> DEFINE r == [call[c] EXCEPT !.at = "rejected"]
    <3>1. r \in Records /\ r.at = "rejected" /\ call' = [call EXCEPT ![c] = r]
      BY <1>0, <2>6 DEF R!Dropped, R!Goto, Records, R!Where
    <3> QED BY <1>0, <2>6, <3>1 DEF Known, R!Dropped, Answered
  <2> QED BY <2>1, <2>2, <2>3, <2>4, <2>5, <2>6
<1>2. PICK r \in Records :
        /\ call' = [call EXCEPT ![c] = r]
        /\ r.at # "answered" /\ (r.at \in {"ready", "store", "fetch"} => Before(c))
        /\ r.at # "ready" => stores # <<>>
        /\ r.at = "store" => r.store \in DOMAIN stores /\ stores[r.store] = "use"
        /\ r.at = "fetch" => r.store \in DOMAIN stores /\ stores[r.store] = "async"
        /\ r.at = "asked" => r.through \in DOMAIN stores
  BY <1>1
<1>3. /\ call' \in [Refreshes -> Records]
      /\ InOnePlace' /\ \A k \in Refreshes : Before(k)' => NotYet(k)'
      /\ \A k \in Refreshes \ {c} : Known(k)'
  BY <1>0, <1>2, Moves
<1>4. call'[c] = r
  BY <1>2 DEF RemoteInv, R!TypeOK
<1>5. Known(c)'
  BY <1>0, <1>2, <1>4 DEF Known, Answered
<1>6. R!TypeOK' /\ Installed' /\ Filled'
  BY <1>0, <1>3 DEF RemoteInv, R!TypeOK, Records, Installed, Filled
<1> QED BY <1>3, <1>5, <1>6 DEF RemoteInv

LEMMA StoreFetches ==
  ASSUME RemoteInv, NEW c \in Refreshes, R!StoreFetched(c)
  PROVE  RemoteInv'
<1> DEFINE s == call[c].store  d == [store |-> s, fetch |-> c]
<1>1. /\ s \in DOMAIN stores /\ stores[s] = "use" /\ s \in R!Stores /\ stores # <<>>
      /\ d \in R!Docs /\ Before(c) /\ Installed
      /\ slot' = [slot EXCEPT ![s] = d] /\ UNCHANGED <<stores, awaited, source, layer, fills>>
  <2>1. call[c].at = "store"
    BY DEF R!StoreFetched
  <2>2. s \in DOMAIN stores /\ stores[s] = "use" /\ stores # <<>>
    BY <2>1 DEF RemoteInv, Known
  <2>3. s \in R!Stores
    BY <2>2, ProgramAssumption DEF RemoteInv, R!TypeOK, R!Stores
  <2> QED BY <2>1, <2>2, <2>3 DEF R!StoreFetched, R!Docs, Before, RemoteInv
<1>2. PICK r \in Records :
        /\ call' = [call EXCEPT ![c] = r] /\ r.at \in {"fetch", "enter"}
        /\ r.at = "fetch" => r.store = awaited /\ awaited # R!None
  BY <1>1, Sends DEF R!StoreFetched
<1> HIDE DEF d
<1>3. \A k \in R!Stores : slot'[k] = IF k = s THEN d ELSE slot[k]
  BY <1>1 DEF RemoteInv, R!TypeOK
<1>4. \A k \in R!Stores : Async(slot[k])' => slot'[k] = slot[k]
  BY <1>1, <1>3 DEF Async, d
<1>5. /\ call' \in [Refreshes -> Records]
      /\ InOnePlace' /\ \A k \in Refreshes : Before(k)' => NotYet(k)'
      /\ \A k \in Refreshes \ {c} : Known(k)'
  BY <1>1, <1>2, <1>4, Moves
<1>6. call'[c] = r
  BY <1>2 DEF RemoteInv, R!TypeOK
<1>7. Known(c)'
  BY <1>1, <1>2, <1>6 DEF Known, Answered, Installed
<1>8. Installed' /\ Filled'
  BY <1>1, <1>3 DEF RemoteInv, Installed, Filled, d
<1>9. slot' \in [R!Stores -> R!Docs \cup {R!NoDoc}]
  BY <1>1 DEF RemoteInv, R!TypeOK
<1>10. R!TypeOK'
  BY <1>1, <1>5, <1>9 DEF RemoteInv, R!TypeOK, Records
<1> QED BY <1>5, <1>7, <1>8, <1>10 DEF RemoteInv

(***************************************************************************)
(* A fetch that came back is the first to leave its document anywhere.     *)
(***************************************************************************)
LEMMA Fetches ==
  ASSUME RemoteInv, NEW c \in Refreshes, R!Fetched(c)
  PROVE  RemoteInv'
<1> DEFINE s == call[c].store  d == [store |-> s, fetch |-> c]
           r == [call[c] EXCEPT !.at = "enter"]
<1>1. /\ s \in DOMAIN stores /\ s \in R!Stores /\ stores # <<>>
      /\ d \in R!Docs /\ d.fetch = c /\ d.store = s /\ NotYet(c)
      /\ slot' = [slot EXCEPT ![s] = d] /\ call' = [call EXCEPT ![c] = r]
      /\ UNCHANGED <<stores, awaited, source, layer, fills>>
  <2>1. call[c].at = "fetch"
    BY DEF R!Fetched
  <2>2. s \in DOMAIN stores /\ stores # <<>> /\ NotYet(c)
    BY <2>1 DEF RemoteInv, Known, Before
  <2>3. s \in R!Stores
    BY <2>2, ProgramAssumption DEF RemoteInv, R!TypeOK, R!Stores
  <2> QED BY <2>1, <2>2, <2>3 DEF R!Fetched, R!Goto, R!Docs
<1>2. r \in Records /\ r.at = "enter" /\ call \in [Refreshes -> Records]
  BY DEF RemoteInv, R!TypeOK, Records, R!Where
<1> HIDE DEF d, r
<1>3. \A k \in R!Stores : slot'[k] = IF k = s THEN d ELSE slot[k]
  BY <1>1 DEF RemoteInv, R!TypeOK
<1>4. /\ \A k \in Refreshes : call'[k] = IF k = c THEN r ELSE call[k]
      /\ call' \in [Refreshes -> Records]
  BY <1>1, <1>2
<1>5. /\ \A k \in Refreshes : Answered(k)' => Answered(k) /\ call'[k] = call[k]
      /\ \A k \in Refreshes : Before(k)' => Before(k) /\ k # c
  BY <1>2, <1>4 DEF Answered, Before
<1>6. \A k \in R!Stores : Async(slot[k])' =>
        slot'[k] = d \/ (slot'[k] = slot[k] /\ Async(slot[k]))
  BY <1>1, <1>3 DEF Async
<1>7. InOnePlace'
  <2>1. ASSUME NEW k \in R!Stores, Async(slot[k])'
        PROVE  /\ \A i \in Refreshes : Answered(i)' => call'[i].doc # slot'[k]
               /\ \A i \in DOMAIN fills : fills[i] # slot'[k]
    <3>1. CASE slot'[k] = d
      <4>1. Async(d)
        BY <1>1, <2>1, <3>1 DEF Async
      <4> QED BY <1>1, <1>5, <3>1, <4>1 DEF NotYet
    <3>2. CASE slot'[k] = slot[k] /\ Async(slot[k])
      BY <1>5, <3>2 DEF RemoteInv, InOnePlace
    <3> QED BY <1>6, <2>1, <3>1, <3>2
  <2>2. ASSUME NEW k \in Refreshes, Answered(k)', Async(call[k].doc)'
        PROVE  /\ \A i \in Refreshes : i # k /\ Answered(i)' => call'[i].doc # call'[k].doc
               /\ \A i \in DOMAIN fills : fills[i] # call'[k].doc
    BY <1>1, <1>5, <2>2 DEF RemoteInv, InOnePlace, Async
  <2>3. \A i, j \in DOMAIN fills : i # j /\ Async(fills[i])' => fills[i] # fills[j]
    BY <1>1 DEF RemoteInv, InOnePlace, Async
  <2>4. fills' = fills
    BY <1>1
  <2> QED BY <2>1, <2>2, <2>3, <2>4 DEF InOnePlace
<1>8. ASSUME NEW k \in Refreshes, Before(k)' PROVE NotYet(k)'
  <2>1. NotYet(k) /\ k # c
    BY <1>5, <1>8 DEF RemoteInv
  <2> QED BY <1>1, <1>5, <1>6, <2>1 DEF NotYet, Async
<1>9. Installed' /\ Filled' /\ \A k \in Refreshes : Known(k)'
  BY <1>1, <1>2, <1>3, <1>4 DEF RemoteInv, Installed, Filled, Known, Answered
<1>10. slot' \in [R!Stores -> R!Docs \cup {R!NoDoc}]
  BY <1>1 DEF RemoteInv, R!TypeOK
<1>11. R!TypeOK'
  BY <1>1, <1>4, <1>10 DEF RemoteInv, R!TypeOK, Records
<1> QED BY <1>7, <1>8, <1>9, <1>11 DEF RemoteInv

(***************************************************************************)
(* What is answered is the document of a store in force, and leaves it     *)
(* when it is async.                                                       *)
(***************************************************************************)
LEMMA Answers ==
  ASSUME RemoteInv, NEW c \in Refreshes, R!Answer(c)
  PROVE  RemoteInv' /\ call'[c].doc.store \in {awaited, call[c].through}
<1> DEFINE d == R!Handed(c)  r == [call[c] EXCEPT !.at = "answered", !.doc = d]
<1>0. /\ call[c].at = "asked" /\ d # R!NoDoc /\ call' = [call EXCEPT ![c] = r]
      /\ UNCHANGED <<stores, awaited, source, layer, fills>>
      /\ call[c].through \in DOMAIN stores /\ call[c].through \in R!Stores /\ stores # <<>>
  <2>1. call[c].at = "asked"
    BY DEF R!Answer
  <2>2. call[c].through \in DOMAIN stores /\ stores # <<>>
    BY <2>1 DEF RemoteInv, Known
  <2>3. call[c].through \in R!Stores
    BY <2>2, ProgramAssumption DEF RemoteInv, R!TypeOK, R!Stores
  <2> QED BY <2>1, <2>2, <2>3 DEF R!Answer
<1>1. PICK s \in R!Stores :
        /\ s \in {awaited, call[c].through} /\ s \in DOMAIN stores /\ d = slot[s] /\ d.store = s
        /\ \A k \in R!Stores : Async(slot[k])' => slot'[k] = slot[k] /\ slot[k] # d
        /\ \A k \in R!Stores : slot'[k] \in {slot[k], R!NoDoc}
        /\ slot' \in [R!Stores -> R!Docs \cup {R!NoDoc}]
  <2>1. CASE stores[call[c].through] = "use"
    <3>1. d = slot[call[c].through] /\ slot' = slot
      BY <2>1 DEF R!Handed, R!Answer
    <3>2. d.store = call[c].through
      BY <1>0, <3>1 DEF RemoteInv, Installed
    <3>3. \A k \in R!Stores : slot[k] = d => ~Async(slot[k])'
      BY <1>0, <2>1, <3>1, <3>2 DEF Async
    <3>4. slot' \in [R!Stores -> R!Docs \cup {R!NoDoc}]
      BY <3>1 DEF RemoteInv, R!TypeOK
    <3>5. \A k \in R!Stores : Async(slot[k])' => slot'[k] = slot[k] /\ slot[k] # d
      BY <3>1, <3>3
    <3> QED BY <1>0, <3>1, <3>2, <3>4, <3>5
  <2>2. CASE stores[call[c].through] # "use"
    <3>1. awaited # R!None /\ d = slot[awaited] /\ slot' = [slot EXCEPT ![awaited] = R!NoDoc]
      BY <1>0, <2>2 DEF R!Handed, R!Answer
    <3>2. awaited \in R!Stores /\ slot \in [R!Stores -> R!Docs \cup {R!NoDoc}]
      BY <3>1 DEF RemoteInv, R!TypeOK
    <3>3. awaited \in DOMAIN stores /\ d.store = awaited
      BY <1>0, <3>1, <3>2 DEF RemoteInv, Installed
    <3>4. \A k \in R!Stores : slot'[k] = IF k = awaited THEN R!NoDoc ELSE slot[k]
      BY <3>1, <3>2
    <3>5. R!NoDoc.store \notin DOMAIN stores
      BY DEF R!NoDoc, R!None, RemoteInv, R!TypeOK
    <3>6. \A k \in R!Stores : slot[k] = d => k = awaited
      BY <1>0, <3>3 DEF RemoteInv, Installed
    <3>7. slot' \in [R!Stores -> R!Docs \cup {R!NoDoc}]
      BY <3>1, <3>2
    <3>8. \A k \in R!Stores : Async(slot[k])' => k # awaited
      BY <1>0, <3>4, <3>5 DEF Async
    <3> QED BY <3>1, <3>2, <3>3, <3>4, <3>6, <3>7, <3>8
  <2> QED BY <2>1, <2>2
<1>2. d \in R!Docs /\ call \in [Refreshes -> Records]
  BY <1>0, <1>1 DEF RemoteInv, R!TypeOK, Records
<1> HIDE DEF d
<1>3. r \in Records /\ r.at = "answered" /\ r.doc = d
  BY <1>2 DEF Records, R!Where
<1> HIDE DEF r
<1>4. /\ \A k \in Refreshes : call'[k] = IF k = c THEN r ELSE call[k]
      /\ call' \in [Refreshes -> Records]
  BY <1>0, <1>2, <1>3
<1>5. /\ \A k \in Refreshes : Answered(k)' => k = c \/ (Answered(k) /\ call'[k] = call[k])
      /\ \A k \in Refreshes : Before(k)' => Before(k)
  BY <1>3, <1>4 DEF Answered, Before
<1>6. \A k \in R!Stores : Async(slot[k])' => slot'[k] = slot[k] /\ Async(slot[k])
  BY <1>0, <1>1 DEF Async
<1>7. call'[c].doc = d
  BY <1>3, <1>4
<1>8. Async(d) => /\ \A k \in Refreshes : Answered(k) => call[k].doc # d
                  /\ \A i \in DOMAIN fills : fills[i] # d
  BY <1>1 DEF RemoteInv, InOnePlace
<1>9. InOnePlace'
  <2>1. ASSUME NEW k \in R!Stores, Async(slot[k])'
        PROVE  /\ \A i \in Refreshes : Answered(i)' => call'[i].doc # slot'[k]
               /\ \A i \in DOMAIN fills : fills[i] # slot'[k]
    <3>1. slot'[k] = slot[k] /\ Async(slot[k]) /\ slot[k] # d
      BY <1>1, <1>6, <2>1
    <3> QED BY <1>5, <1>7, <3>1 DEF RemoteInv, InOnePlace
  <2>2. ASSUME NEW k \in Refreshes, Answered(k)', Async(call[k].doc)'
        PROVE  /\ \A i \in Refreshes : i # k /\ Answered(i)' => call'[i].doc # call'[k].doc
               /\ \A i \in DOMAIN fills : fills[i] # call'[k].doc
    <3>1. CASE k = c
      <4>1. Async(d)
        BY <1>0, <1>7, <2>2, <3>1 DEF Async
      <4> QED BY <1>5, <1>7, <1>8, <3>1, <4>1
    <3>2. CASE k # c
      <4>1. Answered(k) /\ call'[k] = call[k] /\ Async(call[k].doc)
        BY <1>0, <1>5, <2>2, <3>2 DEF Async
      <4>2. call'[c].doc # call[k].doc
        BY <1>7, <1>8, <4>1
      <4> QED BY <1>5, <4>1, <4>2 DEF RemoteInv, InOnePlace
    <3> QED BY <3>1, <3>2
  <2>3. \A i, j \in DOMAIN fills : i # j /\ Async(fills[i])' => fills[i] # fills[j]
    BY <1>0 DEF RemoteInv, InOnePlace, Async
  <2>4. fills' = fills
    BY <1>0
  <2> QED BY <2>1, <2>2, <2>3, <2>4 DEF InOnePlace
<1>10. ASSUME NEW k \in Refreshes, Before(k)' PROVE NotYet(k)'
  <2>1. NotYet(k)
    BY <1>5, <1>10 DEF RemoteInv
  <2>2. Async(d) => d.fetch # k
    BY <1>1, <2>1 DEF NotYet
  <2>3. ASSUME NEW i \in Refreshes, Answered(i)', Async(call[i].doc)'
        PROVE  call'[i].doc.fetch # k
    BY <1>0, <1>5, <1>7, <2>1, <2>2, <2>3 DEF NotYet, Async
  <2> QED BY <1>0, <1>6, <2>1, <2>3 DEF NotYet, Async
<1>11. \A k \in Refreshes : Known(k)'
  BY <1>0, <1>1, <1>3, <1>4 DEF RemoteInv, Known, Answered
<1>12. Installed' /\ Filled'
  BY <1>0, <1>1 DEF RemoteInv, Installed, Filled
<1>13. R!TypeOK'
  BY <1>0, <1>1, <1>4 DEF RemoteInv, R!TypeOK, Records
<1> QED BY <1>1, <1>7, <1>9, <1>10, <1>11, <1>12, <1>13 DEF RemoteInv

(***************************************************************************)
(* An answered document moves into the layer.                              *)
(***************************************************************************)
LEMMA FillsOnce ==
  ASSUME RemoteInv, NEW c \in Refreshes, R!Fill(c)
  PROVE  RemoteInv'
<1> DEFINE d == call[c].doc  r == [call[c] EXCEPT !.at = "done"]
<1>1. /\ Answered(c) /\ d.store \in DOMAIN stores /\ Known(c)
      /\ layer' = d /\ fills' = Append(fills, d) /\ call' = [call EXCEPT ![c] = r]
      /\ UNCHANGED <<stores, awaited, source, slot>>
  BY DEF R!Fill, R!Goto, RemoteInv, Known, Answered
<1>2. /\ r \in Records /\ r.at = "done" /\ call \in [Refreshes -> Records]
      /\ d \in R!Docs \cup {R!NoDoc}
  BY DEF RemoteInv, R!TypeOK, Records, R!Where
<1>3. d \in R!Docs /\ stores # <<>>
  BY <1>1, <1>2 DEF R!NoDoc, R!None, RemoteInv, R!TypeOK
<1> HIDE DEF r
<1>4. /\ \A k \in Refreshes : call'[k] = IF k = c THEN r ELSE call[k]
      /\ call' \in [Refreshes -> Records]
  BY <1>1, <1>2
<1>5. /\ \A k \in Refreshes : Answered(k)' => k # c /\ Answered(k) /\ call'[k] = call[k]
      /\ \A k \in Refreshes : Before(k)' => Before(k)
  BY <1>2, <1>4 DEF Answered, Before
<1>6. /\ fills \in Seq(R!Docs) /\ fills' \in Seq(R!Docs)
      /\ \A i \in DOMAIN fills' : \/ i \in DOMAIN fills /\ fills'[i] = fills[i]
                                  \/ i = Len(fills) + 1 /\ fills'[i] = d
  <2>1. fills \in Seq(R!Docs)
    BY DEF RemoteInv, R!TypeOK
  <2> HIDE DEF d
  <2>2. fills' = Append(fills, d) /\ d \in R!Docs
    BY <1>1, <1>3
  <2> QED BY <2>1, <2>2, Appending
<1> HIDE DEF d
<1>7. Async(d) => /\ \A s \in R!Stores : Async(slot[s]) => slot[s] # d
                  /\ \A k \in Refreshes : k # c /\ Answered(k) => call[k].doc # d
                  /\ \A i \in DOMAIN fills : fills[i] # d
  BY <1>1 DEF RemoteInv, InOnePlace, d
<1>8. \A s \in R!Stores : Async(slot[s])' <=> Async(slot[s])
  BY <1>1 DEF Async
<1>9. InOnePlace'
  <2>1. ASSUME NEW s \in R!Stores, Async(slot[s])'
        PROVE  /\ \A i \in Refreshes : Answered(i)' => call'[i].doc # slot'[s]
               /\ \A i \in DOMAIN fills' : fills'[i] # slot'[s]
    BY <1>1, <1>5, <1>6, <1>7, <1>8, <2>1 DEF RemoteInv, InOnePlace
  <2>2. ASSUME NEW k \in Refreshes, Answered(k)', Async(call[k].doc)'
        PROVE  /\ \A i \in Refreshes : i # k /\ Answered(i)' => call'[i].doc # call'[k].doc
               /\ \A i \in DOMAIN fills' : fills'[i] # call'[k].doc
    <3>1. k # c /\ Answered(k) /\ call'[k] = call[k] /\ Async(call[k].doc)
      BY <1>1, <1>5, <2>2 DEF Async
    <3>2. call[k].doc # d
      BY <1>1, <3>1 DEF RemoteInv, InOnePlace, d
    <3> QED BY <1>5, <1>6, <3>1, <3>2 DEF RemoteInv, InOnePlace
  <2>3. ASSUME NEW i \in DOMAIN fills', NEW j \in DOMAIN fills', i # j, Async(fills[i])'
        PROVE  fills'[i] # fills'[j]
    <3>1. Async(fills'[i])
      BY <1>1, <2>3 DEF Async
    <3>2. CASE i \in DOMAIN fills /\ fills'[i] = fills[i]
      BY <1>6, <1>7, <2>3, <3>1, <3>2 DEF RemoteInv, InOnePlace
    <3>3. CASE i = Len(fills) + 1 /\ fills'[i] = d
      BY <1>6, <1>7, <2>3, <3>1, <3>3
    <3> QED BY <1>6, <3>2, <3>3
  <2> QED BY <2>1, <2>2, <2>3 DEF InOnePlace
<1>10. ASSUME NEW k \in Refreshes, Before(k)' PROVE NotYet(k)'
  <2>1. NotYet(k)
    BY <1>5, <1>10 DEF RemoteInv
  <2>2. Async(d) => d.fetch # k
    BY <1>1, <2>1 DEF NotYet, d
  <2>3. ASSUME NEW i \in DOMAIN fills', Async(fills[i])' PROVE fills'[i].fetch # k
    BY <1>1, <1>6, <2>1, <2>2, <2>3 DEF NotYet, Async
  <2>4. ASSUME NEW i \in Refreshes, Answered(i)', Async(call[i].doc)'
        PROVE  call'[i].doc.fetch # k
    BY <1>1, <1>5, <2>1, <2>4 DEF NotYet, Async
  <2>5. \A s \in R!Stores : Async(slot[s])' => slot'[s].fetch # k
    BY <1>1, <2>1 DEF NotYet, Async
  <2> QED BY <2>3, <2>4, <2>5 DEF NotYet
<1>11. \A k \in Refreshes : Known(k)'
  BY <1>1, <1>2, <1>4 DEF RemoteInv, Known, Answered
<1>12. Installed' /\ Filled'
  BY <1>1, <1>6 DEF RemoteInv, Installed, Filled
<1>13. R!TypeOK'
  BY <1>1, <1>3, <1>4, <1>6 DEF RemoteInv, R!TypeOK, Records
<1> QED BY <1>9, <1>10, <1>11, <1>12, <1>13 DEF RemoteInv

LEMMA NextRemote ==
  ASSUME RemoteInv, [R!Next]_remoteVars
  PROVE  RemoteInv'
<1>1. CASE R!ClearRemote
  <2>1. UNCHANGED <<stores, source, slot, call, fills>> /\ awaited' = R!None /\ layer' = R!NoDoc
    BY <1>1 DEF R!ClearRemote
  <2>2. R!TypeOK' /\ Installed'
    BY <2>1 DEF RemoteInv, R!TypeOK, Installed
  <2>3. InOnePlace' /\ Filled'
    BY <2>1 DEF RemoteInv, InOnePlace, Filled, Async, Answered
  <2>4. \A c \in Refreshes : Known(c)' /\ (Before(c)' => NotYet(c)')
    BY <2>1 DEF RemoteInv, Known, Before, NotYet, Async, Answered
  <2> QED BY <2>2, <2>3, <2>4 DEF RemoteInv
<1>2. CASE UNCHANGED remoteVars
  <2>1. UNCHANGED <<stores, awaited, source, slot, layer, call, fills>>
    BY <1>2 DEF remoteVars
  <2>2. R!TypeOK' /\ Installed'
    BY <2>1 DEF RemoteInv, R!TypeOK, Installed
  <2>3. InOnePlace' /\ Filled'
    BY <2>1 DEF RemoteInv, InOnePlace, Filled, Async, Answered
  <2>4. \A c \in Refreshes : Known(c)' /\ (Before(c)' => NotYet(c)')
    BY <2>1 DEF RemoteInv, Known, Before, NotYet, Async, Answered
  <2> QED BY <2>2, <2>3, <2>4 DEF RemoteInv
<1> QED BY <1>1, <1>2, Installs, Walks, StoreFetches, Fetches, Answers, FillsOnce, ProgramAssumption
        DEF R!Next, R!Proceed

-----------------------------------------------------------------------------
(* Streams. *)

(* d is an earlier call than whatever has not reached the generator.       *)
Behind(d) == d <= Len(handed) /\ \A i \in DOMAIN reloadCalls : d < reloadCalls[i]

(* The calls under way stand in one line: reloadCalls, the slot `pending`,  *)
(* the document that waits behind a refusal, the events.                   *)
InLine ==
  /\ \A i \in DOMAIN reloadCalls : reloadCalls[i] <= Len(handed)
  /\ \A i, j \in DOMAIN reloadCalls : i < j => reloadCalls[i] < reloadCalls[j]
  /\ Behind(pending) /\ Behind(document)
  /\ pending # S!None => document < pending
  /\ \A i \in DOMAIN yielded :
       /\ Behind(yielded[i])
       /\ pending # S!None => yielded[i] < pending
       /\ document # S!None => yielded[i] < document
  /\ S!DocumentsInOrder

(* The count of failures and what has been told of them.                   *)
Counted ==
  /\ consecutive <= Len(happened) /\ covers <= Len(happened)
  /\ events /\ consecutive > failures =>
       \E i \in (covers + 1)..Len(happened) : happened[i] = S!None

StreamInv == S!TypeOK /\ InLine /\ Counted

Switches == {events, attentive} \subseteq BOOLEAN /\ refused \in BOOLEAN /\ signalled \in BOOLEAN

LEMMA InitStream ==
  ASSUME MaxReloads \in Nat, S!Init
  PROVE  StreamInv
<1> USE DEF S!Init
<1>1. S!TypeOK
  <2>1. Switches
    BY Zenon DEF Switches
  <2>2. /\ happened \in Seq(S!Documents \cup {S!None}) /\ Len(happened) <= MaxReloads
        /\ handed \in Seq(S!Documents) /\ reloadCalls \in Seq(Nat) /\ yielded \in Seq(Nat)
    OBVIOUS
  <2>3. /\ consecutive \in 0..MaxReloads /\ unqueued \subseteq S!Documents
        /\ untold \in Nat /\ failureCalls \in Nat
        /\ failures \in 0..MaxReloads /\ covers \in 0..MaxReloads
        /\ pending \in Nat /\ document \in Nat /\ turn = "new"
    BY DEF S!None
  <2> QED BY <2>1, <2>2, <2>3 DEF S!TypeOK, Switches
<1>2. DOMAIN reloadCalls = {} /\ DOMAIN yielded = {} /\ Len(happened) = 0 /\ Len(handed) = 0
  OBVIOUS
<1>3. InLine
  BY <1>2 DEF InLine, Behind, S!DocumentsInOrder, S!None
<1>4. Counted
  BY <1>2 DEF Counted
<1> QED BY <1>1, <1>3, <1>4 DEF StreamInv

(***************************************************************************)
(* A new call of the hook is the last in the line.                         *)
(***************************************************************************)
LEMMA JoinsTheLine ==
  ASSUME MaxReloads \in Nat, StreamInv, NEW d \in S!Documents, S!Hand(d),
         UNCHANGED <<pending, document, yielded>>
  PROVE  InLine' /\ handed' \in Seq(S!Documents) /\ reloadCalls' \in Seq(Nat)
<1> DEFINE n == Len(handed) + 1
<1>1. /\ handed \in Seq(S!Documents) /\ reloadCalls \in Seq(Nat) /\ n \in Nat
      /\ DOMAIN reloadCalls = 1..Len(reloadCalls)
  BY DEF StreamInv, S!TypeOK
<1>2. CASE ~S!Hooked
  BY <1>1, <1>2 DEF S!Hand, StreamInv, InLine, Behind, S!DocumentsInOrder
<1>3. CASE S!Hooked
  <2>1. handed' = Append(handed, d) /\ reloadCalls' = Append(reloadCalls, n)
    BY <1>3 DEF S!Hand
  <2>2. handed' \in Seq(S!Documents) /\ Len(handed') = n
    BY <1>1, <2>1
  <2>3. /\ reloadCalls' \in Seq(Nat)
        /\ \A i \in DOMAIN reloadCalls' :
             \/ i \in DOMAIN reloadCalls /\ reloadCalls'[i] = reloadCalls[i]
             \/ i = Len(reloadCalls) + 1 /\ reloadCalls'[i] = n
    BY <1>1, <2>1, Appending
  <2>4. \A k \in Int : Behind(k) => Behind(k)'
    <3> SUFFICES ASSUME NEW k \in Int, Behind(k) PROVE Behind(k)'
      OBVIOUS
    <3>1. k <= Len(handed') /\ k < n
      BY <1>1, <2>2 DEF Behind
    <3>2. \A i \in DOMAIN reloadCalls' : k < reloadCalls'[i]
      BY <2>3, <3>1 DEF Behind
    <3> QED BY <3>1, <3>2 DEF Behind
  <2>5. /\ \A i \in DOMAIN reloadCalls' : reloadCalls'[i] <= Len(handed')
        /\ \A i, j \in DOMAIN reloadCalls' : i < j => reloadCalls'[i] < reloadCalls'[j]
    <3>1. /\ \A i \in DOMAIN reloadCalls : reloadCalls[i] < n /\ reloadCalls[i] <= n
          /\ \A i, j \in DOMAIN reloadCalls : i < j => reloadCalls[i] < reloadCalls[j]
          /\ Len(reloadCalls) \in Nat /\ n <= n
      BY <1>1 DEF StreamInv, InLine
    <3> HIDE DEF n
    <3>2. \A i \in DOMAIN reloadCalls' : reloadCalls'[i] <= n
      BY <2>3, <3>1
    <3>3. ASSUME NEW i \in DOMAIN reloadCalls', NEW j \in DOMAIN reloadCalls', i < j
          PROVE  reloadCalls'[i] < reloadCalls'[j]
      <4>1. i \in DOMAIN reloadCalls /\ reloadCalls'[i] = reloadCalls[i]
        <5>1. j \in Int /\ j <= Len(reloadCalls) + 1
          <6>1. j \in DOMAIN reloadCalls \/ j = Len(reloadCalls) + 1
            BY <2>3
          <6> QED BY <1>1, <3>1, <6>1
        <5>2. i # Len(reloadCalls) + 1
          BY <3>3, <5>1
        <5> QED BY <2>3, <5>2
      <4> QED BY <2>3, <3>1, <3>3, <4>1
    <3> QED BY <2>2, <3>2, <3>3
  <2>6. pending \in Int /\ document \in Int /\ \A i \in DOMAIN yielded : yielded[i] \in Int
    BY DEF StreamInv, S!TypeOK
  <2>7. Behind(pending)' /\ Behind(document)' /\ \A i \in DOMAIN yielded : Behind(yielded[i])'
    BY <2>4, <2>6 DEF StreamInv, InLine, Behind
  <2>8. InLine'
    BY <2>5, <2>7 DEF StreamInv, InLine, S!DocumentsInOrder
  <2> QED BY <2>2, <2>3, <2>8
<1> QED BY <1>2, <1>3

(***************************************************************************)
(* Reloads and documents replaced: the history grows by one.               *)
(***************************************************************************)
LEMMA Happens ==
  ASSUME MaxReloads \in Nat, StreamInv, NEW o \in {S!Published, S!None}, S!Reload(o),
         UNCHANGED <<events, failures, covers>>,
         \/ consecutive' = 0
         \/ consecutive' = consecutive
         \/ consecutive' = consecutive + 1 /\ o = S!None
  PROVE  /\ S!Published \in S!Documents
         /\ happened' \in Seq(S!Documents \cup {S!None}) /\ Len(happened') <= MaxReloads
         /\ consecutive' \in 0..MaxReloads /\ Counted'
<1> DEFINE n == Len(happened) + 1
<1>1. /\ happened \in Seq(S!Documents \cup {S!None}) /\ Len(happened) \in Nat /\ n <= MaxReloads
      /\ happened' = Append(happened, o) /\ consecutive \in Nat /\ failures \in Nat
      /\ covers \in Nat
  BY DEF S!Reload, StreamInv, S!TypeOK
<1>2. S!Published = n /\ n \in S!Documents
  BY <1>1 DEF S!Published, S!Documents
<1>3. o \in S!Documents \cup {S!None}
  BY <1>2
<1>4. /\ happened' \in Seq(S!Documents \cup {S!None}) /\ Len(happened') = n /\ happened'[n] = o
      /\ \A i \in 1..Len(happened) : happened'[i] = happened[i]
  BY <1>1, <1>3
<1>5. consecutive' <= n /\ consecutive' \in Nat /\ covers' <= n
  BY <1>1 DEF StreamInv, Counted
<1>6. ASSUME events', consecutive' > failures'
      PROVE  \E i \in (covers' + 1)..Len(happened') : happened'[i] = S!None
  <2>1. CASE consecutive > failures
    <3>1. PICK i \in (covers + 1)..Len(happened) : happened[i] = S!None
      BY <1>6, <2>1 DEF StreamInv, Counted
    <3>2. i \in 1..Len(happened) /\ i \in (covers' + 1)..Len(happened')
      BY <1>1, <1>4, <3>1
    <3> QED BY <1>4, <3>1, <3>2
  <2>2. CASE ~(consecutive > failures)
    <3>1. o = S!None
      BY <1>1, <1>6, <2>2
    <3>2. n \in (covers' + 1)..Len(happened')
      BY <1>1, <1>4 DEF StreamInv, Counted
    <3> QED BY <1>4, <3>1, <3>2
  <2> QED BY <2>1, <2>2
<1>7. Counted'
  BY <1>4, <1>5, <1>6 DEF Counted
<1> QED BY <1>1, <1>2, <1>4, <1>5, <1>7

LEMMA Reloads ==
  ASSUME MaxReloads \in Nat, StreamInv, S!Installs \/ S!Refuses \/ S!Replaces
  PROVE  StreamInv'
<1>1. /\ UNCHANGED <<failureCalls, failures, document, yielded, covers, pending>>
      /\ turn' = turn
  BY DEF S!Installs, S!Refuses, S!Replaces, S!queues, S!generator
<1>2. Switches' /\ UNCHANGED <<events, attentive, refused, signalled>>
  <2>1. CASE S!Installs
    BY <2>1, Zenon DEF S!Installs, S!stream, S!generator, Switches, StreamInv, S!TypeOK
  <2>2. CASE S!Refuses
    BY <2>2, Zenon DEF S!Refuses, S!stream, S!generator, Switches, StreamInv, S!TypeOK
  <2>3. CASE S!Replaces
    BY <2>3, Zenon DEF S!Replaces, S!stream, S!generator, Switches, StreamInv, S!TypeOK
  <2> QED BY <2>1, <2>2, <2>3
<1>3. PICK o \in {S!Published, S!None} :
        /\ S!Reload(o)
        /\ \/ consecutive' = 0
           \/ consecutive' = consecutive
           \/ consecutive' = consecutive + 1 /\ o = S!None
  BY DEF S!Installs, S!Refuses, S!Replaces
<1>4. /\ S!Published \in S!Documents
      /\ happened' \in Seq(S!Documents \cup {S!None}) /\ Len(happened') <= MaxReloads
      /\ consecutive' \in 0..MaxReloads /\ Counted'
  BY <1>1, <1>2, <1>3, Happens
<1>5. unqueued' \subseteq S!Documents /\ untold' \in Nat
  BY <1>4 DEF S!Installs, S!Refuses, S!Replaces, StreamInv, S!TypeOK
<1>6. InLine' /\ handed' \in Seq(S!Documents) /\ reloadCalls' \in Seq(Nat)
  <2>1. CASE S!Replaces
    BY <1>1, <1>4, <2>1, JoinsTheLine DEF S!Replaces
  <2>2. CASE S!Installs \/ S!Refuses
    <3>1. UNCHANGED <<handed, reloadCalls>>
      BY <2>2 DEF S!Installs, S!Refuses, S!queues
    <3> QED BY <1>1, <3>1 DEF StreamInv, S!TypeOK, InLine, Behind, S!DocumentsInOrder
  <2> QED BY <2>1, <2>2
<1>7. S!TypeOK'
  BY <1>1, <1>2, <1>4, <1>5, <1>6 DEF StreamInv, S!TypeOK, Switches
<1> QED BY <1>4, <1>6, <1>7 DEF StreamInv

(***************************************************************************)
(* The hooks of a reload are called, after it and in any order.            *)
(***************************************************************************)
LEMMA CallsItsHooks ==
  ASSUME MaxReloads \in Nat, StreamInv,
         S!Overtaken \/ S!QueueFailure \/ \E d \in S!Documents : S!QueueReload(d)
  PROVE  StreamInv'
<1>1. /\ UNCHANGED <<happened, failures, document, yielded, covers, pending>>
      /\ turn' = turn /\ consecutive' \in {consecutive, 0}
  BY DEF S!Overtaken, S!QueueFailure, S!QueueReload, S!queues, S!generator
<1>2. Switches' /\ UNCHANGED <<events, attentive, refused, signalled>>
  <2>1. CASE S!Overtaken
    BY <2>1, Zenon DEF S!Overtaken, S!stream, S!generator, Switches, StreamInv, S!TypeOK
  <2>2. CASE S!QueueFailure
    BY <2>2, Zenon DEF S!QueueFailure, S!stream, S!generator, Switches, StreamInv, S!TypeOK
  <2>3. CASE \E d \in S!Documents : S!QueueReload(d)
    BY <2>3, Zenon DEF S!QueueReload, S!stream, S!generator, Switches, StreamInv, S!TypeOK
  <2> QED BY <2>1, <2>2, <2>3
<1>3. unqueued' \subseteq S!Documents /\ untold' \in Nat /\ failureCalls' \in Nat
  BY DEF S!Overtaken, S!QueueFailure, S!QueueReload, S!queues, StreamInv, S!TypeOK
<1>4. InLine' /\ handed' \in Seq(S!Documents) /\ reloadCalls' \in Seq(Nat)
  <2>1. CASE \E d \in S!Documents : S!QueueReload(d)
    BY <1>1, <2>1, JoinsTheLine DEF S!QueueReload
  <2>2. CASE S!Overtaken \/ S!QueueFailure
    <3>1. UNCHANGED <<handed, reloadCalls>>
      BY <2>2 DEF S!Overtaken, S!QueueFailure, S!queues
    <3> QED BY <1>1, <3>1 DEF StreamInv, S!TypeOK, InLine, Behind, S!DocumentsInOrder
  <2> QED BY <2>1, <2>2
<1>5. Counted' /\ consecutive' \in 0..MaxReloads
  BY <1>1, <1>2 DEF StreamInv, S!TypeOK, Counted
<1>6. S!TypeOK'
  BY <1>1, <1>2, <1>3, <1>4, <1>5 DEF StreamInv, S!TypeOK, Switches
<1> QED BY <1>4, <1>5, <1>6 DEF StreamInv

(***************************************************************************)
(* The first call of the reload hook takes the slot.                       *)
(***************************************************************************)
LEMMA TakesTheSlot ==
  ASSUME MaxReloads \in Nat, StreamInv, S!ReloadHook
  PROVE  StreamInv'
<1> USE DEF StreamInv
<1>1. /\ reloadCalls # <<>> /\ reloadCalls' = Tail(reloadCalls) /\ pending' = Head(reloadCalls)
      /\ UNCHANGED <<consecutive, happened, unqueued, untold, handed, failureCalls,
                     failures, document, yielded, covers>>
      /\ turn' \in {turn, "awake"}
  BY DEF S!ReloadHook, S!engine, S!Woken
<1>2. Switches' /\ events' = events
  BY Zenon DEF S!ReloadHook, S!stream, Switches, S!TypeOK
<1>3. reloadCalls \in Seq(Nat)
  BY DEF S!TypeOK
<1>4. /\ reloadCalls' \in Seq(Nat) /\ 1 \in DOMAIN reloadCalls
      /\ pending' = reloadCalls[1] /\ pending' \in Nat
      /\ \A i \in DOMAIN reloadCalls' :
           i + 1 \in DOMAIN reloadCalls /\ reloadCalls'[i] = reloadCalls[i + 1]
  BY <1>1, <1>3, Tailing
<1>5. DOMAIN reloadCalls = 1..Len(reloadCalls) /\ DOMAIN reloadCalls' = 1..Len(reloadCalls')
  BY <1>3, <1>4
<1>6. Counted'
  BY <1>1, <1>2 DEF Counted
<1>7. S!TypeOK'
  BY <1>1, <1>2, <1>4 DEF S!TypeOK, Switches
<1>8. \A d \in Int : Behind(d) => Behind(d)' /\ d < pending'
  BY <1>1, <1>4 DEF Behind
<1>9. Behind(pending)'
  BY <1>1, <1>4, <1>5 DEF InLine, Behind
<1>10. document \in Int /\ \A i \in DOMAIN yielded : yielded[i] \in Int
  BY DEF S!TypeOK
<1>11. /\ \A i, j \in DOMAIN reloadCalls' : i < j => reloadCalls'[i] < reloadCalls'[j]
       /\ \A i \in DOMAIN reloadCalls' : reloadCalls'[i] <= Len(handed)
  BY <1>4, <1>5 DEF InLine
<1>12. UNCHANGED <<handed, document, yielded>>
  BY <1>1
<1>13. /\ Behind(document)' /\ document < pending'
       /\ \A i \in DOMAIN yielded : Behind(yielded[i])' /\ yielded[i] < pending'
  BY <1>8, <1>10, <1>12 DEF InLine, Behind
<1>14. InLine'
  BY <1>9, <1>11, <1>12, <1>13 DEF InLine, S!DocumentsInOrder
<1> QED BY <1>6, <1>7, <1>14

(***************************************************************************)
(* The generator at work: a refusal is told, or the first document behind  *)
(* the events, or nothing.  What was not taken stays behind them.          *)
(***************************************************************************)
Tells(x) ==
  /\ yielded' = Append(yielded, x)
  /\ x # S!None => \/ x = pending /\ pending' = S!None /\ document' = S!None
                   \/ x = document /\ pending' = pending /\ document' = S!None

LEMMA Works ==
  ASSUME MaxReloads \in Nat, StreamInv, S!Take \/ S!Resume
  PROVE  /\ UNCHANGED <<events, attentive, consecutive, happened, unqueued, untold, handed,
                        reloadCalls, failureCalls, signalled>>
         /\ turn' \in {"awake", "waiting", "yielded"} /\ refused' \in {FALSE, refused}
         /\ covers' \in {covers, Len(happened)}
         /\ failures' \in {failures, consecutive}
         /\ events /\ covers' # covers => failures' = consecutive
         /\ \/ UNCHANGED yielded
            \/ Tells(S!None) /\ events /\ consecutive > failures
            \/ \E d \in Nat \ {S!None} : Tells(d)
         /\ \/ pending' \in {pending, S!None} /\ document' = S!None
            \/ pending' = S!None /\ document' = pending
            \/ pending' = pending /\ document' = document
<1>1. CASE S!Take
  <2>1. /\ UNCHANGED <<events, attentive, consecutive, happened, unqueued, untold, handed,
                       reloadCalls, failureCalls, signalled>>
        /\ pending' = S!None /\ refused' = FALSE
        /\ failures' = IF events THEN consecutive ELSE failures
    BY <1>1 DEF S!Take, S!stream, S!engine, S!queues
  <2>2. CASE events /\ consecutive > failures
    BY <1>1, <2>1, <2>2 DEF S!Take, S!TellRefusal, Tells
  <2>3. CASE ~(events /\ consecutive > failures) /\ pending # S!None
    <3>1. pending \in Nat \ {S!None}
      BY <2>3 DEF StreamInv, S!TypeOK
    <3>2. Tells(pending) /\ covers' = covers /\ document' = S!None /\ turn' = "yielded"
      BY <1>1, <2>1, <2>3 DEF S!Take, S!TellDocument, Tells
    <3> QED BY <2>1, <3>1, <3>2
  <2>4. CASE ~(events /\ consecutive > failures) /\ pending = S!None
    BY <1>1, <2>1, <2>4 DEF S!Take
  <2> QED BY <2>2, <2>3, <2>4
<1>2. CASE S!Resume
  <2>1. /\ UNCHANGED <<events, attentive, consecutive, happened, unqueued, untold, handed,
                       reloadCalls, failureCalls, signalled, pending, refused, failures>>
    BY <1>2 DEF S!Resume, S!stream, S!engine, S!queues
  <2>2. CASE document # S!None
    <3>1. document \in Nat \ {S!None}
      BY <2>2 DEF StreamInv, S!TypeOK
    <3>2. Tells(document) /\ covers' = covers /\ document' = S!None /\ turn' = "yielded"
      BY <1>2, <2>1, <2>2 DEF S!Resume, S!TellDocument, Tells
    <3> QED BY <2>1, <3>1, <3>2
  <2>3. CASE document = S!None
    BY <1>2, <2>1, <2>3 DEF S!Resume
  <2> QED BY <2>2, <2>3
<1> QED BY <1>1, <1>2

LEMMA WorksInOrder ==
  ASSUME MaxReloads \in Nat, StreamInv, S!Take \/ S!Resume
  PROVE  StreamInv'
<1> USE DEF StreamInv
<1>1. /\ UNCHANGED <<consecutive, happened, unqueued, untold, handed, reloadCalls, failureCalls>>
      /\ turn' \in {"awake", "waiting", "yielded"}
      /\ covers' \in {covers, Len(happened)}
      /\ failures' \in {failures, consecutive}
      /\ events' = events
      /\ events /\ covers' # covers => failures' = consecutive
  BY Works
<1>2. \/ UNCHANGED yielded
      \/ \E d \in Nat : Tells(d)
  BY Works DEF S!None
<1>3. \/ pending' \in {pending, S!None} /\ document' = S!None
      \/ pending' = S!None /\ document' = pending
      \/ pending' = pending /\ document' = document
  BY Works
<1>4. /\ pending \in Nat /\ document \in Nat /\ S!None \in Nat
      /\ yielded \in Seq(Nat) /\ Len(happened) \in Nat /\ Len(handed) \in Nat
  BY DEF S!TypeOK, S!None
<1>5. Counted'
  <2>1. consecutive \in Nat /\ failures \in Nat /\ covers' <= Len(happened')
    BY <1>1 DEF Counted, S!TypeOK
  <2>2. ASSUME events, consecutive > failures' PROVE failures' = failures /\ covers' = covers
    BY <1>1, <2>1, <2>2
  <2>3. events' /\ consecutive' > failures' =>
          \E i \in (covers' + 1)..Len(happened') : happened'[i] = S!None
    BY <1>1, <2>2 DEF Counted
  <2> QED BY <1>1, <2>1, <2>3 DEF Counted
<1>6. yielded' \in Seq(Nat)
  BY <1>2, <1>4 DEF Tells
<1>7. S!TypeOK'
  <2>1. UNCHANGED <<events, attentive, signalled>> /\ refused' \in {FALSE, refused}
    BY Works
  <2>2. Switches'
    BY <2>1, Zenon DEF S!TypeOK, Switches
  <2>3. covers' \in 0..MaxReloads /\ failures' \in 0..MaxReloads
    BY <1>1 DEF S!TypeOK, Counted
  <2>4. pending' \in Nat /\ document' \in Nat
    BY <1>3, <1>4
  <2> QED BY <1>1, <1>6, <2>2, <2>3, <2>4 DEF S!TypeOK, Switches
<1>8. \A d : Behind(d) => Behind(d)'
  BY <1>1 DEF Behind
<1>10. Behind(pending)' /\ Behind(document)' /\ (pending' # S!None => document' < pending')
  <2>0. Behind(S!None) \/ (pending' = pending /\ document' = document)
    <3>1. pending >= S!None /\ document >= S!None
      BY <1>4 DEF S!None
    <3> QED BY <1>3, <1>4, <3>1 DEF InLine, Behind, S!TypeOK, S!None
  <2>1. Behind(pending') /\ Behind(document')
    BY <1>3, <2>0 DEF InLine
  <2>2. pending' # S!None => document' < pending'
    BY <1>3, <1>4 DEF InLine, S!None
  <2> QED BY <1>1, <2>1, <2>2 DEF Behind
<1>11. ASSUME NEW i \in DOMAIN yielded
       PROVE  /\ Behind(yielded[i])
              /\ pending' # S!None => yielded[i] < pending'
              /\ document' # S!None => yielded[i] < document'
  BY <1>3 DEF InLine
<1>12. ASSUME UNCHANGED yielded PROVE InLine'
  <2>1. \A i \in DOMAIN yielded : Behind(yielded[i])'
    BY <1>1, <1>11, <1>12 DEF Behind
  <2>2. S!DocumentsInOrder'
    BY <1>12 DEF InLine, S!DocumentsInOrder
  <2>3. \A i \in DOMAIN yielded' :
          /\ Behind(yielded[i])'
          /\ pending' # S!None => yielded'[i] < pending'
          /\ document' # S!None => yielded'[i] < document'
    BY <1>11, <1>12, <2>1
  <2> QED BY <1>1, <1>10, <2>2, <2>3 DEF InLine
<1>13. ASSUME NEW d \in Nat, Tells(d) PROVE InLine'
  <2>1. \A i \in DOMAIN yielded' : \/ i \in DOMAIN yielded /\ yielded'[i] = yielded[i]
                                   \/ i = Len(yielded) + 1 /\ yielded'[i] = d
    BY <1>4, <1>13, Appending DEF Tells
  <2>2. /\ Behind(d)
        /\ pending' # S!None => d < pending'
        /\ document' # S!None => d < document'
    <3>1. CASE d = S!None
      <4>1. Behind(S!None)
        BY <1>4 DEF InLine, Behind, S!None, S!TypeOK
      <4> QED BY <1>3, <1>4, <3>1, <4>1 DEF S!None, InLine
    <3>2. CASE d # S!None
      BY <1>13, <3>2 DEF Tells, InLine
    <3> QED BY <3>1, <3>2
  <2>3. d # S!None => \A i \in DOMAIN yielded : yielded[i] < d
    BY <1>13 DEF Tells, InLine
  <2>4. S!DocumentsInOrder'
    <3> SUFFICES ASSUME NEW i \in DOMAIN yielded', NEW j \in DOMAIN yielded', i < j,
                        yielded'[i] # S!None, yielded'[j] # S!None
                 PROVE  yielded'[i] < yielded'[j]
      BY DEF S!DocumentsInOrder
    <3>1. i \in DOMAIN yielded /\ yielded'[i] = yielded[i]
      BY <1>4, <1>6, <1>13, <2>1 DEF Tells
    <3>2. CASE j \in DOMAIN yielded /\ yielded'[j] = yielded[j]
      BY <3>1, <3>2 DEF InLine, S!DocumentsInOrder
    <3>3. CASE j = Len(yielded) + 1 /\ yielded'[j] = d
      BY <2>3, <3>1, <3>3
    <3> QED BY <2>1, <3>2, <3>3
  <2>5. \A i \in DOMAIN yielded' :
          /\ Behind(yielded'[i])
          /\ pending' # S!None => yielded'[i] < pending'
          /\ document' # S!None => yielded'[i] < document'
    BY <1>11, <2>1, <2>2
  <2>6. \A i \in DOMAIN yielded' : Behind(yielded[i])'
    BY <1>1, <2>5 DEF Behind
  <2> QED BY <1>1, <1>10, <2>4, <2>5, <2>6 DEF InLine
<1> QED BY <1>2, <1>5, <1>7, <1>12, <1>13

(***************************************************************************)
(* What remains neither adds to the line nor takes from it.                *)
(***************************************************************************)
LEMMA NextStream ==
  ASSUME MaxReloads \in Nat, StreamInv, [S!Next]_streamVars
  PROVE  StreamInv'
<1> DEFINE Others == \/ S!FailureHook \/ S!Abort \/ S!End \/ S!Break \/ S!Start
                     \/ S!HookReloads \/ S!HookFailures
<1>1. ASSUME Others \/ UNCHANGED streamVars PROVE StreamInv'
  <2>1. /\ UNCHANGED <<consecutive, happened, unqueued, untold, handed, reloadCalls,
                       pending, document, yielded>>
        /\ \/ UNCHANGED <<failures, covers>>
           \/ failures' = (IF events THEN consecutive ELSE 0) /\ covers' = Len(happened)
        /\ failureCalls' \in {failureCalls, failureCalls - 1}
        /\ failureCalls' # failureCalls => failureCalls > 0
    BY <1>1 DEF S!FailureHook, S!Abort, S!End, S!Break, S!Start, S!HookReloads, S!HookFailures,
                streamVars, S!engine, S!queues, S!generator
  <2>2. turn' \in {turn, "awake", "ended", "reading", "hooking", "waiting"}
    BY <1>1 DEF S!FailureHook, S!Abort, S!End, S!Break, S!Start, S!HookReloads, S!HookFailures,
                streamVars, S!Woken, S!FirstTurn
  <2>3. Switches' /\ events' = events
    <3> USE DEF StreamInv, S!TypeOK, Switches
    <3>1. CASE S!FailureHook
      BY <3>1, Zenon DEF S!FailureHook, S!stream
    <3>2. CASE S!Abort
      BY <3>2, Zenon DEF S!Abort, S!stream
    <3>3. CASE S!End \/ S!Break
      BY <3>3, Zenon DEF S!End, S!Break, S!stream
    <3>4. CASE S!Start
      BY <3>4, Zenon DEF S!Start, S!stream
    <3>5. CASE S!HookReloads \/ S!HookFailures
      BY <3>5, Zenon DEF S!HookReloads, S!HookFailures, S!stream
    <3>6. CASE UNCHANGED streamVars
      BY <3>6, Zenon DEF streamVars
    <3> QED BY <1>1, <3>1, <3>2, <3>3, <3>4, <3>5, <3>6
  <2>4. failures' \in 0..MaxReloads /\ covers' \in 0..MaxReloads /\ failureCalls' \in Nat
    BY <2>1 DEF StreamInv, S!TypeOK, Counted
  <2>5. S!TypeOK'
    BY <2>1, <2>2, <2>3, <2>4 DEF StreamInv, S!TypeOK, Switches
  <2>6. InLine'
    BY <2>1 DEF StreamInv, InLine, Behind, S!DocumentsInOrder
  <2>7. Counted'
    BY <2>1, <2>3 DEF StreamInv, Counted, S!TypeOK
  <2> QED BY <2>5, <2>6, <2>7 DEF StreamInv
<1> QED BY <1>1, Reloads, CallsItsHooks, TakesTheSlot, WorksInOrder DEF S!Next, S!Loop, S!Threads

(***************************************************************************)
(* A refusal is told when there is one that no earlier event covers.       *)
(***************************************************************************)
LEMMA TellsNews ==
  ASSUME MaxReloads \in Nat, StreamInv, [S!Next]_streamVars,
         Len(yielded') > Len(yielded), yielded'[Len(yielded')] = S!None
  PROVE  \E i \in (covers + 1)..Len(happened) : happened[i] = S!None
<1>1. yielded \in Seq(Nat)
  BY DEF StreamInv, S!TypeOK
<1>2. yielded' # yielded
  BY <1>1
<1>3. S!Take \/ S!Resume
  BY <1>2 DEF S!Next, S!Loop, S!Threads, S!Installs, S!Refuses, S!Replaces, S!Overtaken,
              S!QueueReload, S!QueueFailure, S!Start, S!HookReloads, S!HookFailures, S!ReloadHook,
              S!FailureHook, S!Abort, S!End, S!Break, S!generator, streamVars
<1>4. ~\E d \in Nat \ {S!None} : Tells(d)
  BY <1>1 DEF Tells
<1>5. events /\ consecutive > failures
  BY <1>2, <1>3, <1>4, Works
<1> QED BY <1>5 DEF StreamInv, Counted

(* A stream that is awake before the next reload: it told every reload, or  *)
(* all but the last, which is about to call its hook, or waits for the loop *)
(* to run the call, or woke the generator.  Nothing happens before it waits *)
(* for the first time.                                                     *)
Leaving == turn = "ended" \/ (turn = "awake" /\ signalled)
Asleep == turn = "waiting" /\ pending = S!None /\ refused = FALSE
Queued(documents, refusals) == unqueued = documents /\ untold = refusals
Waiting(documents, refusals) == reloadCalls = documents /\ failureCalls = refusals

AllTold ==
  /\ S!Told = happened /\ failures = consecutive
  /\ turn \in {"new", "reading", "hooking", "waiting", "yielded"}
  /\ pending = S!None /\ refused = FALSE
  /\ Queued({}, 0) /\ Waiting(<<>>, 0)

(* What a call tells of: a refusal is told by no call of the reload hook.   *)
Carries(c, o) ==
  IF o = S!None THEN c = S!None ELSE c \in DOMAIN handed /\ handed[c] = o

LastUntold(o) ==
  /\ happened = Append(S!Told, o)
  /\ IF o = S!None THEN consecutive = failures + 1 ELSE consecutive <= failures
  /\ \/ /\ IF o = S!None THEN Queued({}, 1) ELSE Queued({o}, 0)
        /\ Waiting(<<>>, 0) /\ Asleep
     \/ /\ Queued({}, 0) /\ Asleep
        /\ \E c \in Nat : /\ Carries(c, o)
                          /\ IF o = S!None THEN Waiting(<<>>, 1) ELSE Waiting(<<c>>, 0)
     \/ /\ Queued({}, 0) /\ Waiting(<<>>, 0)
        /\ turn = "awake" /\ Carries(pending, o) /\ refused = (o = S!None)

InTurn ==
  events /\ attentive /\ ~Leaving =>
    document = S!None /\ (AllTold \/ \E o \in S!Documents \cup {S!None} : LastUntold(o))

LEMMA LeavingIsForGood ==
  ASSUME S!Next \/ UNCHANGED streamVars
  PROVE  UNCHANGED <<events, attentive>> /\ (Leaving => Leaving')
<1>1. CASE S!Installs \/ S!Refuses \/ S!Overtaken \/ S!Replaces
  BY <1>1 DEF S!Installs, S!Refuses, S!Overtaken, S!Replaces, S!stream, S!generator, Leaving
<1>2. CASE S!QueueFailure \/ \E d \in S!Documents : S!QueueReload(d)
  BY <1>2 DEF S!QueueFailure, S!QueueReload, S!stream, S!generator, Leaving
<1>3. CASE S!ReloadHook \/ S!FailureHook \/ S!Abort
  BY <1>3 DEF S!ReloadHook, S!FailureHook, S!Abort, S!Woken, S!stream, Leaving
<1>4. CASE S!End \/ S!Break \/ S!Take \/ S!Resume
  BY <1>4 DEF S!End, S!Break, S!Take, S!Resume, S!stream, Leaving
<1>5. CASE S!Start \/ S!HookReloads \/ S!HookFailures
  BY <1>5 DEF S!Start, S!HookReloads, S!HookFailures, S!stream, Leaving
<1>6. CASE UNCHANGED streamVars
  BY <1>6 DEF streamVars, Leaving
<1> QED BY <1>1, <1>2, <1>3, <1>4, <1>5, <1>6 DEF S!Next, S!Loop, S!Threads

(***************************************************************************)
(* A call of the hook changes nothing that was told, ...                   *)
(***************************************************************************)
LEMMA ToldStays ==
  ASSUME StreamInv, yielded' = yielded,
         handed' = handed \/ \E d \in S!Documents : handed' = Append(handed, d)
  PROVE  S!Told' = S!Told
<1>1. handed \in Seq(S!Documents) /\ DOMAIN handed = 1..Len(handed) /\ yielded \in Seq(Nat)
  BY DEF StreamInv, S!TypeOK
<1>2. \A i \in DOMAIN yielded : yielded[i] # S!None => yielded[i] \in 1..Len(handed)
  BY <1>1 DEF StreamInv, InLine, Behind, S!None
<1>3. \A c \in 1..Len(handed) : handed'[c] = handed[c]
  <2>1. ASSUME NEW d \in S!Documents, handed' = Append(handed, d)
        PROVE  \A c \in 1..Len(handed) : handed'[c] = handed[c]
    <3>1. Len(handed) \in Nat /\ Len(Append(handed, d)) = Len(handed) + 1
      BY <1>1
    <3>2. DOMAIN Append(handed, d) = 1..(Len(handed) + 1)
      BY <1>1
    <3>3. \A i \in DOMAIN Append(handed, d) :
            \/ i \in DOMAIN handed /\ Append(handed, d)[i] = handed[i]
            \/ i = Len(handed) + 1
      BY <1>1, <2>1, Appending
    <3> QED BY <2>1, <3>1, <3>2, <3>3
  <2> QED BY <1>1, <2>1
<1> DEFINE Of(y) == IF y = S!None THEN S!None ELSE handed[y]
           Now(y) == IF y = S!None THEN S!None ELSE handed'[y]
<1>4. \A i \in DOMAIN yielded : Now(yielded[i]) = Of(yielded[i])
  BY <1>2, <1>3
<1>5. /\ S!Told = [i \in DOMAIN yielded |-> Of(yielded[i])]
      /\ S!Told' = [i \in DOMAIN yielded |-> Now(yielded[i])]
  BY DEF S!Told
<1> HIDE DEF Of, Now
<1> QED BY <1>4, <1>5

(***************************************************************************)
(* ... and an event adds what its call carried.                            *)
(***************************************************************************)
LEMMA Telling ==
  ASSUME StreamInv, NEW o \in S!Documents \cup {S!None}, NEW c \in Nat, Carries(c, o),
         handed' = handed, yielded' = Append(yielded, c)
  PROVE  S!Told' = Append(S!Told, o)
<1> DEFINE T == S!Documents \cup {S!None}
           Of(y) == IF y = S!None THEN S!None ELSE handed[y]
           n == Len(yielded) + 1
<1>1. /\ handed \in Seq(S!Documents) /\ DOMAIN handed = 1..Len(handed) /\ yielded \in Seq(Nat)
      /\ n \in Nat /\ DOMAIN yielded = 1..Len(yielded)
  BY DEF StreamInv, S!TypeOK
<1>2. \A i \in DOMAIN yielded : Of(yielded[i]) \in T
  BY <1>1 DEF StreamInv, InLine, Behind, S!None
<1>3. Of(c) = o
  BY <1>1 DEF Carries, S!Documents, S!None
<1>4. /\ DOMAIN yielded' = 1..n /\ yielded'[n] = c
      /\ \A i \in 1..Len(yielded) : yielded'[i] = yielded[i]
  BY <1>1
<1>5. S!Told = [i \in 1..Len(yielded) |-> Of(yielded[i])]
  BY <1>1 DEF S!Told
<1>6. S!Told' = [i \in 1..n |-> Of(yielded'[i])]
  BY <1>4 DEF S!Told
<1> HIDE DEF Of, T
<1>7. S!Told \in Seq(T) /\ Len(S!Told) = Len(yielded)
  BY <1>1, <1>2, <1>5
<1>8. Append(S!Told, o) = [i \in 1..n |-> IF i = n THEN o ELSE S!Told[i]]
  <2> DEFINE s == S!Told  a == Append(S!Told, o)
  <2>1. s \in Seq(T) /\ o \in T /\ Len(s) + 1 = n
    BY <1>7 DEF T
  <2> HIDE DEF s
  <2>2. a \in Seq(T) /\ Len(a) = n /\ \A i \in 1..n : a[i] = IF i = n THEN o ELSE s[i]
    BY <1>1, <2>1 DEF s
  <2> HIDE DEF a, n
  <2>3. a = [i \in 1..n |-> a[i]]
    BY <2>2
  <2> QED BY <2>2, <2>3 DEF s, a
<1>9. \A i \in 1..n : Of(yielded'[i]) = IF i = n THEN o ELSE S!Told[i]
  BY <1>1, <1>3, <1>4, <1>5
<1> QED BY <1>6, <1>8, <1>9

(***************************************************************************)
(* Reloads and replaced documents wait for the stream to have told all.    *)
(***************************************************************************)
LEMMA HappensInTurn ==
  ASSUME MaxReloads \in Nat, StreamInv, InTurn, events, attentive, ~Leaving,
         S!Installs \/ S!Refuses \/ S!Replaces
  PROVE  document' = S!None /\ \E o \in S!Documents \cup {S!None} : LastUntold(o)'
<1>1. /\ consecutive \in Nat /\ failures \in Nat /\ Len(happened) \in Nat
      /\ handed \in Seq(S!Documents)
  BY DEF StreamInv, S!TypeOK
<1>2. S!Undisturbed /\ Len(happened) < MaxReloads
  BY DEF S!Installs, S!Refuses, S!Replaces, S!Reload
<1>3. document = S!None /\ AllTold /\ Asleep
  BY <1>2 DEF InTurn, S!Undisturbed, AllTold, LastUntold, Queued, Waiting, Asleep
<1>4. UNCHANGED <<failureCalls, turn, pending, refused, failures, document, yielded>>
  BY DEF S!Installs, S!Refuses, S!Replaces, S!queues, S!generator
<1>5. S!Published \in S!Documents /\ S!Published # S!None
  BY <1>1, <1>2 DEF S!Published, S!Documents, S!None
<1>6. CASE S!Installs
  <2>0. PICK d \in S!Documents : d = S!Published /\ d # S!None
    BY <1>5
  <2>1. /\ happened' = Append(happened, d) /\ consecutive' = 0
        /\ unqueued' = {d} /\ UNCHANGED <<untold, handed, reloadCalls>>
    BY <1>3, <1>6, <2>0 DEF S!Installs, S!Reload, S!queues, AllTold, Queued
  <2>2. S!Told' = S!Told
    BY <1>4, <2>1, ToldStays
  <2>3. happened' = Append(S!Told', d) /\ consecutive' <= failures'
    BY <1>1, <1>3, <1>4, <2>1, <2>2 DEF AllTold
  <2>4. Queued({d}, 0)' /\ Waiting(<<>>, 0)' /\ Asleep'
    BY <1>3, <1>4, <2>1 DEF AllTold, Queued, Waiting, Asleep
  <2>5. LastUntold(d)'
    BY <2>0, <2>3, <2>4 DEF LastUntold, Queued
  <2> QED BY <1>3, <1>4, <2>5
<1>7. CASE S!Refuses
  <2>1. /\ happened' = Append(happened, S!None) /\ consecutive' = consecutive + 1
        /\ untold' = 1 /\ UNCHANGED <<unqueued, handed, reloadCalls>>
    BY <1>3, <1>7 DEF S!Refuses, S!Reload, S!queues, AllTold, Queued
  <2>2. S!Told' = S!Told
    BY <1>4, <2>1, ToldStays
  <2>3. happened' = Append(S!Told', S!None) /\ consecutive' = failures' + 1
    BY <1>3, <1>4, <2>1, <2>2 DEF AllTold
  <2>4. Queued({}, 1)' /\ Waiting(<<>>, 0)' /\ Asleep'
    BY <1>3, <1>4, <2>1 DEF AllTold, Queued, Waiting, Asleep
  <2>5. LastUntold(S!None)'
    BY <2>3, <2>4 DEF LastUntold
  <2> QED BY <1>3, <1>4, <2>5
<1>8. CASE S!Replaces
  <2> DEFINE c == Len(handed) + 1
  <2>1. /\ happened' = Append(happened, S!Published) /\ S!Hand(S!Published)
        /\ UNCHANGED <<consecutive, unqueued, untold>>
    BY <1>8 DEF S!Replaces, S!Reload
  <2>2. handed' = Append(handed, S!Published) /\ reloadCalls' = Append(<<>>, c)
    BY <1>3, <2>1 DEF S!Hand, S!Hooked, Asleep, AllTold, Waiting
  <2>3. S!Told' = S!Told
    BY <1>4, <1>5, <2>2, ToldStays
  <2>4. happened' = Append(S!Told', S!Published) /\ consecutive' <= failures'
    BY <1>1, <1>3, <1>4, <2>1, <2>3 DEF AllTold
  <2>5. c \in Nat /\ c \in DOMAIN handed' /\ handed'[c] = S!Published
    BY <1>1, <1>5, <2>2
  <2>6. reloadCalls' = <<c>> /\ failureCalls' = 0 /\ Queued({}, 0)' /\ Asleep'
    BY <1>3, <1>4, <2>1, <2>2 DEF AllTold, Queued, Waiting, Asleep
  <2> HIDE DEF c
  <2>7. PICK o \in S!Documents : o = S!Published
    BY <1>5
  <2>8. LastUntold(o)'
    BY <1>5, <2>4, <2>5, <2>6, <2>7 DEF LastUntold, Carries, Waiting
  <2> QED BY <1>3, <1>4, <2>8
<1> QED BY <1>6, <1>7, <1>8

LEMMA InTurnKept ==
  ASSUME MaxReloads \in Nat, StreamInv, InTurn, [S!Next]_streamVars
  PROVE  InTurn'
<1> SUFFICES ASSUME events, attentive, ~Leaving, ~Leaving'
             PROVE  /\ document' = S!None
                    /\ AllTold' \/ \E o \in S!Documents \cup {S!None} : LastUntold(o)'
  BY LeavingIsForGood DEF InTurn
<1>1. document = S!None /\ (AllTold \/ \E o \in S!Documents \cup {S!None} : LastUntold(o))
  BY DEF InTurn
<1>2. /\ consecutive \in Nat /\ failures \in Nat /\ Len(happened) \in Nat
      /\ yielded \in Seq(Nat) /\ handed \in Seq(S!Documents) /\ pending \in Nat
  BY DEF StreamInv, S!TypeOK
<1>3. CASE S!Installs \/ S!Refuses \/ S!Replaces
  BY <1>3, HappensInTurn
<1>4. ASSUME NEW d \in S!Documents, S!QueueReload(d)
      PROVE  document' = S!None /\ LastUntold(d)'
  <2>1. UNCHANGED <<consecutive, happened, untold, failureCalls, pending, refused, failures,
                    turn, document, yielded>>
    BY <1>4 DEF S!QueueReload, S!generator
  <2>2. PICK o \in S!Documents \cup {S!None} : LastUntold(o)
    BY <1>1, <1>4 DEF S!QueueReload, AllTold, Queued
  <2>3. o = d /\ d # S!None /\ Queued({d}, 0) /\ Waiting(<<>>, 0) /\ Asleep
    BY <1>4, <2>2 DEF S!QueueReload, LastUntold, Queued, S!Documents, S!None
  <2> DEFINE c == Len(handed) + 1
  <2>4. unqueued' = {} /\ handed' = Append(handed, d) /\ reloadCalls' = Append(<<>>, c)
    BY <1>4, <2>3 DEF S!QueueReload, S!Hand, S!Hooked, Asleep, Queued, Waiting
  <2>5. c \in Nat /\ c \in DOMAIN handed' /\ handed'[c] = d /\ reloadCalls' = <<c>>
    BY <1>2, <2>4
  <2>6. S!Told' = S!Told
    BY <2>1, <2>4, ToldStays
  <2>7. Queued({}, 0)' /\ Asleep' /\ failureCalls' = 0
    BY <2>1, <2>3, <2>4 DEF Queued, Waiting, Asleep
  <2> HIDE DEF c
  <2>8. LastUntold(d)'
    BY <2>1, <2>2, <2>3, <2>5, <2>6, <2>7 DEF LastUntold, Carries, Waiting
  <2> QED BY <1>1, <2>1, <2>8
<1>5. CASE S!QueueFailure
  <2>1. UNCHANGED <<consecutive, happened, unqueued, handed, reloadCalls, pending, refused,
                    failures, turn, document, yielded>>
    BY <1>5 DEF S!QueueFailure, S!generator
  <2>2. PICK o \in S!Documents \cup {S!None} : LastUntold(o)
    BY <1>1, <1>5 DEF S!QueueFailure, AllTold, Queued
  <2>3. o = S!None /\ Queued({}, 1) /\ Waiting(<<>>, 0) /\ Asleep
    BY <1>5, <2>2 DEF S!QueueFailure, LastUntold, Queued
  <2>4. untold' = 0 /\ failureCalls' = 1
    BY <1>5, <2>3 DEF S!QueueFailure, S!HookedFailures, S!Hooked, Asleep, Queued, Waiting
  <2>5. Queued({}, 0)' /\ Asleep' /\ Waiting(<<>>, 1)'
    BY <2>1, <2>3, <2>4 DEF Queued, Waiting, Asleep
  <2>6. S!Told' = S!Told
    BY <2>1, ToldStays
  <2>7. S!None \in Nat /\ Carries(S!None, S!None)'
    BY DEF S!None, Carries
  <2>8. LastUntold(S!None)'
    BY <2>1, <2>2, <2>3, <2>5, <2>6, <2>7 DEF LastUntold
  <2> QED BY <1>1, <2>1, <2>8
<1>6. CASE S!ReloadHook
  <2>1. UNCHANGED <<consecutive, happened, unqueued, untold, handed, failureCalls, yielded,
                    failures, refused, document>>
    BY <1>6 DEF S!ReloadHook, S!engine
  <2>2. PICK o \in S!Documents \cup {S!None} : LastUntold(o)
    BY <1>1, <1>6 DEF S!ReloadHook, AllTold, Waiting
  <2>3. o # S!None /\ Queued({}, 0) /\ Asleep
    BY <1>6, <2>2 DEF S!ReloadHook, LastUntold, Waiting
  <2>4. PICK c \in Nat : Carries(c, o) /\ Waiting(<<c>>, 0)
    BY <1>6, <2>2, <2>3 DEF S!ReloadHook, LastUntold, Waiting
  <2>5. pending' = c /\ turn' = "awake" /\ reloadCalls' = <<>>
    BY <1>6, <2>3, <2>4 DEF S!ReloadHook, S!Woken, Waiting, Asleep
  <2>6. S!Told' = S!Told
    BY <2>1, ToldStays
  <2>7. Queued({}, 0)' /\ Waiting(<<>>, 0)' /\ Carries(c, o)' /\ refused' = FALSE
    BY <2>1, <2>3, <2>4, <2>5 DEF Queued, Waiting, Carries, Asleep
  <2>8. LastUntold(o)'
    BY <2>1, <2>2, <2>3, <2>5, <2>6, <2>7 DEF LastUntold, Carries
  <2> QED BY <1>1, <2>1, <2>8
<1>7. CASE S!FailureHook
  <2>1. UNCHANGED <<consecutive, happened, unqueued, untold, handed, reloadCalls, yielded,
                    failures, pending, document>>
    BY <1>7 DEF S!FailureHook, S!engine
  <2>2. PICK o \in S!Documents \cup {S!None} : LastUntold(o)
    BY <1>1, <1>7 DEF S!FailureHook, AllTold, Waiting
  <2>3. o = S!None /\ Queued({}, 0) /\ Waiting(<<>>, 1) /\ Asleep
    BY <1>7, <2>2 DEF S!FailureHook, LastUntold, Waiting
  <2>4. refused' = TRUE /\ turn' = "awake" /\ failureCalls' = 0
    BY <1>7, <2>3 DEF S!FailureHook, S!Woken, Waiting, Asleep
  <2>5. S!Told' = S!Told
    BY <2>1, ToldStays
  <2>6. Queued({}, 0)' /\ Waiting(<<>>, 0)' /\ Carries(pending, o)'
    BY <2>1, <2>3, <2>4 DEF Queued, Waiting, Carries, Asleep
  <2>7. LastUntold(o)'
    BY <2>1, <2>2, <2>3, <2>4, <2>5, <2>6 DEF LastUntold
  <2> QED BY <1>1, <2>1, <2>7
<1>8. CASE S!Abort
  <2>1. /\ turn \in {"new", "reading", "hooking", "yielded"} /\ turn' = turn
        /\ UNCHANGED <<consecutive, happened, unqueued, untold, handed, reloadCalls,
                       failureCalls, yielded, failures, pending, refused, document>>
    BY <1>1, <1>8 DEF S!Abort, S!Running, S!Woken, S!engine, S!queues, Leaving, AllTold,
                      LastUntold, Asleep
  <2>2. AllTold
    BY <1>1, <2>1 DEF LastUntold, Asleep
  <2>3. S!Told' = S!Told
    BY <2>1, ToldStays
  <2> QED BY <1>1, <2>1, <2>2, <2>3 DEF AllTold, Queued, Waiting
<1>9. CASE S!End \/ S!Break \/ S!Overtaken
  BY <1>9 DEF S!End, S!Break, S!Overtaken, Leaving
<1>10. CASE S!Take
  <2>1. PICK o \in S!Documents \cup {S!None} : LastUntold(o)
    BY <1>1, <1>10 DEF S!Take, AllTold
  <2>2. /\ happened = Append(S!Told, o)
        /\ IF o = S!None THEN consecutive = failures + 1 ELSE consecutive <= failures
        /\ Queued({}, 0) /\ Waiting(<<>>, 0) /\ Carries(pending, o)
    BY <1>10, <2>1 DEF S!Take, LastUntold, Asleep
  <2>3. UNCHANGED <<consecutive, happened, unqueued, untold, handed, reloadCalls, failureCalls>>
    BY <1>10 DEF S!Take, S!engine, S!queues
  <2>4. /\ yielded' = Append(yielded, pending) /\ document' = S!None /\ turn' = "yielded"
        /\ failures' = consecutive /\ pending' = S!None /\ refused' = FALSE
    <3>1. CASE o = S!None
      <4>1. consecutive > failures /\ pending = S!None
        BY <1>2, <2>2, <3>1 DEF Carries
      <4> QED BY <1>10, <4>1 DEF S!Take, S!TellRefusal
    <3>2. CASE o # S!None
      <4>1. ~(consecutive > failures) /\ pending # S!None
        BY <1>2, <2>2, <3>2 DEF Carries, S!None
      <4> QED BY <1>10, <4>1 DEF S!Take, S!TellDocument
    <3> QED BY <3>1, <3>2
  <2>5. S!Told' = happened
    BY <1>2, <2>2, <2>3, <2>4, Telling
  <2> QED BY <2>2, <2>3, <2>4, <2>5 DEF AllTold, Queued, Waiting
<1>11. CASE S!Resume
  <2>1. AllTold
    BY <1>1, <1>11 DEF S!Resume, LastUntold, Asleep
  <2>2. /\ UNCHANGED <<consecutive, happened, unqueued, untold, handed, reloadCalls,
                       failureCalls, yielded, failures, pending, refused, document>>
        /\ turn' = "waiting"
    BY <1>1, <1>11, <2>1 DEF S!Resume, S!engine, S!queues, AllTold, Leaving
  <2>3. S!Told' = S!Told
    BY <2>2, ToldStays
  <2> QED BY <1>1, <2>1, <2>2, <2>3 DEF AllTold, Queued, Waiting
<1>12. CASE S!Start \/ S!HookReloads \/ S!HookFailures
  <2>1. /\ UNCHANGED <<consecutive, happened, unqueued, untold, handed, reloadCalls,
                       failureCalls, yielded, pending, refused, document>>
        /\ failures' \in {failures, consecutive}
        /\ turn' \in {"reading", "hooking", "waiting"}
    BY <1>12 DEF S!Start, S!HookReloads, S!HookFailures, S!FirstTurn, S!engine, S!queues, Leaving
  <2>2. AllTold
    BY <1>1, <1>12 DEF S!Start, S!HookReloads, S!HookFailures, LastUntold, Asleep
  <2>3. S!Told' = S!Told
    BY <2>1, ToldStays
  <2> QED BY <1>1, <2>1, <2>2, <2>3 DEF AllTold, Queued, Waiting
<1>13. CASE UNCHANGED streamVars
  <2>1. UNCHANGED <<consecutive, happened, unqueued, untold, handed, reloadCalls, failureCalls,
                    yielded, failures, pending, refused, document, turn>>
    BY <1>13 DEF streamVars
  <2>2. S!Told' = S!Told
    BY <2>1, ToldStays
  <2> QED BY <1>1, <2>1, <2>2 DEF AllTold, LastUntold, Queued, Waiting, Asleep, Carries
<1> QED BY <1>3, <1>4, <1>5, <1>6, <1>7, <1>8, <1>9, <1>10, <1>11, <1>12, <1>13
        DEF S!Next, S!Loop, S!Threads

-----------------------------------------------------------------------------
(* Overrides, of a program whose blocks nest. *)

AllBlocks == {b1, b2, b3}

(* The pins in a body: those its block found, and its own.                 *)
PinsOf(b) == O!With(before[b], Pins[b], b)
InForceHere(n) == IF n = 0 THEN found ELSE PinsOf(open[n])

(* The blocks under way are a stack: all but the innermost are in a body.  *)
Nested ==
  /\ \A i, j \in DOMAIN open : open[i] = open[j] => i = j
  /\ \A i \in DOMAIN open : i < Len(open) => inside[open[i]] = "body"

(* Each of them found the pins of the one around it, and the layer has     *)
(* those of the innermost, or what it found once it is leaving.            *)
Stacked ==
  O!NoneRefused =>
    /\ \A i \in DOMAIN open : before[open[i]] = InForceHere(i - 1)
    /\ pinned = IF open # <<>> /\ inside[open[Len(open)]] = "leaving"
                THEN InForceHere(Len(open) - 1) ELSE InForceHere(Len(open))
    /\ ~unread /\ (open # <<>> => inside[open[Len(open)]] = "body") =>
         served = InForceHere(Len(open))

OverridesInv == O!TypeOK /\ Nested /\ Stacked

LEMMA Popping ==
  ASSUME NEW T, NEW s \in Seq(T), s # <<>>
  PROVE  LET r == O!RemoveAt(s, Len(s))
         IN  r \in Seq(T) /\ Len(r) = Len(s) - 1 /\ \A i \in 1..(Len(s) - 1) : r[i] = s[i]
<1> DEFINE n == Len(s)
<1>1. n \in Nat /\ n >= 1 /\ DOMAIN s = 1..n
  OBVIOUS
<1>2. /\ SubSeq(s, 1, n - 1) \in Seq(T) /\ Len(SubSeq(s, 1, n - 1)) = n - 1
      /\ \A i \in 1..(n - 1) : SubSeq(s, 1, n - 1)[i] = s[i]
  BY <1>1
<1>3. SubSeq(s, n + 1, n) = <<>>
  BY <1>1
<1> QED BY <1>1, <1>2, <1>3 DEF O!RemoveAt

LEMMA InitOverrides ==
  ASSUME O!Init
  PROVE  OverridesInv
<1>1. open = <<>> /\ DOMAIN open = {} /\ Len(open) = 0 /\ pinned = found /\ served = found
  BY DEF O!Init
<1>2. O!TypeOK
  <2>1. unread \in BOOLEAN
    BY Zenon DEF O!Init
  <2>2. {pinned, served, found} \subseteq O!Pinning /\ before \in [AllBlocks -> O!Pinning]
    BY DEF O!Init, O!Pinning, AllBlocks
  <2>3. /\ inside \in [AllBlocks -> {"ready", "entering", "body", "leaving", "done", "refused"}]
        /\ \A b \in AllBlocks : inside[b] = "ready"
    BY DEF O!Init, AllBlocks
  <2> QED BY <1>1, <2>1, <2>2, <2>3 DEF O!TypeOK, AllBlocks
<1>3. Nested /\ Stacked
  BY <1>1 DEF Nested, Stacked, InForceHere
<1> QED BY <1>2, <1>3 DEF OverridesInv

Stations == {"ready", "entering", "body", "leaving", "done", "refused"}

LEMMA Pinned ==
  ASSUME NEW b \in AllBlocks, NEW paths, NEW pins \in O!Pinning
  PROVE  O!With(pins, paths, b) \in O!Pinning
BY DEF O!With, O!Pinning, AllBlocks

(***************************************************************************)
(* A block is pushed on top of one that is in its body.                    *)
(***************************************************************************)
LEMMA Enters ==
  ASSUME Concurrent = FALSE, OverridesInv, NEW b \in AllBlocks, O!Enter(b)
  PROVE  OverridesInv'
<1>0. PICK n \in Nat : n = Len(open)
  BY DEF OverridesInv, O!TypeOK
<1>1. /\ inside[b] = "ready" /\ (open # <<>> => inside[open[n]] = "body")
      /\ before' = [before EXCEPT ![b] = pinned]
      /\ pinned' = O!With(pinned, Pins[b], b)
      /\ inside' = [inside EXCEPT ![b] = "entering"]
      /\ open' = Append(open, b) /\ UNCHANGED <<served, found, unread>>
  BY <1>0 DEF O!Enter, O!MayBegin
<1>2. /\ open \in Seq(AllBlocks) /\ inside \in [AllBlocks -> Stations]
      /\ before \in [AllBlocks -> O!Pinning] /\ pinned \in O!Pinning
      /\ n \in Nat /\ DOMAIN open = 1..n
      /\ \A i \in 1..n : open[i] \in AllBlocks /\ open[i] # b
  BY <1>0, <1>1 DEF OverridesInv, O!TypeOK, AllBlocks, Stations
<1>3. /\ open' \in Seq(AllBlocks) /\ Len(open') = n + 1 /\ open' # <<>>
      /\ DOMAIN open' = 1..(n + 1) /\ open'[n + 1] = b
      /\ \A i \in 1..n : open'[i] = open[i]
  <2>1. open' \in Seq(AllBlocks) /\ Len(open') = n + 1
    BY <1>0, <1>1, <1>2
  <2>2. open'[n + 1] = b /\ \A i \in 1..n : open'[i] = open[i]
    BY <1>0, <1>1, <1>2
  <2> QED BY <1>2, <2>1, <2>2
<1>4. /\ inside'[b] = "entering" /\ \A c \in AllBlocks \ {b} : inside'[c] = inside[c]
      /\ before'[b] = pinned /\ \A c \in AllBlocks \ {b} : before'[c] = before[c]
      /\ inside' \in [AllBlocks -> Stations] /\ before' \in [AllBlocks -> O!Pinning]
  BY <1>1, <1>2 DEF Stations
<1>5. O!TypeOK'
  <2>1. {pinned, served, found}' \subseteq O!Pinning
    BY <1>1, <1>2, Pinned DEF OverridesInv, O!TypeOK
  <2>2. unread' \in BOOLEAN
    BY <1>1, Zenon DEF OverridesInv, O!TypeOK
  <2>3. ASSUME NEW c \in AllBlocks
        PROVE  inside'[c] \in {"entering", "body", "leaving"} <=>
                 \E i \in DOMAIN open' : open'[i] = c
    <3>1. CASE c = b
      BY <1>3, <1>4, <3>1
    <3>2. CASE c # b
      <4>1. (\E i \in DOMAIN open' : open'[i] = c) <=> (\E i \in DOMAIN open : open[i] = c)
        BY <1>2, <1>3, <3>2
      <4> QED BY <1>4, <3>2, <4>1 DEF OverridesInv, O!TypeOK, AllBlocks
    <3> QED BY <3>1, <3>2
  <2> QED BY <1>3, <1>4, <2>1, <2>2, <2>3 DEF O!TypeOK, AllBlocks, Stations
<1>6. Nested'
  <2>1. \A i, j \in DOMAIN open' : open'[i] = open'[j] => i = j
    BY <1>2, <1>3 DEF OverridesInv, Nested
  <2>2. ASSUME NEW i \in 1..n PROVE inside'[open'[i]] = "body"
    <3>1. inside[open[i]] = "body"
      BY <1>0, <1>1, <1>2 DEF OverridesInv, Nested
    <3> QED BY <1>2, <1>3, <1>4, <3>1
  <2> QED BY <1>2, <1>3, <2>1, <2>2 DEF Nested
<1>7. ASSUME O!NoneRefused' PROVE
        /\ \A i \in DOMAIN open' : before'[open'[i]] = InForceHere(i - 1)'
        /\ pinned' = InForceHere(n + 1)'
  <2>1. O!NoneRefused
    BY <1>1, <1>4, <1>7 DEF O!NoneRefused, AllBlocks
  <2>2. pinned = InForceHere(n) /\ \A i \in 1..n : before[open[i]] = InForceHere(i - 1)
    BY <1>0, <1>1, <1>2, <2>1 DEF OverridesInv, Stacked
  <2>3. \A i \in 0..n : InForceHere(i)' = InForceHere(i)
    BY <1>1, <1>2, <1>3, <1>4 DEF InForceHere, PinsOf, O!With
  <2>4. InForceHere(n + 1)' = O!With(pinned, Pins[b], b)
    BY <1>2, <1>3, <1>4 DEF InForceHere, PinsOf, O!With
  <2>5. ASSUME NEW i \in 1..(n + 1) PROVE before'[open'[i]] = InForceHere(i - 1)'
    <3>1. CASE i = n + 1
      BY <1>2, <1>3, <1>4, <2>2, <2>3, <3>1
    <3>2. CASE i \in 1..n
      <4>1. before'[open'[i]] = before[open[i]]
        BY <1>2, <1>3, <1>4, <3>2
      <4>2. i - 1 \in 0..n
        BY <1>2, <3>2
      <4> QED BY <2>2, <2>3, <3>2, <4>1, <4>2
    <3> QED BY <1>2, <3>1, <3>2
  <2> QED BY <1>1, <1>3, <2>4, <2>5
<1>8. Stacked'
  BY <1>3, <1>4, <1>7 DEF Stacked
<1> QED BY <1>5, <1>6, <1>8 DEF OverridesInv

(***************************************************************************)
(* The innermost block gets its document, or takes its pins back.          *)
(***************************************************************************)
LEMMA Turns ==
  ASSUME Concurrent = FALSE, OverridesInv, NEW b \in AllBlocks, O!Entered(b) \/ O!Leave(b)
  PROVE  OverridesInv'
<1>0. PICK n \in Nat : n = Len(open)
  BY DEF OverridesInv, O!TypeOK
<1>1. /\ open # <<>> /\ open[n] = b /\ inside[b] \in {"entering", "body"}
      /\ UNCHANGED <<before, open, found, unread>>
      /\ \/ inside' = [inside EXCEPT ![b] = "body"] /\ served' = pinned /\ pinned' = pinned
         \/ inside' = [inside EXCEPT ![b] = "leaving"] /\ pinned' = before[b] /\ served' = served
  BY <1>0 DEF O!Entered, O!Leave, O!MayStep, O!Innermost
<1>2. /\ open \in Seq(AllBlocks) /\ inside \in [AllBlocks -> Stations]
      /\ before \in [AllBlocks -> O!Pinning] /\ pinned \in O!Pinning /\ served \in O!Pinning
      /\ n \in Nat /\ n >= 1 /\ DOMAIN open = 1..n
  <2>1. open \in Seq(AllBlocks)
    BY DEF OverridesInv, O!TypeOK, AllBlocks
  <2>2. n \in Nat /\ n >= 1 /\ DOMAIN open = 1..n
    BY <1>0, <1>1, <2>1
  <2> QED BY <2>1, <2>2 DEF OverridesInv, O!TypeOK, AllBlocks, Stations
<1>3. /\ inside'[b] \in {"body", "leaving"} /\ \A c \in AllBlocks \ {b} : inside'[c] = inside[c]
      /\ inside' \in [AllBlocks -> Stations]
  BY <1>1, <1>2 DEF Stations
<1>4. O!TypeOK'
  <2>1. {pinned, served, found}' \subseteq O!Pinning
    BY <1>1, <1>2 DEF OverridesInv, O!TypeOK
  <2>2. unread' \in BOOLEAN
    BY <1>1, Zenon DEF OverridesInv, O!TypeOK
  <2>3. \A c \in AllBlocks : inside'[c] \in {"entering", "body", "leaving"} <=>
          inside[c] \in {"entering", "body", "leaving"}
    BY <1>1, <1>3
  <2> QED BY <1>1, <1>2, <1>3, <2>1, <2>2, <2>3 DEF OverridesInv, O!TypeOK, AllBlocks, Stations
<1>5. Nested'
  <2>1. \A i \in 1..n : i < n => open[i] # b /\ open[i] \in AllBlocks
    BY <1>1, <1>2 DEF OverridesInv, Nested
  <2> QED BY <1>0, <1>1, <1>2, <1>3, <2>1 DEF OverridesInv, Nested
<1>6. Stacked'
  <2> SUFFICES ASSUME O!NoneRefused' PROVE
        /\ \A i \in DOMAIN open' : before'[open'[i]] = InForceHere(i - 1)'
        /\ pinned' = IF inside'[b] = "leaving" THEN InForceHere(n - 1)' ELSE InForceHere(n)'
        /\ ~unread' /\ inside'[b] = "body" => served' = InForceHere(n)'
    BY <1>0, <1>1 DEF Stacked
  <2>1. O!NoneRefused
    BY <1>1, <1>3 DEF O!NoneRefused, AllBlocks
  <2>2. pinned = InForceHere(n) /\ \A i \in 1..n : before[open[i]] = InForceHere(i - 1)
    BY <1>0, <1>1, <1>2, <2>1 DEF OverridesInv, Stacked
  <2>3. \A i : InForceHere(i)' = InForceHere(i)
    BY <1>1 DEF InForceHere, PinsOf, O!With
  <2>4. before[b] = InForceHere(n - 1)
    BY <1>1, <1>2, <2>2
  <2>5. open' = open /\ before' = before
    BY <1>1
  <2>6. CASE inside' = [inside EXCEPT ![b] = "body"] /\ served' = pinned /\ pinned' = pinned
    <3>1. inside'[b] = "body"
      BY <1>2, <2>6
    <3> QED BY <1>1, <1>2, <2>2, <2>3, <2>5, <2>6, <3>1
  <2>7. CASE inside' = [inside EXCEPT ![b] = "leaving"] /\ pinned' = before[b] /\ served' = served
    <3>1. inside'[b] = "leaving"
      BY <1>2, <2>7
    <3> QED BY <1>1, <1>2, <2>2, <2>3, <2>4, <2>5, <2>7, <3>1
  <2> QED BY <1>1, <2>6, <2>7
<1> QED BY <1>4, <1>5, <1>6 DEF OverridesInv

(***************************************************************************)
(* The innermost block is gone, and the one around it is where it was.     *)
(***************************************************************************)
LEMMA Leaves ==
  ASSUME Concurrent = FALSE, OverridesInv, NEW b \in AllBlocks, O!Left(b) \/ O!LeftUnread(b)
  PROVE  OverridesInv'
<1>0. PICK n \in Nat : n = Len(open)
  BY DEF OverridesInv, O!TypeOK
<1>1. /\ open # <<>> /\ open[n] = b /\ inside[b] = "leaving"
      /\ inside' = [inside EXCEPT ![b] = "done"] /\ UNCHANGED <<pinned, before, found>>
      /\ \E i \in DOMAIN open : open[i] = b /\ open' = O!RemoveAt(open, i)
      /\ \/ served' = pinned /\ unread' = unread
         \/ served' = served /\ unread' = TRUE
  BY <1>0 DEF O!Left, O!LeftUnread, O!Ends, O!MayStep, O!Innermost
<1>2. /\ open \in Seq(AllBlocks) /\ inside \in [AllBlocks -> Stations]
      /\ before \in [AllBlocks -> O!Pinning] /\ pinned \in O!Pinning /\ served \in O!Pinning
      /\ n >= 1 /\ DOMAIN open = 1..n
  <2>1. open \in Seq(AllBlocks)
    BY DEF OverridesInv, O!TypeOK, AllBlocks
  <2>2. n >= 1 /\ DOMAIN open = 1..n
    BY <1>0, <1>1, <2>1
  <2> QED BY <2>1, <2>2 DEF OverridesInv, O!TypeOK, AllBlocks, Stations
<1>3. open' = O!RemoveAt(open, n)
  BY <1>0, <1>1, <1>2 DEF OverridesInv, Nested
<1>4. /\ open' \in Seq(AllBlocks) /\ Len(open') = n - 1 /\ DOMAIN open' = 1..(n - 1)
      /\ \A i \in 1..(n - 1) : open'[i] = open[i] /\ open[i] # b /\ open[i] \in AllBlocks
  <2>1. /\ open' \in Seq(AllBlocks) /\ Len(open') = n - 1
        /\ \A i \in 1..(n - 1) : open'[i] = open[i]
    BY <1>0, <1>1, <1>2, <1>3, Popping
  <2>2. DOMAIN open' = 1..(n - 1)
    BY <2>1
  <2>3. \A i \in 1..(n - 1) : open[i] # b /\ open[i] \in AllBlocks
    BY <1>1, <1>2 DEF OverridesInv, Nested
  <2> QED BY <2>1, <2>2, <2>3
<1>5. /\ inside'[b] = "done" /\ \A c \in AllBlocks \ {b} : inside'[c] = inside[c]
      /\ inside' \in [AllBlocks -> Stations]
  BY <1>1, <1>2 DEF Stations
<1>6. \A i \in 1..(n - 1) : inside'[open'[i]] = "body"
  <2>1. \A i \in 1..(n - 1) : inside[open[i]] = "body"
    BY <1>0, <1>2 DEF OverridesInv, Nested
  <2> QED BY <1>4, <1>5, <2>1
<1>7. O!TypeOK'
  <2>1. {pinned, served, found}' \subseteq O!Pinning
    BY <1>1, <1>2 DEF OverridesInv, O!TypeOK
  <2>2. unread' \in BOOLEAN
    <3>1. CASE unread' = unread
      BY <3>1, Zenon DEF OverridesInv, O!TypeOK
    <3>2. CASE unread' = TRUE
      BY <3>2, Zenon
    <3> QED BY <1>1, <3>1, <3>2
  <2>3. ASSUME NEW c \in AllBlocks
        PROVE  inside'[c] \in {"entering", "body", "leaving"} <=>
                 \E i \in DOMAIN open' : open'[i] = c
    <3>1. CASE c = b
      BY <1>4, <1>5, <3>1
    <3>2. CASE c # b
      <4>1. (\E i \in DOMAIN open' : open'[i] = c) <=> (\E i \in DOMAIN open : open[i] = c)
        BY <1>1, <1>2, <1>4, <3>2
      <4> QED BY <1>5, <3>2, <4>1 DEF OverridesInv, O!TypeOK, AllBlocks
    <3> QED BY <3>1, <3>2
  <2> QED BY <1>1, <1>2, <1>4, <1>5, <2>1, <2>2, <2>3 DEF O!TypeOK, AllBlocks, Stations
<1>8. Nested'
  <2>1. \A i, j \in DOMAIN open' : open'[i] = open'[j] => i = j
    BY <1>2, <1>4 DEF OverridesInv, Nested
  <2> QED BY <1>4, <1>6, <2>1 DEF Nested
<1>9. ASSUME O!NoneRefused' PROVE
        /\ \A i \in DOMAIN open' : before'[open'[i]] = InForceHere(i - 1)'
        /\ pinned' = InForceHere(n - 1)' /\ (~unread' => served' = InForceHere(n - 1)')
  <2>1. O!NoneRefused
    BY <1>1, <1>5, <1>9 DEF O!NoneRefused, AllBlocks
  <2>2. pinned = InForceHere(n - 1) /\ \A i \in 1..n : before[open[i]] = InForceHere(i - 1)
    BY <1>0, <1>1, <1>2, <2>1 DEF OverridesInv, Stacked
  <2>3. \A i \in 0..(n - 1) : InForceHere(i)' = InForceHere(i)
    BY <1>1, <1>4 DEF InForceHere, PinsOf, O!With
  <2>4. n - 1 \in 0..(n - 1) /\ \A i \in 1..(n - 1) : i - 1 \in 0..(n - 1)
    BY <1>2
  <2>5. ~unread' => served' = pinned
    BY <1>1
  <2> QED BY <1>1, <1>4, <2>2, <2>3, <2>4, <2>5
<1>10. open' # <<>> => inside'[open'[n - 1]] = "body"
  <2>1. open' # <<>> => n - 1 \in 1..(n - 1)
    BY <1>2, <1>4
  <2> QED BY <1>6, <2>1
<1>11. Stacked'
  BY <1>4, <1>9, <1>10 DEF Stacked
<1> QED BY <1>7, <1>8, <1>11 DEF OverridesInv

LEMMA NextOverrides ==
  ASSUME Concurrent = FALSE, OverridesInv, [O!Next]_overridesVars
  PROVE  OverridesInv'
<1>1. ASSUME NEW b \in AllBlocks, O!EnterRefused(b) PROVE OverridesInv'
  <2>1. /\ inside[b] = "ready" /\ inside' = [inside EXCEPT ![b] = "refused"]
        /\ UNCHANGED <<served, before, open, found, unread>> /\ pinned' \in O!Pinning
    BY <1>1, Pinned DEF O!EnterRefused, OverridesInv, O!TypeOK
  <2>2. inside'[b] = "refused" /\ \A c \in AllBlocks \ {b} : inside'[c] = inside[c]
    BY <2>1 DEF OverridesInv, O!TypeOK, AllBlocks
  <2>3. unread' \in BOOLEAN
    BY <2>1, Zenon DEF OverridesInv, O!TypeOK
  <2>4. inside' \in [AllBlocks -> Stations] /\ open \in Seq(AllBlocks)
    BY <2>1 DEF OverridesInv, O!TypeOK, AllBlocks, Stations
  <2>5. O!TypeOK'
    BY <2>1, <2>2, <2>3, <2>4 DEF OverridesInv, O!TypeOK, AllBlocks, Stations
  <2>6. \A i \in DOMAIN open : open[i] \in AllBlocks /\ open[i] # b
    BY <2>1, <2>4 DEF OverridesInv, O!TypeOK, AllBlocks
  <2>7. Nested'
    BY <2>1, <2>2, <2>6 DEF OverridesInv, Nested
  <2>8. ~O!NoneRefused'
    BY <2>2 DEF O!NoneRefused, AllBlocks
  <2> QED BY <2>5, <2>7, <2>8 DEF OverridesInv, Stacked
<1>2. CASE UNCHANGED overridesVars
  <2>1. UNCHANGED <<pinned, served, inside, before, open, found, unread>>
    BY <1>2 DEF overridesVars
  <2>2. unread' \in BOOLEAN
    BY <2>1, Zenon DEF OverridesInv, O!TypeOK
  <2>3. O!TypeOK'
    BY <2>1, <2>2 DEF OverridesInv, O!TypeOK
  <2>4. Nested'
    BY <2>1 DEF OverridesInv, Nested
  <2>5. \A i : InForceHere(i)' = InForceHere(i)
    BY <2>1 DEF InForceHere, PinsOf, O!With
  <2>6. Stacked'
    BY <2>1, <2>5 DEF OverridesInv, Stacked, O!NoneRefused
  <2> QED BY <2>3, <2>4, <2>6 DEF OverridesInv
<1> QED BY <1>1, <1>2, Enters, Turns, Leaves DEF O!Next, AllBlocks

(***************************************************************************)
(* The bottom of the stack is what the program had pinned, the top is what *)
(* the body runs on.                                                       *)
(***************************************************************************)
LEMMA OverridesKeepTheirWord ==
  ASSUME OverridesInv
  PROVE  O!PinsAreRestored /\ O!BodySeesItsPins
<1>1. O!PinsAreRestored
  BY DEF OverridesInv, Stacked, InForceHere, O!PinsAreRestored
<1>2. ASSUME ~unread, O!NoneRefused, NEW b \in AllBlocks, O!Innermost(b), inside[b] = "body",
             NEW path \in Pins[b]
      PROVE  served[path] = b
  <2>1. served = InForceHere(Len(open)) /\ Len(open) # 0
    BY <1>2 DEF OverridesInv, Stacked, O!TypeOK, O!Innermost
  <2>2. served = O!With(before[b], Pins[b], b)
    BY <1>2, <2>1 DEF InForceHere, PinsOf, O!Innermost
  <2>3. path \in {p, q}
    BY <1>2 DEF Pins, AllBlocks
  <2> QED BY <1>2, <2>2, <2>3 DEF O!With
<1> QED BY <1>1, <1>2 DEF O!BodySeesItsPins, AllBlocks

-----------------------------------------------------------------------------
(* Documents: what is proved of changedPaths() there, here. *)

DP == INSTANCE Documents_proofs WITH before <- older, after <- newer

LEMMA ReportAlways ==
  ASSUME Dotted = FALSE, D!TypeOK
  PROVE  ReportIsExact
<1>1. DP!Undotted
  BY DEF DP!Undotted, Keys
<1>2. DP!NoneIsNothing
  BY ProgramAssumption
  DEF DP!NoneIsNothing, DP!Docs, D!Docs, DP!TopTables, D!TopTables, DP!Leaves, D!Leaves,
      DP!InnerTables, D!InnerTables, DP!TablesOf, D!TablesOf
<1>3. DP!TypeOK
  BY DEF DP!TypeOK, D!TypeOK, DP!TopTables, D!TopTables, DP!Leaves, D!Leaves,
         DP!InnerTables, D!InnerTables, DP!TablesOf, D!TablesOf
<1>4. DP!ReportIsExact
  BY <1>1, <1>2, <1>3, DP!ReportsAreExact
<1>5. \A d, e : D!changedPaths(d, e) = DP!changedPaths(d, e)
  <2>1. D!Walk = DP!Walk
    BY DEF D!Walk, DP!Walk, D!Docs, DP!Docs, DP!TopTables, D!TopTables, DP!Leaves, D!Leaves,
           DP!InnerTables, D!InnerTables, DP!TablesOf, D!TablesOf, D!IsTable, DP!IsTable
  <2>2. \A d : D!OrEmpty(d) = DP!OrEmpty(d)
    BY DEF D!OrEmpty, DP!OrEmpty
  <2> QED
    BY <2>1, <2>2 DEF D!changedPaths, DP!changedPaths
<1>6. \A d, path : D!at(d, path) = DP!at(d, path)
  BY DEF D!at, DP!at, D!Below, DP!Below, D!IsTable, DP!IsTable
<1>7. /\ D!Paths = DP!Paths
      /\ \A d, e : D!IsPrefix(d, e) = DP!IsPrefix(d, e)
  BY DEF D!Paths, DP!Paths, D!Segments, DP!Segments, D!IsPrefix, DP!IsPrefix, D!ToSet, DP!ToSet
<1>8. \A d, e : D!Comparable(d, e) <=> DP!Comparable(d, e)
  BY <1>7 DEF D!Comparable, DP!Comparable
<1> DEFINE moved == DP!Reported(older, newer)
<1>9. D!Reported(older, newer) = moved
  BY <1>5 DEF D!Reported, DP!Reported
<1> HIDE DEF moved
<1> QED
  BY <1>4, <1>6, <1>7, <1>8, <1>9 DEF ReportIsExact, DP!ReportIsExact, D!ReportIsExact, moved

-----------------------------------------------------------------------------
(* The whole. *)

IInv ==
  /\ HookInv /\ RemoteInv /\ WatcherInv /\ StreamInv /\ D!TypeOK
  /\ Concurrent = FALSE => OverridesInv

LEMMA InitIInv == Init => IInv
<1> SUFFICES ASSUME Init PROVE IInv
  OBVIOUS
<1>1. A!Init /\ R!Init /\ W!Init /\ O!Init /\ S!Init /\ D!Init
  BY DEF Init
<1>2. WatcherInv
  BY <1>1 DEF W!Init, WatcherInv, W!TypeOK, OwnersStop, W!None
<1>3. D!TypeOK
  BY <1>1 DEF D!Init, D!TypeOK
<1> QED BY <1>1, <1>2, <1>3, InitHook, InitRemote, InitStream, InitOverrides, ProgramAssumption
        DEF IInv

LEMMA NextIInv == IInv /\ [Next]_vars => IInv'
<1> SUFFICES ASSUME IInv, [Next]_vars PROVE IInv'
  OBVIOUS
<1>1. D!TypeOK'
  BY PartSteps DEF IInv, D!TypeOK, D!Install, documentVars
<1> QED BY <1>1, PartSteps, NextHook, NextRemote, NextWatcher, NextStream, NextOverrides,
           ProgramAssumption DEF IInv

LEMMA StepProperties ==
  ASSUME IInv, [Next]_vars
  PROVE  /\ \A c \in Refreshes : call[c].at = "asked" /\ call'[c].at = "answered" =>
              call'[c].doc.store \in {awaited, call[c].through}
         /\ Len(yielded') > Len(yielded) /\ yielded'[Len(yielded')] = S!None =>
              \E i \in (covers + 1)..Len(happened) : happened[i] = S!None
<1>1. ASSUME NEW c \in Refreshes, call[c].at = "asked", call'[c].at = "answered"
      PROVE  R!Answer(c)
  <2>1. call \in [Refreshes -> Records]
    BY DEF IInv, RemoteInv, R!TypeOK, Records
  <2>2. call' # call
    BY <1>1
  <2>3. PICK k \in Refreshes : \/ R!Refresh(k) \/ R!Proceed(k)
                               \/ \E s \in R!Stores : R!HandleRefresh(k, s)
    BY <2>2, PartSteps DEF R!Next, R!SetRemoteAsync, R!UseStore, R!ClearRemote, remoteVars
  <2>4. ASSUME k # c PROVE call'[c] = call[c]
    BY <2>1, <2>3, <2>4
       DEF R!Refresh, R!Proceed, R!HandleRefresh, R!Awaiting, R!Goto, R!StoreFetched, R!Fetched,
           R!FetchRejects, R!Enter, R!Answer, R!NothingWaits, R!Dropped, R!Fill
  <2>5. k = c
    BY <1>1, <2>4
  <2>6. ~R!Refresh(c) /\ ~\E s \in R!Stores : R!HandleRefresh(c, s)
    BY <1>1 DEF R!Refresh, R!HandleRefresh, R!Begins
  <2>7. /\ ~R!StoreFetched(c) /\ ~R!Fetched(c) /\ ~R!FetchRejects(c) /\ ~R!Enter(c)
        /\ ~R!Dropped(c) /\ ~R!Fill(c)
    BY <1>1 DEF R!StoreFetched, R!Fetched, R!FetchRejects, R!Enter, R!Dropped, R!Fill
  <2>8. ~R!NothingWaits(c)
    BY <1>1, <2>1 DEF R!NothingWaits, R!Goto, Records
  <2> QED BY <2>3, <2>5, <2>6, <2>7, <2>8 DEF R!Proceed
<1>2. RemoteInv /\ StreamInv /\ MaxReloads \in Nat
  BY ProgramAssumption DEF IInv
<1> QED BY <1>1, <1>2, PartSteps, Answers, TellsNews

(***************************************************************************)
(* In a program whose blocks nest every part keeps its types.              *)
(***************************************************************************)
THEOREM TypesHold ==
  ASSUME Concurrent = FALSE
  PROVE  Spec => []ProgramTypeOK
<1>1. IInv => ProgramTypeOK
  BY DEF IInv, HookInv, RemoteInv, WatcherInv, StreamInv, OverridesInv, ProgramTypeOK
<1> QED BY <1>1, InitIInv, NextIInv, PTL DEF Spec

(***************************************************************************)
(* onReloadAsync(): latest and serial never run two calls of the hook at   *)
(* once, ...                                                               *)
(***************************************************************************)
THEOREM CallsDoNotOverlap == Spec => []NeverInterleaved
<1>1. IInv => NeverInterleaved
  BY HookKeepsItsWord DEF IInv, NeverInterleaved
<1> QED BY <1>1, InitIInv, NextIInv, PTL DEF Spec

(***************************************************************************)
(* ... and only latest drops documents, and only overtaken ones.           *)
(***************************************************************************)
THEOREM OnlyLatestDrops == Spec => []OnlyOvertakenAreDropped
<1>1. IInv => OnlyOvertakenAreDropped
  BY HookKeepsItsWord DEF IInv, OnlyOvertakenAreDropped
<1> QED BY <1>1, InitIInv, NextIInv, PTL DEF Spec

(***************************************************************************)
(* setRemoteAsync(): whatever stores are installed and cleared between the *)
(* steps of any number of refreshes, a document is handed over at most     *)
(* once, ...                                                               *)
(***************************************************************************)
THEOREM DocumentsAreHandedOnce == Spec => []HandedOnce
<1>1. IInv => HandedOnce
  BY DEF IInv, RemoteInv, InOnePlace, Filled, Async, R!HandedOnce, HandedOnce
<1> QED BY <1>1, InitIInv, NextIInv, PTL DEF Spec

(***************************************************************************)
(* ... and as its own store's.                                             *)
(***************************************************************************)
THEOREM DocumentsKeepTheirStore == Spec => NoStoreAnswersForAnother
<1>1. IInv /\ [Next]_vars =>
        [\A c \in Refreshes : call[c].at = "asked" /\ call'[c].at = "answered" =>
           call'[c].doc.store \in {awaited, call[c].through}]_(R!vars)
  BY StepProperties
<1> QED BY <1>1, InitIInv, NextIInv, PTL DEF Spec, NoStoreAnswersForAnother, R!NoStoreAnswersForAnother

(***************************************************************************)
(* watch() and running(): a lifetime that is over has no watcher left,     *)
(* however lifetimes replace one another, and a block that threw is over;  *)
(* as long as none of a group block's members but the first can refuse.    *)
(***************************************************************************)
THEOREM WatchersEndWithTheirLifetime ==
  ASSUME W!FirstsFail
  PROVE  Spec => []NoneOutlivesItsLifetime
<1>1. IInv => NoneOutlivesItsLifetime
  BY DEF IInv, WatcherInv, OwnersStop, W!Ended, W!NoneOutlivesItsLifetime,
         NoneOutlivesItsLifetime
<1> QED BY <1>1, InitIInv, NextIInv, PTL DEF Spec

(***************************************************************************)
(* overrides(): blocks that nest leave the pins as the first found them,   *)
(* whichever reload or body failed, ...                                    *)
(***************************************************************************)
THEOREM PinsComeBack ==
  ASSUME Concurrent = FALSE
  PROVE  Spec => []PinsAreRestored
<1>1. IInv => PinsAreRestored
  BY OverridesKeepTheirWord DEF IInv, PinsAreRestored
<1> QED BY <1>1, InitIInv, NextIInv, PTL DEF Spec

(***************************************************************************)
(* ... and a body runs on a document that has its block's pins.            *)
(***************************************************************************)
THEOREM BodiesSeeTheirPins ==
  ASSUME Concurrent = FALSE
  PROVE  Spec => []BodySeesItsPins
<1>1. IInv => BodySeesItsPins
  BY OverridesKeepTheirWord DEF IInv, BodySeesItsPins
<1> QED BY <1>1, InitIInv, NextIInv, PTL DEF Spec

(***************************************************************************)
(* changes() and events(): documents are yielded in the order of the calls *)
(* of the stream's hook, however reloads overlap and the slot, the queues  *)
(* and the consumer take turns, ...                                        *)
(***************************************************************************)
THEOREM StreamsAreInOrder == Spec => []DocumentsInOrder
<1>1. IInv => DocumentsInOrder
  BY DEF IInv, StreamInv, InLine, DocumentsInOrder
<1> QED BY <1>1, InitIInv, NextIInv, PTL DEF Spec

(***************************************************************************)
(* ... and a refusal is not told twice.                                    *)
(***************************************************************************)
THEOREM RefusalsAreNews == Spec => NoRefusalToldTwice
<1>1. IInv /\ [Next]_vars =>
        [Len(yielded') > Len(yielded) /\ yielded'[Len(yielded')] = S!None =>
           \E i \in (covers + 1)..Len(happened) : happened[i] = S!None]_(S!vars)
  BY StepProperties
<1> QED BY <1>1, InitIInv, NextIInv, PTL DEF Spec, NoRefusalToldTwice, S!NoRefusalToldTwice

(***************************************************************************)
(* To a stream that is awake before the next reload the events are the     *)
(* reloads, one for one, for any number of them.                           *)
(***************************************************************************)
THEOREM StreamsTellEverything == Spec => []EventsAreTheReloads
<1>1. Init => InTurn
  <2> SUFFICES ASSUME Init PROVE InTurn
    OBVIOUS
  <2>1. S!Init
    BY DEF Init
  <2>2. S!Told = <<>>
    <3>1. DOMAIN yielded = {}
      BY <2>1 DEF S!Init
    <3>2. \A i \in DOMAIN yielded : FALSE
      BY <3>1
    <3>3. S!Told = [i \in {} |-> S!None]
      BY <3>1 DEF S!Told
    <3> QED BY <3>3
  <2> QED BY <2>1, <2>2 DEF S!Init, InTurn, AllTold, Queued, Waiting
<1>2. IInv /\ InTurn /\ [Next]_vars => InTurn'
  BY PartSteps, InTurnKept, ProgramAssumption DEF IInv
<1>3. InTurn => EventsAreTheReloads
  BY DEF InTurn, LastUntold, Queued, Waiting, AllTold, Leaving, EventsAreTheReloads,
         S!EventsAreTheReloads, S!Settled, S!Undisturbed
<1> QED BY <1>1, <1>2, <1>3, InitIInv, NextIInv, PTL DEF Spec

(***************************************************************************)
(* changedPaths(): as long as no key has a dot in it, an install over      *)
(* another document reports the paths whose values moved, all of them and  *)
(* none under another; the first install reports none.                     *)
(***************************************************************************)
THEOREM ReportsSayWhatMoved ==
  ASSUME Dotted = FALSE
  PROVE  Spec => []ReportIsExact
<1>1. IInv => ReportIsExact
  BY ReportAlways DEF IInv
<1> QED BY <1>1, InitIInv, NextIInv, PTL DEF Spec
=============================================================================
