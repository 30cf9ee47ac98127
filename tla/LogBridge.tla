------------------------------ MODULE LogBridge ------------------------------
(***************************************************************************)
(* The engine's log lines on their way to a JavaScript logger              *)
(* (logbridge.rs): the engine's sink, which threads of the engine call,    *)
(* and LOGGER, where the sink finds the function to queue a call of.       *)
(* setLogger() changes the two one after the other, on the event loop.     *)
(*                                                                         *)
(* The engine is not in the repository: what it does with a line (gate it  *)
(* by level, read the sink, call it or write to stderr) is inferred from   *)
(* the contract the bridge is written for.                                 *)
(***************************************************************************)
EXTENDS Integers

CONSTANTS
  Emitters,  \* threads of the engine that log
  MaxLines   \* bound: lines emitted

VARIABLES
  level,    \* the engine's volume
  sink,     \* whether the engine has a sink
  logger,   \* whether LOGGER holds a function
  setting,  \* the half of setLogger() that is still to come
  gone,     \* whether the event loop has gone away
  emitting, \* per thread: where its line is
  lines,    \* lines emitted
  heard,    \* history: lines queued for the logger or written to stderr
  crossed   \* history: the threads whose line in the sink met the end of a
            \* setLogger() that takes the logger away

vars == <<level, sink, logger, setting, gone, emitting, lines, heard, crossed>>

TypeOK ==
  /\ level \in {"off", "warn", "info"}
  /\ {sink, logger, gone} \subseteq BOOLEAN
  /\ setting \in {"nothing", "sink", "clear", "reset"}
  /\ emitting \in [Emitters -> {"idle", "gated", "bridge"}]
  /\ lines \in 0..MaxLines /\ heard \in Nat
  /\ crossed \subseteq Emitters

Init ==
  /\ level = "info" /\ sink = FALSE /\ logger = FALSE
  /\ setting = "nothing" /\ gone = FALSE
  /\ emitting = [t \in Emitters |-> "idle"]
  /\ lines = 0 /\ heard = 0 /\ crossed = {}

Goto(t, where) == emitting' = [emitting EXCEPT ![t] = where]
LoopRuns == setting = "nothing" /\ ~gone

-----------------------------------------------------------------------------
(* setLogger({ handler }): LOGGER, then the engine's sink. *)
SetSink ==
  /\ LoopRuns
  /\ logger' = TRUE /\ setting' = "sink"
  /\ UNCHANGED <<level, sink, gone, emitting, lines, heard, crossed>>

SetEngineSink ==
  /\ setting = "sink"
  /\ sink' = TRUE /\ setting' = "nothing"
  /\ UNCHANGED <<level, logger, gone, emitting, lines, heard, crossed>>

(* setLogger({ handler: null }) and setLogger(null): the engine's sink ... *)
ClearEngineSink(after) ==
  /\ LoopRuns
  /\ sink' = FALSE /\ setting' = after
  /\ UNCHANGED <<level, logger, gone, emitting, lines, heard, crossed>>

(* ... then LOGGER, and for setLogger(null) the level. *)
Take ==
  /\ setting \in {"clear", "reset"}
  /\ logger' = FALSE /\ setting' = "nothing"
  /\ level' = IF setting = "reset" THEN "info" ELSE level
  /\ crossed' = crossed \cup {t \in Emitters : emitting[t] = "bridge"}
  /\ UNCHANGED <<sink, gone, emitting, lines, heard>>

(* An unknown level throws, with the handler that came with it in place. *)
SetLevel ==
  /\ LoopRuns /\ level' \in {"off", "warn", "info"}
  /\ UNCHANGED <<sink, logger, setting, gone, emitting, lines, heard, crossed>>

LoopGone ==
  /\ LoopRuns /\ gone' = TRUE
  /\ UNCHANGED <<level, sink, logger, setting, emitting, lines, heard, crossed>>

-----------------------------------------------------------------------------
(* A line that is loud enough ... *)
Emit(t, loud) ==
  /\ emitting[t] = "idle" /\ lines < MaxLines
  /\ level = "info" \/ level = loud
  /\ Goto(t, "gated") /\ lines' = lines + 1 /\ crossed' = crossed \ {t}
  /\ UNCHANGED <<level, sink, logger, setting, gone, heard>>

(* ... goes to the sink, or, when there is none, to stderr. *)
ReadSink(t) ==
  /\ emitting[t] = "gated"
  /\ Goto(t, IF sink THEN "bridge" ELSE "idle")
  /\ heard' = IF sink THEN heard ELSE heard + 1
  /\ UNCHANGED <<level, sink, logger, setting, gone, lines, crossed>>

(* A mistake: the status of the call is not looked at. *)
CallUnchecked(t) ==
  /\ emitting[t] = "bridge"
  /\ Goto(t, "idle")
  /\ heard' = IF logger /\ ~gone THEN heard + 1 ELSE heard
  /\ UNCHANGED <<level, sink, logger, setting, gone, lines, crossed>>

(* The sink, under the lock of LOGGER: a call that cannot be queued ends   *)
(* on stderr, a line that finds no function nowhere.                       *)
Call(t) ==
  /\ emitting[t] = "bridge"
  /\ Goto(t, "idle")
  /\ heard' = IF logger THEN heard + 1 ELSE heard
  /\ UNCHANGED <<level, sink, logger, setting, gone, lines, crossed>>

Next ==
  \/ SetSink \/ SetEngineSink \/ Take \/ SetLevel \/ LoopGone
  \/ ClearEngineSink("clear") \/ ClearEngineSink("reset")
  \/ \E t \in Emitters : Emit(t, "info") \/ Emit(t, "warn") \/ ReadSink(t) \/ Call(t)

Spec == Init /\ [][Next]_vars

-----------------------------------------------------------------------------
(***************************************************************************)
(* A line is heard: when a thread is done with it, it was queued for a     *)
(* logger or written to stderr, whatever setLogger() did meanwhile, unless *)
(* the logger was taken away while the line was inside the sink.           *)
(***************************************************************************)
EveryLineIsHeard ==
  [][\A t \in Emitters :
       emitting[t] # "idle" /\ emitting'[t] = "idle" => heard' > heard \/ t \in crossed]_vars

(***************************************************************************)
(* "A logger that drops lines silently is the failure mode this bridge     *)
(* exists to end": no line is lost at all.                                 *)
(***************************************************************************)
NoLineIsLost == (\A t \in Emitters : emitting[t] = "idle") => heard = lines
=============================================================================
