------------------------------ MODULE LluvLoop ------------------------------
(***************************************************************************)
(* The event loop object (lluv_loop.c) and the protected call of Lua code  *)
(* (lluv_lua_call in lluv_utils.c): loop:run() with its error mark, the    *)
(* queue of deferred calls, close_all_handles and close.                   *)
(*                                                                         *)
(* Everything happens on one C stack, which the variable stack represents. *)
(* Its frames, innermost last, are                                         *)
(*   run       lluv_loop_run_impl, whose uv_run it includes;               *)
(*   closeall  lluv_loop_close_all_handles_impl, with its uv_run;          *)
(*   proceed   lluv_loop_defer_proceed;                                    *)
(*   lua       Lua code called through lluv_lua_call, either the callback  *)
(*             of a libuv event or a deferred call.                        *)
(* An empty stack means that the main chunk of the program is running.     *)
(*                                                                         *)
(* libuv (external): uv_run begins an iteration while the loop is alive    *)
(* and nobody asked it to stop, makes any number of callbacks in it, and   *)
(* clears the stop flag when it returns.  All that matters here of the     *)
(* handles is how many keep the loop alive.                                *)
(***************************************************************************)
EXTENDS Integers, Sequences

CONSTANTS
  DeferDepth,   (* LLUV_DEFER_DEPTH                                        *)
  NestIn,       (* Lua frames in which the program calls uv.run() again    *)
  Errors,       (* the error values that Lua callbacks may raise           *)
  Nil,          (* nil: the error mark before any error, and the value of  *)
                (* an error as well (error(), a message handler without    *)
                (* a result), so that Errors may have it                   *)
  StartWhileClosing, (* callbacks start handles while all are being closed *)
  MaxQueue,     (* bound: queued deferred calls                            *)
  MaxAlive,     (* bound: handles that keep the loop alive                 *)
  MaxStack      (* bound: frames on the C stack                            *)

ASSUME LoopAssumption ==
  /\ DeferDepth \in Nat \ {0}
  /\ NestIn \subseteq {"event", "defer"}
  /\ StartWhileClosing \in BOOLEAN
  /\ MaxQueue \in Nat \ {0} /\ MaxAlive \in Nat /\ MaxStack \in Nat

(* Deferred calls are numbered in the order in which they are queued, in a *)
(* cycle longer than the queue.                                            *)
Ids      == 0..MaxQueue
After(i) == (i + 1) % (MaxQueue + 1)

(***************************************************************************)
(* A frame.  at is where it stands: for run and closeall, pre and post are *)
(* the two calls of lluv_loop_defer_proceed, start and next the loop test  *)
(* of uv_run before the first and before a later iteration, iter inside an *)
(* iteration, done after uv_run; for lua, event or defer is what is        *)
(* called.  pass and left are the loop variables of                        *)
(* lluv_loop_defer_proceed (i and s), old counts the calls that were       *)
(* queued before it began and have not run.  mark is the error mark, the   *)
(* fifth upvalue of the C function.  last is history that no guard reads:  *)
(* the last error that came out of Lua code which this frame called, Nil   *)
(* before any.                                                             *)
(***************************************************************************)
FrameRec == [
  f    : {"run", "closeall", "proceed", "lua"},
  at   : {"pre", "start", "iter", "next", "post", "done", "event", "defer",
          "none"},
  once : BOOLEAN,
  pass : Nat,
  left : Nat,
  old  : Nat,
  mark : Errors \cup {Nil},
  last : Errors \cup {Nil}]

VARIABLES
  open,   (* LLUV_FLAG_OPEN of the loop                                    *)
  defer,  (* the queue of deferred calls                                   *)
  nextId, (* the number of the next call to be deferred                    *)
  ran,    (* the number of the last deferred call that was run             *)
  alive,  (* how many handles and requests keep uv_run going               *)
  stop,   (* the stop flag of the uv_loop_t                                *)
  stack,
  result  (* how the last run ended, and with what error                   *)

queueVars == <<defer, nextId, ran>>
vars == <<open, queueVars, alive, stop, stack, result>>

BaseFrame == [f |-> "lua", at |-> "none", once |-> FALSE, pass |-> 0,
              left |-> 0, old |-> 0, mark |-> Nil, last |-> Nil]

Ended(how, e) == [how |-> how, error |-> e]

RunFrame(o)   == [BaseFrame EXCEPT !.f = "run", !.at = "pre", !.once = o]
CloseAllFrame == [BaseFrame EXCEPT !.f = "closeall", !.at = "start",
                                   !.once = TRUE]
LuaFrame(w)   == [BaseFrame EXCEPT !.at = w]

(* Mutant: the pass stops one short.                                       *)
ProceedFrame_Short ==
  [BaseFrame EXCEPT !.f = "proceed", !.old = Len(defer),
                    !.left = IF defer = << >> THEN 0 ELSE Len(defer) - 1]

ProceedFrame  == [BaseFrame EXCEPT !.f = "proceed", !.left = Len(defer),
                                   !.old = Len(defer)]

Init ==
  /\ open = TRUE
  /\ defer = << >> /\ nextId = 0 /\ ran = MaxQueue
  /\ alive = 0
  /\ stop = FALSE
  /\ stack = << >>
  /\ result = Ended("none", Nil)

TypeOK ==
  /\ open \in BOOLEAN
  /\ defer \in Seq(Ids) /\ nextId \in Ids /\ ran \in Ids
  /\ alive \in Nat
  /\ stop \in BOOLEAN
  /\ stack \in Seq(FrameRec)
  /\ result \in [how : {"none", "returned", "raised"}, error : Errors \cup {Nil}]

(***************************************************************************)
(* The stack.                                                              *)
(***************************************************************************)
Depth       == Len(stack)
Top         == stack[Depth]
TopIs(f)    == stack # << >> /\ Top.f = f
Popped      == SubSeq(stack, 1, Depth - 1)
Push(fr)    == stack' = Append(stack, fr)
Pop         == stack' = Popped
MoveTop(at) == stack' = [stack EXCEPT ![Depth].at = at]

(* The C functions that run the loop and own an error mark.                *)
Runners    == {i \in 1..Depth : stack[i].f \in {"run", "closeall"}}
InnerMost(S) == CHOOSE i \in S : \A j \in S : j <= i

(* Lua code is running: the main chunk or a callback.                      *)
LuaRuns == stack # << >> => Top.f = "lua"
MayNest == \A i \in 1..Depth : stack[i].f = "lua" => stack[i].at \in NestIn

(* Some close_all_handles is under way.                                    *)
ClosingAll == \E i \in 1..Depth : stack[i].f = "closeall"

(***************************************************************************)
(* What Lua code does.                                                     *)
(***************************************************************************)

(* Mutant: the call is queued at the wrong end.                            *)
lluv_loop_defer_call_Front ==
  /\ LuaRuns /\ open
  /\ Len(defer) < MaxQueue
  /\ defer' = <<nextId>> \o defer
  /\ nextId' = After(nextId)
  /\ UNCHANGED <<open, ran, alive, stop, stack, result>>

(* uv.defer(f), and every operation that reports its error later.          *)
lluv_loop_defer_call ==
  /\ LuaRuns /\ open
  /\ Len(defer) < MaxQueue
  /\ defer' = Append(defer, nextId)
  /\ nextId' = After(nextId)
  /\ UNCHANGED <<open, ran, alive, stop, stack, result>>

(* Handles are started and stopped.                                        *)
StartHandle ==
  /\ LuaRuns /\ open
  /\ alive < MaxAlive
  /\ ClosingAll => StartWhileClosing
  /\ alive' = alive + 1
  /\ UNCHANGED <<open, queueVars, stop, stack, result>>

StopHandle ==
  /\ LuaRuns /\ open
  /\ ~ClosingAll
  /\ alive > 0
  /\ alive' = alive - 1
  /\ UNCHANGED <<open, queueVars, stop, stack, result>>

lluv_loop_stop ==
  /\ LuaRuns /\ open
  /\ stop' = TRUE
  /\ UNCHANGED <<open, queueVars, alive, stack, result>>

(* loop:run(mode): lluv_loop_run_impl begins with the deferred calls.      *)
lluv_loop_run ==
  /\ LuaRuns /\ open /\ MayNest
  /\ Depth + 4 <= MaxStack
  /\ \E once \in BOOLEAN : stack' = stack \o <<RunFrame(once), ProceedFrame>>
  /\ UNCHANGED <<open, queueVars, alive, stop, result>>

(* loop:close_all_handles() and the first half of loop:close(true).  Every *)
(* closing handle, also one that was not active, keeps the loop alive      *)
(* until its close callback has run; without handles nothing is run.       *)
lluv_loop_close_all_handles ==
  /\ LuaRuns /\ open /\ MayNest
  /\ Depth + 4 <= MaxStack
  /\ alive' \in alive..MaxAlive /\ alive' > 0
  /\ Push(CloseAllFrame)
  /\ UNCHANGED <<open, queueVars, stop, result>>

(* loop:close() from the main chunk: uv_loop_close refuses while there are *)
(* handles; the deferred calls that never ran go with the loop.            *)
lluv_loop_close ==
  /\ stack = << >> /\ open
  /\ alive = 0
  /\ open' = FALSE
  /\ defer' = << >>
  /\ UNCHANGED <<nextId, ran, alive, stop, stack, result>>

(* A callback ends.  LLUV_HANDLE_CALL_CB runs the deferred calls after the *)
(* callback of an event; a deferred call ends in its defer_proceed.        *)
LuaReturns ==
  /\ TopIs("lua")
  /\ stack' = IF Top.at = "event" THEN Append(Popped, ProceedFrame) ELSE Popped
  /\ UNCHANGED <<open, queueVars, alive, stop, result>>

(* Mutant: the outermost runner gets the error.                            *)
Marked_Outer(s, i, e) == [s EXCEPT ![1].mark = e]

(* lluv_lua_call on an error: the mark of the innermost runner gets what   *)
(* lua_pcall left, nil too, whatever it held before.                       *)
Marked(s, i, e) == [s EXCEPT ![i].mark = e]

(* The frame that called the Lua code on top, directly or by way of a      *)
(* lluv_loop_defer_proceed: the one whose history the error belongs to.    *)
Caller == IF Top.at = "event" THEN Depth - 1 ELSE Depth - 2

(* A failed deferred call ends its defer_proceed, and with it the run that *)
(* called it directly.                                                     *)
Abandoned(s) ==
  IF s[Len(s)].at \in {"pre", "post"} THEN [s EXCEPT ![Len(s)].at = "done"]
                                      ELSE s

(* An error leaves a callback, and the loop is told to stop.               *)
LuaFails ==
  /\ TopIs("lua")
  /\ Runners # {}
  /\ \E e \in Errors :
       LET s == [Marked(stack, InnerMost(Runners), e) EXCEPT ![Caller].last = e]
       IN  stack' = IF Top.at = "event" THEN SubSeq(s, 1, Depth - 1)
                    ELSE Abandoned(SubSeq(s, 1, Depth - 2))
  /\ stop' = TRUE
  /\ UNCHANGED <<open, queueVars, alive, result>>

(***************************************************************************)
(* lluv_loop_defer_proceed: up to DeferDepth passes, each over as many     *)
(* calls as the queue held when the pass began.                            *)
(***************************************************************************)
DeferredCall ==
  /\ TopIs("proceed")
  /\ Top.left > 0
  /\ defer # << >>
  /\ defer' = Tail(defer)
  /\ ran' = Head(defer)
  /\ stack' = Append([stack EXCEPT ![Depth].left = @ - 1,
                                   ![Depth].old = IF @ > 0 THEN @ - 1 ELSE 0],
                     LuaFrame("defer"))
  /\ UNCHANGED <<open, nextId, alive, stop, result>>

LastPass == Top.pass + 1 = DeferDepth

(* Mutants: the pass counts one call too many; passes are not counted.     *)
NextPass_OneMore ==
  /\ TopIs("proceed")
  /\ Top.left = 0 /\ defer # << >>
  /\ ~LastPass
  /\ stack' = [stack EXCEPT ![Depth].pass = @ + 1,
                            ![Depth].left = Len(defer) + 1]
  /\ UNCHANGED <<open, queueVars, alive, stop, result>>

NextPass_Uncounted ==
  /\ TopIs("proceed")
  /\ Top.left = 0 /\ defer # << >>
  /\ ~LastPass
  /\ stack' = [stack EXCEPT ![Depth].left = Len(defer)]
  /\ UNCHANGED <<open, queueVars, alive, stop, result>>

NextPass ==
  /\ TopIs("proceed")
  /\ Top.left = 0 /\ defer # << >>
  /\ ~LastPass
  /\ stack' = [stack EXCEPT ![Depth].pass = @ + 1, ![Depth].left = Len(defer)]
  /\ UNCHANGED <<open, queueVars, alive, stop, result>>

(* Passes over an empty queue do nothing.  The run goes on after pre and   *)
(* post; after the callback of an event libuv does.                        *)
Resumed(s) ==
  CASE s[Len(s)].at = "pre"  -> [s EXCEPT ![Len(s)].at = "start"]
    [] s[Len(s)].at = "post" -> [s EXCEPT ![Len(s)].at = "done"]
    [] OTHER                 -> s

ProceedReturns ==
  /\ TopIs("proceed")
  /\ Top.left = 0
  /\ defer = << >> \/ LastPass
  /\ stack' = Resumed(Popped)
  /\ UNCHANGED <<open, queueVars, alive, stop, result>>

(***************************************************************************)
(* uv_run, called by lluv_loop_run_impl or, again and again with           *)
(* UV_RUN_ONCE, by lluv_loop_close_all_handles_impl.                       *)
(***************************************************************************)
InUvRun    == TopIs("run") \/ TopIs("closeall")
AtLoopTest == InUvRun /\ Top.at \in {"start", "next"}

(* Mutant: the stop flag is not looked at.                                 *)
GoesOn_Ignores == alive > 0 /\ ~(Top.once /\ Top.at = "next")

GoesOn     == alive > 0 /\ ~stop /\ ~(Top.once /\ Top.at = "next")

IterationBegins ==
  /\ AtLoopTest
  /\ GoesOn
  /\ MoveTop("iter")
  /\ UNCHANGED <<open, queueVars, alive, stop, result>>

(* An event calls back.  What it reports may go on or be over; when all    *)
(* handles are closing and no new one is started, only cancelled requests  *)
(* and close callbacks are left, and each comes once.                      *)
EventCallback ==
  /\ InUvRun /\ Top.at = "iter"
  /\ alive > 0
  /\ Depth < MaxStack
  /\ Push(LuaFrame("event"))
  /\ \E last \in BOOLEAN :
       /\ ClosingAll /\ ~StartWhileClosing => last
       /\ alive' = IF last THEN alive - 1 ELSE alive
  /\ UNCHANGED <<open, queueVars, stop, result>>

IterationEnds ==
  /\ InUvRun /\ Top.at = "iter"
  /\ MoveTop("next")
  /\ UNCHANGED <<open, queueVars, alive, stop, result>>

(* Mutant: the stop flag is not cleared.                                   *)
UvRunReturns_KeepsStop ==
  /\ AtLoopTest
  /\ ~GoesOn
  /\ MoveTop(IF Top.f = "closeall" /\ alive > 0 THEN "start" ELSE "done")
  /\ UNCHANGED <<open, queueVars, alive, stop, result>>

(* uv_run returns whether the loop is still alive.  Only a run that found  *)
(* it dead proceeds with the deferred calls once more.                     *)
UvRunReturns ==
  /\ AtLoopTest
  /\ ~GoesOn
  /\ stop' = FALSE
  /\ \/ /\ Top.f = "run" /\ alive > 0
        /\ MoveTop("done")
     \/ /\ Top.f = "run" /\ alive = 0
        /\ stack' = Append([stack EXCEPT ![Depth].at = "post"], ProceedFrame)
     \/ /\ Top.f = "closeall" /\ alive > 0
        /\ MoveTop("start")
     \/ /\ Top.f = "closeall" /\ alive = 0
        /\ MoveTop("done")
  /\ UNCHANGED <<open, queueVars, alive, result>>

(* The end of lluv_loop_run_impl: a mark that is not nil is raised.        *)
RunReturns ==
  /\ TopIs("run") /\ Top.at = "done"
  /\ result' = IF Top.mark # Nil THEN Ended("raised", Top.mark)
                                 ELSE Ended("returned", Nil)
  /\ Pop
  /\ UNCHANGED <<open, queueVars, alive, stop>>

(* lluv_loop_close_all_handles_impl does not look at its mark.             *)
CloseAllReturns ==
  /\ TopIs("closeall") /\ Top.at = "done"
  /\ Pop
  /\ UNCHANGED <<open, queueVars, alive, stop, result>>

(***************************************************************************)
(* The specification.                                                      *)
(***************************************************************************)
Lua ==
  \/ lluv_loop_defer_call
  \/ StartHandle
  \/ StopHandle
  \/ lluv_loop_stop
  \/ lluv_loop_run
  \/ lluv_loop_close_all_handles
  \/ lluv_loop_close
  \/ LuaFails

Proceed == DeferredCall \/ NextPass \/ ProceedReturns

UvRun == IterationBegins \/ UvRunReturns \/ RunReturns \/ CloseAllReturns

Next == Lua \/ LuaReturns \/ Proceed \/ UvRun \/ EventCallback \/ IterationEnds

Spec == Init /\ [][Next]_vars

(***************************************************************************)
(* Fairness.  C code goes on, Lua callbacks return (however many calls     *)
(* they make first), an iteration of uv_run ends after finitely many       *)
(* events.  In close_all_handles every closing handle calls back.          *)
(***************************************************************************)
Fairness ==
  /\ WF_vars(Proceed)
  /\ WF_vars(UvRun)
  /\ WF_vars(LuaReturns)
  /\ SF_vars(IterationEnds)
  /\ SF_vars(EventCallback /\ ClosingAll)

FairSpec == Spec /\ Fairness

(***************************************************************************)
(* Safety.                                                                 *)
(***************************************************************************)

(* assert(err == 1) in lluv_loop_defer_proceed (lluv_loop.c:146): a pass   *)
(* finds as many calls in the queue as it counted when it began.           *)
PopSucceeds == TopIs("proceed") => Top.left <= Len(defer)

(* Deferred calls run in the order in which they were deferred, each once, *)
(* none is skipped: the queue holds exactly what was deferred after the    *)
(* last one that ran, across callbacks, errors and nested runs.            *)
DeferredInOrder ==
  open => /\ \A i \in 1..Len(defer) : defer[i] = (ran + i) % (MaxQueue + 1)
          /\ nextId = (ran + Len(defer) + 1) % (MaxQueue + 1)

(* The first pass of lluv_loop_defer_proceed runs all that was deferred    *)
(* before it: nothing queued by a callback waits behind what the deferred  *)
(* calls themselves defer, even when the pass limit cuts the rest off.     *)
FirstPassDrains ==
  \A i \in 1..Depth : stack[i].f = "proceed" /\ stack[i].pass > 0
                        => stack[i].old = 0

(* uv.run raises the last error of the callbacks and deferred calls that   *)
(* it made, and no other: not one of a run that a callback nested in it,   *)
(* nor one of the run it is nested in.  It returns normally if there was   *)
(* none, and also if the last one was nil, as with a message handler that  *)
(* returns nothing (test/test-error-handler.lua), even when another error  *)
(* of the same run came before it.                                         *)
ErrorsAreRaised ==
  [][RunReturns => result' = IF Top.last = Nil THEN Ended("returned", Nil)
                                               ELSE Ended("raised", Top.last)]_vars

(***************************************************************************)
(* Liveness.                                                               *)
(***************************************************************************)

(* lluv_loop_defer_proceed ends although deferred calls may defer calls    *)
(* for ever: that is what LLUV_DEFER_DEPTH is for.                         *)
ProceedTerminates ==
  \A d \in 1..MaxStack :
    (Depth = d /\ TopIs("proceed")) ~> Depth < d

(* A stop request, or an error, ends the run it hits.                      *)
StopEndsRun == (stop /\ stack # << >>) ~> (~stop \/ stack = << >>)

(* close_all_handles ends once every handle has called back, provided the  *)
(* callbacks start no new ones.                                            *)
CloseAllTerminates == ClosingAll ~> ~ClosingAll
=============================================================================
