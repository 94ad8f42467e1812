---------------------------- MODULE LuaBaseSock -----------------------------
(***************************************************************************)
(* The class BaseSock of lluv/luasocket.lua: blocking socket calls for     *)
(* coroutines.  A call starts an operation of lluv, remembers in _wait     *)
(* what it waits for, and yields; a callback of lluv, the timer, the close *)
(* callback or interrupt() resumes the coroutine, whoever comes first.     *)
(* The others come later, and must do no harm.                             *)
(*                                                                         *)
(* self is the object and the place where its coroutine is:                *)
(*   class    its class                                                    *)
(*   co       "run" when no call of this object is waiting, "dead" when    *)
(*            an error was raised in it, else the call it yielded in       *)
(*   sock     _sock, the number of the handle; 0 is nil                    *)
(*   timer    _timer: nil, stopped, or on                                  *)
(*   wait     the keys of _wait that are true                              *)
(*   timeout  _timeout, as again() of the timer takes it (Timeouts)        *)
(*   rawErr   _raw_err is set: lluv has reported an error                  *)
(* and what the classes add to it.  _err is "closed" from __init on.       *)
(***************************************************************************)
EXTENDS Integers, Sequences, FiniteSets

CONSTANTS
  Others,      (* what other coroutines do: "close", "interrupt"           *)
  LuaIntegers  (* Lua has integers, that is, it is version 5.3 or later    *)

ASSUME BaseAssumption == /\ Others \subseteq {"close", "interrupt"}
                         /\ LuaIntegers \in BOOLEAN

VARIABLES
  self,
  cbs,     (* callbacks lluv owes the object                               *)
  woke,    (* who resumed the coroutine in the last step, where it was,    *)
           (* and whether the call that asked for it had returned          *)
  ret      (* what a call returned in the last step                        *)

vars == <<self, cbs, woke, ret>>

Nobody == [by |-> "nobody", at |-> "run", terminated |-> FALSE]
Nothing == << >>
Quiet == woke' = Nobody /\ ret' = Nothing

(* A callback: of what operation, on which handle, whether its upvalue     *)
(* terminated is set, and whether it is a deferred call that reports that  *)
(* the operation failed at once.                                           *)
Callback(k, h, deferred) ==
  [k |-> k, h |-> h, terminated |-> FALSE, deferred |-> deferred]

(* The call that started operations of kind k returns: terminated = true.  *)
Terminated(c, k) ==
  {IF x.k = k THEN [x EXCEPT !.terminated = TRUE] ELSE x : x \in c}

(* What _wait is for each place that waits, and waits in the open.         *)
WaitsFor(co) ==
  CASE co \in {"recv", "recvall"} -> {"read"}
    [] co = "send"                -> {"write"}
    [] co \in {"dns", "conn"}     -> {"conn"}
    [] co = "accept"              -> {"accept"}
    [] OTHER                      -> {}

(* A timeout is none, whole milliseconds, or less than a millisecond.      *)
(* again() of the timer converts it to an integer number of milliseconds.  *)
(* Without integers Lua cuts off the fraction, and libuv does not start a  *)
(* timer with a repeat of zero; with integers it raises an error (which is *)
(* what it does with any fraction of a millisecond).                       *)
Timeouts == {"none", "whole", "short"}

(* What __init of the base class sets.                                     *)
BaseInit == [co |-> "run", sock |-> 1, timer |-> "stopped", wait |-> {},
             timeout |-> "none", rawErr |-> FALSE]

(* _start(op) raises an error when the timer is needed and is nil, or does *)
(* not take the timeout.                                                   *)
StartRaises(s) ==
  \/ s.timeout # "none" /\ s.timer = "nil"
  \/ s.timeout = "short" /\ LuaIntegers

Start(s, co) ==
  IF StartRaises(s) THEN [s EXCEPT !.co = "dead"]
  ELSE [s EXCEPT !.timer = IF s.timeout = "whole" THEN "on" ELSE @,
                 !.wait = @ \cup WaitsFor(co),
                 !.co = co]

(* Mutant: the timer goes on.                                              *)
Stop_Timer(s) == [s EXCEPT !.wait = {}]

(* _stop(op)                                                               *)
Stop(s) == [s EXCEPT !.timer = IF @ = "nil" THEN "nil" ELSE "stopped",
                     !.wait = {}]

(* The call returns to the program.                                        *)
Return(s)   == [s EXCEPT !.co = "run"]
Raise(s)    == [s EXCEPT !.co = "dead"]

(* _on_io_error(err): the object is closed at once, the waiting coroutine  *)
(* is resumed by the close callback.                                       *)
OnIoError(s) ==
  IF s.sock = 0 THEN s
  ELSE [s EXCEPT !.sock = 0, !.timer = "nil", !.rawErr = TRUE]

(* Mutant: nobody waits for the handle to close.                           *)
OnIoErrorCbs_NoCb(s, c) == c

OnIoErrorCbs(s, c) ==
  IF s.sock = 0 THEN c ELSE c \cup {Callback("close", s.sock, FALSE)}

_on_io_error(s, c) ==
  /\ self' = OnIoError(s)
  /\ cbs' = OnIoErrorCbs(s, c)
  /\ Quiet

(* Mutant: lluv calls back although the handle is closed.                  *)
Dropped_Never(x) == FALSE

(* lluv drops the callbacks of requests on a handle that is not open; the  *)
(* close callback, deferred calls and getaddrinfo do not depend on it.     *)
Dropped(x) == /\ x.k \notin {"close", "dns"}
              /\ ~x.deferred
              /\ x.h # self.sock

LluvDrops(x) ==
  /\ Dropped(x)
  /\ cbs' = cbs \ {x}
  /\ UNCHANGED self
  /\ Quiet

(* close(), by the program or by another coroutine; nobody is resumed.     *)
close ==
  /\ self.co = "run" \/ "close" \in Others
  /\ self.sock # 0
  /\ self' = [self EXCEPT !.sock = 0, !.timer = "nil"]
  /\ UNCHANGED cbs
  /\ Quiet

(* settimeout(sec)                                                         *)
settimeout ==
  /\ self.co = "run"
  /\ \E t \in Timeouts : self' = [self EXCEPT !.timeout = t]
  /\ UNCHANGED cbs
  /\ Quiet

(* A method called on an object without _sock: nil, _err.                  *)
ReturnsClosed(op) ==
  /\ self.co = "run"
  /\ self.sock = 0
  /\ ret' = <<op, "closed">> /\ woke' = Nobody
  /\ UNCHANGED <<self, cbs>>

(* shutdown() yields without _start: no timeout, and _waiting() is false.  *)
shutdown ==
  /\ self.co = "run" /\ self.sock # 0
  /\ \A x \in cbs : x.k # "shutdown"
  /\ self' = [self EXCEPT !.co = "shutdown"]
  /\ \E failed \in BOOLEAN :
       cbs' = cbs \cup {Callback("shutdown", self.sock, failed)}
  /\ Quiet

(***************************************************************************)
(* Properties of both classes.                                             *)
(***************************************************************************)

(* The asserts of _start and attach: a coroutine that comes to a call      *)
(* finds nothing waiting and no timer running, however the call before     *)
(* ended; in a call, _wait says which, so that the callbacks can tell.     *)
WaitingIsExact ==
  /\ self.co # "dead" => self.wait = WaitsFor(self.co)
  /\ self.timer = "on" => self.wait # {}

(* The callback of an operation resumes the coroutine in the call that     *)
(* started it: the answer to a call that timed out or was interrupted      *)
(* never becomes the result of a later call, and wakes nobody who waits    *)
(* for something else.  (A coroutine in which close() by another coroutine *)
(* raised an error is beyond help.)                                        *)
Answers(k) ==
  CASE k = "write"            -> {"send"}
    [] k = "shutdown"         -> {"shutdown"}
    [] k = "dns"              -> {"dns"}
    [] k = "conn"             -> {"conn"}
    [] k = "read"             -> {"recv", "recvall"}
    [] k = "connection"       -> {"accept"}
    [] OTHER -> {"recv", "recvall", "send", "dns", "conn", "accept"}

WakesItsOwn ==
  woke.by # "nobody" /\ woke.at # "dead" =>
    woke.at \in Answers(woke.by) /\ ~woke.terminated
=============================================================================
