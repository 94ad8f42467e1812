----------------------------- MODULE LluvHandle -----------------------------
(***************************************************************************)
(* The life of an lluv handle (lluv_handle.c, lluv_req.c).                 *)
(*                                                                         *)
(* A handle is a Lua userdata that embeds a uv_handle_t.  Three parties    *)
(* refer to it and none of them knows of the others:                       *)
(*   - the Lua program, through ordinary references, until it drops them;  *)
(*   - lluv itself, through one registry reference (field self) that it    *)
(*     holds as long as some bit of the field lock is set;                 *)
(*   - libuv, through a raw pointer, from uv_xxx_init until uv_close has   *)
(*     called back.                                                        *)
(* The garbage collector sees only the first two.  This module has the     *)
(* state of every handle, the lock and unlock primitives, creation, close, *)
(* the close callback, requests and garbage collection.  The modules       *)
(* LluvWatcher and LluvStream add the operations of the handle kinds, and  *)
(* LluvHandles puts all of them together.                                  *)
(***************************************************************************)
EXTENDS Integers, Sequences

CONSTANTS
  Handles,    (* the userdata the program may create                       *)
  Kinds,      (* the kinds of handle it creates, a subset of AllKinds      *)
  MaxReqs,    (* bound: requests in flight on one handle                   *)
  MaxDefers,  (* bound: deferred callbacks queued for one handle           *)
  MaxDepth    (* bound: Lua callbacks nested on the C stack                *)

WatcherKinds == {"timer", "idle", "prepare", "check", "poll", "signal",
                 "fs_event", "fs_poll"}
StreamKinds  == {"tcp", "pipe", "tty"}
AllKinds     == WatcherKinds \cup StreamKinds \cup {"udp", "process"}

ASSUME KindsAssumption  == Kinds \subseteq AllKinds
ASSUME BoundsAssumption == MaxReqs \in Nat /\ MaxDefers \in Nat /\ MaxDepth \in Nat

(***************************************************************************)
(* The bits of lluv_handle_t.lock.  START stands for LLUV_LOCK_START,      *)
(* LLUV_LOCK_READ and LLUV_LOCK_EXIT, which are one bit; the callback slot *)
(* of the same name is shared in the same way.                             *)
(***************************************************************************)
Locks == {"CLOSE", "START", "CONNECTION", "MANUAL", "REQ"}
Slots == {"CLOSE", "START", "CONNECTION"}

(***************************************************************************)
(* One handle.  open, lock, counter, self and cb are fields of             *)
(* lluv_handle_t; set and weak tell in which of the two weak tables it is  *)
(* (LLUV_HANDLES_SET, LLUV_LUA_HANDLES); uv, active and reqs are what      *)
(* libuv knows of it; user, defers and gc are the Lua side: a reference    *)
(* held by the program, entries of the defer queue that hold the handle as *)
(* an argument, and the progress of its finalizer.                         *)
(***************************************************************************)
HandleRec == [
  mem     : {"none", "live", "freed"},
  kind    : AllKinds \cup {"none"},
  open    : BOOLEAN,
  lock    : SUBSET Locks,
  counter : Nat,
  self    : BOOLEAN,
  cb      : SUBSET Slots,
  set     : BOOLEAN,
  weak    : BOOLEAN,
  uv      : {"none", "open", "closing", "closed"},
  active  : SUBSET {"START", "CONNECTION"},
  reqs    : Nat,
  user    : BOOLEAN,
  defers  : Nat,
  gc      : {"no", "pending", "done"}]

Frames == [h : Handles, what : {"close", "event", "oneshot", "defer"}]

VARIABLES
  hnd,    (* the handles                                                   *)
  stack   (* the Lua callbacks running now, innermost last                 *)

vars == <<hnd, stack>>

Blank == [mem |-> "none", kind |-> "none", open |-> FALSE, lock |-> {},
          counter |-> 0, self |-> FALSE, cb |-> {}, set |-> FALSE,
          weak |-> FALSE, uv |-> "none", active |-> {}, reqs |-> 0,
          user |-> FALSE, defers |-> 0, gc |-> "no"]

Init == /\ hnd = [h \in Handles |-> Blank]
        /\ stack = << >>

TypeOK == /\ hnd \in [Handles -> HandleRec]
          /\ stack \in Seq(Frames)

(***************************************************************************)
(* Primitives on one handle.                                               *)
(***************************************************************************)

(* lluv_handle_lock: set the bit, count requests, anchor the userdata.     *)
Lock(r, l) ==
  [r EXCEPT !.lock = @ \cup {l},
            !.counter = IF l = "REQ" THEN @ + 1 ELSE @,
            !.self = TRUE]

(* Mutant: the first finished request takes the REQ bit of all of them.    *)
BitsAfterUnlock_NoCount(r, l) == r.lock \ {l}

(* The bits left by lluv_handle_unlock: REQ goes with the last request.    *)
BitsAfterUnlock(r, l) ==
  IF l = "REQ" /\ r.counter # 1 THEN r.lock ELSE r.lock \ {l}

(* lluv_handle_unlock: a handle that is not anchored is left alone;        *)
(* otherwise the anchor goes with the last bit.                            *)
Unlock(r, l) ==
  IF ~r.self THEN r
  ELSE [r EXCEPT !.lock = BitsAfterUnlock(r, l),
                 !.counter = IF l = "REQ" THEN @ - 1 ELSE @,
                 !.self = BitsAfterUnlock(r, l) # {}]

(* Mutants: a cleanup that forgets the callback slots or the lock bits.    *)
Cleanup_KeepsCallbacks(r) ==
  [r EXCEPT !.open = FALSE, !.self = FALSE, !.lock = {}]
Cleanup_KeepsLock(r) ==
  [r EXCEPT !.open = FALSE, !.cb = {}, !.self = FALSE]

(* lluv_handle_cleanup without the removal from LLUV_HANDLES_SET.  The     *)
(* request counter is not reset.                                           *)
Cleanup(r) ==
  [r EXCEPT !.open = FALSE, !.cb = {}, !.self = FALSE, !.lock = {}]

(* Mutant: the closing handle is not locked.                               *)
Close_NoLock(r, c) ==
  [r EXCEPT !.weak = TRUE, !.cb = IF c THEN @ \cup {"CLOSE"} ELSE @,
            !.uv = "closing", !.active = {}]

(* lluv_handle_close on an open handle that libuv is not closing yet; c    *)
(* tells whether a close callback was given.  uv_close stops what the      *)
(* handle watches; its requests are cancelled but still have to call back. *)
Close(r, c) ==
  [Lock([r EXCEPT !.weak = TRUE], "CLOSE")
     EXCEPT !.cb = IF c THEN @ \cup {"CLOSE"} ELSE @,
            !.uv = "closing",
            !.active = {}]

MayClose(r) == r.open /\ r.uv = "open"

(* Mutant: the request is freed twice.                                     *)
ReqFree_Twice(r) == [Unlock(Unlock(r, "REQ"), "REQ") EXCEPT !.reqs = @ - 1]

(* lluv_req_new and lluv_req_free, as far as the handle is concerned.      *)
ReqNew(r)  == [Lock(r, "REQ") EXCEPT !.reqs = @ + 1]
ReqFree(r) == [Unlock(r, "REQ") EXCEPT !.reqs = @ - 1]

(* lluv_return, lluv_return_req with an error: the callback is deferred    *)
(* with the handle as its first argument.                                  *)
Defer(r) == [r EXCEPT !.defers = @ + 1]

(***************************************************************************)
(* Who can reach a handle.                                                 *)
(***************************************************************************)
OnStack(h) == \E i \in 1..Len(stack) : stack[i].h = h

Reachable(h) ==
  hnd[h].user \/ hnd[h].self \/ hnd[h].defers > 0 \/ OnStack(h)

(* Lua code can call a method of h; OPEN is checked by lluv_check_handle.  *)
Callable(h) == hnd[h].mem = "live" /\ (hnd[h].user \/ OnStack(h))
Usable(h)   == Callable(h) /\ hnd[h].open

(* libuv can call back: it is not deeper in callbacks than the bound.      *)
CanCallBack == Len(stack) < MaxDepth

Set(h, r)     == hnd' = [hnd EXCEPT ![h] = r]
Call(h, what) == stack' = Append(stack, [h |-> h, what |-> what])
Top           == stack[Len(stack)]

(***************************************************************************)
(* Operations common to all kinds.                                         *)
(***************************************************************************)

(* Mutant: the handle is not entered in LLUV_HANDLES_SET.                  *)
Created_NotInSet(k) ==
  [Blank EXCEPT !.mem = "live", !.kind = k, !.open = TRUE, !.weak = TRUE,
                !.uv = "open", !.user = TRUE]

(* The record of a new handle: lluv_handle_create, then uv_xxx_init.       *)
Created(k) ==
  [Blank EXCEPT !.mem = "live", !.kind = k, !.open = TRUE, !.weak = TRUE,
                !.set = TRUE, !.uv = "open", !.user = TRUE]

(* lluv_xxx_create: on an error of uv_xxx_init the userdata is cleaned up  *)
(* and never reaches the program.                                          *)
lluv_handle_create(h, k) ==
  /\ hnd[h].mem = "none"
  /\ \/ Set(h, Created(k))
     \/ Set(h, [Cleanup(Created(k)) EXCEPT !.set = FALSE, !.uv = "none",
                                           !.user = FALSE])
  /\ UNCHANGED stack

lluv_handle_close(h) ==
  /\ Callable(h)
  /\ MayClose(hnd[h])
  /\ \E c \in BOOLEAN : Set(h, Close(hnd[h], c))
  /\ UNCHANGED stack

(* loop:close_all_handles() closes whatever libuv still has, referenced or *)
(* not, in one uv_walk.                                                    *)
lluv_loop_on_walk_close ==
  /\ \E h \in Handles : MayClose(hnd[h])
  /\ hnd' = [h \in Handles |-> IF MayClose(hnd[h]) THEN Close(hnd[h], FALSE)
                                                   ELSE hnd[h]]
  /\ UNCHANGED stack

(* Mutant: the handle leaves LLUV_HANDLES_SET before its callback.         *)
AfterCloseCb_ForgetsFirst(r) ==
  [Cleanup(r) EXCEPT !.uv = "closed", !.set = FALSE]

(* The close callback.  A handle closed without a callback leaves          *)
(* LLUV_HANDLES_SET at once, one with a callback after it has run.         *)
AfterCloseCb(r) ==
  IF ~r.open THEN [r EXCEPT !.uv = "closed"]
  ELSE [Cleanup(r) EXCEPT !.uv = "closed", !.set = "CLOSE" \in r.cb]

lluv_on_handle_close(h) ==
  /\ hnd[h].uv = "closing"
  /\ hnd[h].reqs = 0
  /\ CanCallBack
  /\ Set(h, AfterCloseCb(hnd[h]))
  /\ IF hnd[h].open /\ "CLOSE" \in hnd[h].cb THEN Call(h, "close")
                                             ELSE UNCHANGED stack

lluv_handle_lock_(h) ==
  /\ Usable(h)
  /\ Set(h, Lock(hnd[h], "MANUAL"))
  /\ UNCHANGED stack

lluv_handle_unlock_(h) ==
  /\ Usable(h)
  /\ Set(h, Unlock(hnd[h], "MANUAL"))
  /\ UNCHANGED stack

(* A callback returns: LLUV_HANDLES_SET forgets a closed handle; libuv     *)
(* stops a one-shot signal watcher after its callback.                     *)
Returned(r, what) ==
  CASE what = "close"   -> [r EXCEPT !.set = FALSE]
    [] what = "oneshot" -> [r EXCEPT !.active = @ \ {"START"}]
    [] OTHER            -> r

CallbackReturns ==
  /\ stack # << >>
  /\ Set(Top.h, Returned(hnd[Top.h], Top.what))
  /\ stack' = SubSeq(stack, 1, Len(stack) - 1)

(* lluv_loop_defer_proceed runs a deferred callback of h.                  *)
RunDeferred(h) ==
  /\ hnd[h].defers > 0
  /\ CanCallBack
  /\ Set(h, [hnd[h] EXCEPT !.defers = @ - 1])
  /\ Call(h, "defer")

(***************************************************************************)
(* The Lua program's references.  It may keep the self argument of a       *)
(* callback, and loop:handles() returns every handle libuv has, found      *)
(* through lluv_handle_pushself.                                           *)
(***************************************************************************)
TakeReference(h) ==
  /\ ~hnd[h].user
  /\ OnStack(h) \/ hnd[h].uv \in {"open", "closing"}
  /\ Set(h, [hnd[h] EXCEPT !.user = TRUE])
  /\ UNCHANGED stack

DropReference(h) ==
  /\ hnd[h].user
  /\ Set(h, [hnd[h] EXCEPT !.user = FALSE])
  /\ UNCHANGED stack

(***************************************************************************)
(* The collector.  Lua clears weak values when it finds the object dead,   *)
(* calls __gc later (other code may run in between) and once only, and     *)
(* clears the weak key and frees the memory in a later cycle if the object *)
(* is dead by then.                                                        *)
(***************************************************************************)
GcFindsDead(h) ==
  /\ hnd[h].mem = "live"
  /\ hnd[h].gc = "no"
  /\ ~Reachable(h)
  /\ Set(h, [hnd[h] EXCEPT !.gc = "pending", !.weak = FALSE])
  /\ UNCHANGED stack

(* Mutant: __gc does not close the handle.                                 *)
GcFinalizes_NoClose(h) ==
  /\ hnd[h].gc = "pending"
  /\ Set(h, [hnd[h] EXCEPT !.gc = "done"])
  /\ UNCHANGED stack

(* __gc is lluv_handle_close without a callback.                           *)
GcFinalizes(h) ==
  /\ hnd[h].gc = "pending"
  /\ LET r == IF MayClose(hnd[h]) THEN Close(hnd[h], FALSE) ELSE hnd[h]
     IN  Set(h, [r EXCEPT !.gc = "done"])
  /\ UNCHANGED stack

GcFrees(h) ==
  /\ hnd[h].mem = "live"
  /\ hnd[h].gc = "done"
  /\ ~Reachable(h)
  /\ Set(h, [hnd[h] EXCEPT !.mem = "freed", !.set = FALSE, !.weak = FALSE])
  /\ UNCHANGED stack

(***************************************************************************)
(* The steps of the modules above by who takes them.                       *)
(***************************************************************************)
CommonCalls(h) ==
  \/ lluv_handle_close(h)
  \/ lluv_handle_lock_(h)
  \/ lluv_handle_unlock_(h)
  \/ TakeReference(h)
  \/ DropReference(h)

Collector(h) == GcFindsDead(h) \/ GcFinalizes(h) \/ GcFrees(h)
=============================================================================
