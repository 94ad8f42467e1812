----------------------------- MODULE LluvWatcher ----------------------------
(***************************************************************************)
(* The handles that watch for one sort of event: timer, idle, prepare,     *)
(* check, poll, signal, fs_event and fs_poll.  Each has start, stop and a  *)
(* callback; what differs is who stops the watcher and whether the START   *)
(* lock follows.                                                           *)
(*                                                                         *)
(* libuv (external): uv_xxx_start fails on a closing handle and may fail   *)
(* otherwise; uv_xxx_stop succeeds on every handle.                        *)
(***************************************************************************)
EXTENDS LluvHandle

WithStartCb(r) == [r EXCEPT !.cb = @ \cup {"START"}]
Watching(r)    == [r EXCEPT !.active = @ \cup {"START"}]
NotWatching(r) == [r EXCEPT !.active = @ \ {"START"}]

(* xxx:start(..., cb).  The callback slot is overwritten first; a failure  *)
(* is reported through the callback, later, and leaves the slot set.       *)
StartWatcher(h, k) ==
  /\ Usable(h)
  /\ hnd[h].kind = k
  /\ \/ /\ hnd[h].uv = "open"
        /\ Set(h, Lock(Watching(WithStartCb(hnd[h])), "START"))
     \/ /\ hnd[h].defers < MaxDefers
        /\ Set(h, Defer(WithStartCb(hnd[h])))
  /\ UNCHANGED stack

(* Mutant: stop locks, as that of the timer does.                          *)
StopWatcher_Locks(h, k) ==
  /\ Usable(h)
  /\ hnd[h].kind = k
  /\ Set(h, Lock(NotWatching(hnd[h]), "START"))
  /\ UNCHANGED stack

(* xxx:stop().  The callback slot is left as it is.                        *)
StopWatcher(h, k) ==
  /\ Usable(h)
  /\ hnd[h].kind = k
  /\ Set(h, Unlock(NotWatching(hnd[h]), "START"))
  /\ UNCHANGED stack

(* libuv reports an event of a watcher that goes on watching.              *)
WatcherEvent(h, k) ==
  /\ hnd[h].kind = k
  /\ "START" \in hnd[h].active
  /\ CanCallBack
  /\ Call(h, "event")
  /\ UNCHANGED hnd

(***************************************************************************)
(* Timers.  libuv stops an expired timer, restarts it if it repeats, and   *)
(* calls back.                                                             *)
(***************************************************************************)
lluv_timer_start(h) == StartWatcher(h, "timer")

lluv_on_timer_start(h) ==
  /\ hnd[h].kind = "timer"
  /\ "START" \in hnd[h].active
  /\ CanCallBack
  /\ Call(h, "event")
  /\ \E repeats \in BOOLEAN :
       Set(h, IF repeats THEN hnd[h]
                         ELSE Unlock(NotWatching(hnd[h]), "START"))

(* lluv_timer_stop locks where the stop of the other kinds unlocks.        *)
lluv_timer_stop(h) ==
  /\ Usable(h)
  /\ hnd[h].kind = "timer"
  /\ Set(h, Lock(NotWatching(hnd[h]), "START"))
  /\ UNCHANGED stack

(* uv_timer_again succeeds once the timer has been started; it rearms only *)
(* a timer that has a repeat value and is not closing.                     *)
lluv_timer_again(h) ==
  /\ Usable(h)
  /\ hnd[h].kind = "timer"
  /\ "START" \in hnd[h].cb
  /\ \E rearmed \in BOOLEAN :
       /\ rearmed => hnd[h].uv = "open"
       /\ Set(h, Lock(IF rearmed THEN Watching(hnd[h]) ELSE hnd[h], "START"))
  /\ UNCHANGED stack

(***************************************************************************)
(* Loop watchers.                                                          *)
(***************************************************************************)
lluv_idle_start(h)       == StartWatcher(h, "idle")
lluv_idle_stop(h)        == StopWatcher(h, "idle")
lluv_on_idle_start(h)    == WatcherEvent(h, "idle")

lluv_prepare_start(h)    == StartWatcher(h, "prepare")
lluv_prepare_stop(h)     == StopWatcher(h, "prepare")
lluv_on_prepare_start(h) == WatcherEvent(h, "prepare")

lluv_check_start(h)      == StartWatcher(h, "check")
lluv_check_stop(h)       == StopWatcher(h, "check")
lluv_on_check_start(h)   == WatcherEvent(h, "check")

(***************************************************************************)
(* File system watchers.                                                   *)
(***************************************************************************)
lluv_fs_event_start(h)    == StartWatcher(h, "fs_event")
lluv_fs_event_stop(h)     == StopWatcher(h, "fs_event")
lluv_on_fs_event_start(h) == WatcherEvent(h, "fs_event")

lluv_fs_poll_start(h)    == StartWatcher(h, "fs_poll")
lluv_fs_poll_stop(h)     == StopWatcher(h, "fs_poll")
lluv_on_fs_poll_start(h) == WatcherEvent(h, "fs_poll")

(***************************************************************************)
(* Descriptors and signals.  After an error status libuv has stopped the   *)
(* poll handle; after the callback of a one-shot signal it stops that.     *)
(* Neither is seen by lluv, whose START lock stays.                        *)
(***************************************************************************)
lluv_poll_start(h) == StartWatcher(h, "poll")
lluv_poll_stop(h)  == StopWatcher(h, "poll")

lluv_on_poll_start(h) ==
  /\ hnd[h].kind = "poll"
  /\ "START" \in hnd[h].active
  /\ CanCallBack
  /\ Call(h, "event")
  /\ \E failed \in BOOLEAN :
       Set(h, IF failed THEN NotWatching(hnd[h]) ELSE hnd[h])

(* start and start_oneshot differ in what libuv does after the callback.   *)
lluv_signal_start(h) == StartWatcher(h, "signal")
lluv_signal_stop(h)  == StopWatcher(h, "signal")

lluv_on_signal_start(h) ==
  /\ hnd[h].kind = "signal"
  /\ "START" \in hnd[h].active
  /\ CanCallBack
  /\ \E what \in {"event", "oneshot"} : Call(h, what)
  /\ UNCHANGED hnd

(***************************************************************************)
(* Creation, calls of the program, callbacks of libuv.                     *)
(***************************************************************************)
CreateWatcher(h) == \E k \in Kinds \cap WatcherKinds : lluv_handle_create(h, k)

WatcherCalls(h) ==
  \/ lluv_timer_start(h)    \/ lluv_timer_stop(h)    \/ lluv_timer_again(h)
  \/ lluv_idle_start(h)     \/ lluv_idle_stop(h)
  \/ lluv_prepare_start(h)  \/ lluv_prepare_stop(h)
  \/ lluv_check_start(h)    \/ lluv_check_stop(h)
  \/ lluv_fs_event_start(h) \/ lluv_fs_event_stop(h)
  \/ lluv_fs_poll_start(h)  \/ lluv_fs_poll_stop(h)
  \/ lluv_poll_start(h)     \/ lluv_poll_stop(h)
  \/ lluv_signal_start(h)   \/ lluv_signal_stop(h)

WatcherEvents(h) ==
  \/ lluv_on_timer_start(h)    \/ lluv_on_idle_start(h)
  \/ lluv_on_prepare_start(h)  \/ lluv_on_check_start(h)
  \/ lluv_on_fs_event_start(h) \/ lluv_on_fs_poll_start(h)
  \/ lluv_on_poll_start(h)     \/ lluv_on_signal_start(h)
=============================================================================
