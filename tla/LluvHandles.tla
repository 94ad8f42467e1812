----------------------------- MODULE LluvHandles ----------------------------
(***************************************************************************)
(* All handle kinds together: the Lua program calls methods, libuv calls   *)
(* back, the collector runs whenever it likes, and every callback may do   *)
(* any of this before it returns.                                          *)
(***************************************************************************)
EXTENDS LluvWatcher, LluvStream

Program(h) ==
  \/ CreateWatcher(h)
  \/ CreateStream(h)
  \/ CommonCalls(h)
  \/ WatcherCalls(h)
  \/ StreamCalls(h)

Libuv(h) ==
  \/ lluv_on_handle_close(h)
  \/ RunDeferred(h)
  \/ WatcherEvents(h)
  \/ StreamEvents(h)

Next ==
  \/ \E h \in Handles : Program(h) \/ Libuv(h) \/ Collector(h)
  \/ lluv_loop_on_walk_close
  \/ CallbackReturns

Spec == Init /\ [][Next]_vars

(***************************************************************************)
(* Fairness.  Callbacks return; a loop iteration serves the defer queue,   *)
(* the finished requests and the closing handles, however busy the         *)
(* watchers are; the collector runs again and again.  The program owes     *)
(* nothing.                                                                *)
(***************************************************************************)
Fairness ==
  /\ WF_vars(CallbackReturns)
  /\ \A h \in Handles :
       /\ SF_vars(lluv_on_handle_close(h))
       /\ SF_vars(lluv_on_stream_req_cb(h))
       /\ SF_vars(RunDeferred(h))
       /\ WF_vars(Collector(h))

FairSpec == Spec /\ Fairness

(***************************************************************************)
(* Safety.                                                                 *)
(***************************************************************************)

KnownToUv(r) == r.uv \in {"open", "closing"}

(* libuv never holds a pointer to freed memory: as long as uv_close has    *)
(* not called back, the userdata that embeds the uv_handle_t is alive,     *)
(* whatever the program dropped and whenever the collector ran.  It is     *)
(* what lluv_handle_lock and the resurrecting __gc (lluv_handle_close) are *)
(* for.                                                                    *)
UvMemoryIsAlive ==
  \A h \in Handles : KnownToUv(hnd[h]) => hnd[h].mem = "live"

(* The assert of lluv_handle_pushself: every handle that libuv can name,   *)
(* in a callback or in uv_walk, is found again, even between the clearing  *)
(* of the weak values and the finalizer.                                   *)
PushselfFinds ==
  \A h \in Handles :
    KnownToUv(hnd[h]) => hnd[h].self \/ hnd[h].weak \/ hnd[h].set

(* A callback works on a live handle: no userdata on the C stack is freed. *)
FramesAreAlive == \A i \in 1..Len(stack) : hnd[stack[i].h].mem = "live"

(* The asserts of lluv_handle_unlock: the registry reference is held       *)
(* exactly while a bit is set, and the request bit while requests are in   *)
(* flight, one count for each.                                             *)
LockDiscipline ==
  \A h \in Handles :
    /\ hnd[h].self <=> hnd[h].lock # {}
    /\ "REQ" \in hnd[h].lock <=> hnd[h].reqs > 0
    /\ hnd[h].counter = hnd[h].reqs

(* "lluv temporary lock handle if it has planned callback"                 *)
(* (doc/lluv.ldoc:621): a Lua callback that libuv will call keeps its      *)
(* handle from being collected.                                            *)
PlannedCallback(r) ==
  \/ r.active \cap r.cb # {}
  \/ r.reqs > 0
  \/ r.uv = "closing"

PlannedCallbackLocks ==
  \A h \in Handles : PlannedCallback(hnd[h]) => hnd[h].self

(* The asserts of lluv_on_handle_start, the read and the connection        *)
(* callback: libuv only watches for what has a Lua callback.  Only a       *)
(* process may run without one.                                            *)
WatchedHasCallback ==
  \A h \in Handles : hnd[h].kind # "process" => hnd[h].active \subseteq hnd[h].cb

(* After the close callback the handle is quiet for good: not watched, no  *)
(* request in flight that would free itself against it, no callback slot   *)
(* and no registry reference left behind.                                  *)
ClosedIsQuiet ==
  \A h \in Handles :
    ~hnd[h].open => /\ hnd[h].active = {} /\ hnd[h].reqs = 0
                    /\ hnd[h].cb = {} /\ ~hnd[h].self
                    /\ ~KnownToUv(hnd[h])

(* handle.data can be read in the close callback (test/test-data.lua:38):  *)
(* the handle stays in LLUV_HANDLES_SET until the callback returns.        *)
DataOutlivesCloseCb ==
  \A i \in 1..Len(stack) : stack[i].what = "close" => hnd[stack[i].h].set

(* Lock bits of handles whose watcher is stopped by lluv or by the program *)
(* only: START is locked exactly while libuv watches (or for streams,      *)
(* reads), so that stop makes the handle collectable again.                *)
UnlocksOnStop == {"idle", "prepare", "check", "fs_event", "fs_poll",
                  "tcp", "pipe", "tty", "udp"}

StartLockFollowsWatcher ==
  \A h \in Handles :
    hnd[h].kind \in UnlocksOnStop /\ hnd[h].uv = "open" =>
      ("START" \in hnd[h].lock <=> "START" \in hnd[h].active)

(* What the documentation of lock() promises of every kind: an inactive    *)
(* handle without a planned callback is not locked unless the program did, *)
(* "so without `lock()` it will be GC'ed" (doc/lluv.ldoc:627).             *)
InactiveIsUnlocked ==
  \A h \in Handles :
    hnd[h].open /\ hnd[h].active = {} /\ ~PlannedCallback(hnd[h])
      => hnd[h].lock \subseteq {"MANUAL"}

(* A handle is closed once: it is never open again, libuv never gets it    *)
(* back, and freed memory is not used again.                               *)
LifeIsOneWay ==
  [][\A h \in Handles :
       /\ hnd[h].uv = "closed" => hnd'[h].uv = "closed" /\ ~hnd'[h].open
       /\ hnd[h].uv = "closing" => hnd'[h].uv \in {"closing", "closed"}
       /\ hnd[h].mem = "freed" => hnd'[h] = hnd[h]]_vars

(***************************************************************************)
(* The inductive invariant.  Safe(r) is what every operation keeps of one  *)
(* record; the stack adds that a frame pins its handle and that the close  *)
(* callback of a handle runs once.                                         *)
(***************************************************************************)
Anchored(r) ==
  /\ r.self <=> r.lock # {}
  /\ "REQ" \in r.lock <=> r.reqs > 0
  /\ r.counter = r.reqs
  /\ r.uv = "closing" => "CLOSE" \in r.lock
  /\ r.active \cap r.cb \subseteq r.lock

Registered(r) ==
  /\ r.open <=> KnownToUv(r)
  /\ r.open => r.mem = "live" /\ r.set
  /\ r.gc = "done" => r.uv # "open"
  /\ r.gc = "pending" => r.mem = "live"
  /\ r.mem # "live" => ~r.user /\ r.defers = 0
  /\ r.mem = "none" => r.uv = "none"

Quiet(r) ==
  /\ ~r.open => r.active = {} /\ r.reqs = 0 /\ r.cb = {} /\ r.lock = {}
  /\ r.uv = "closing" => r.active = {}

Watched(r) ==
  /\ r.kind # "process" => r.active \subseteq r.cb
  /\ r.kind \in UnlocksOnStop /\ r.uv = "open" =>
       ("START" \in r.lock <=> "START" \in r.active)

Safe(r) == Anchored(r) /\ Registered(r) /\ Quiet(r) /\ Watched(r)

FramesPin ==
  \A i \in 1..Len(stack) :
    /\ hnd[stack[i].h].mem = "live"
    /\ stack[i].what = "close" => ~hnd[stack[i].h].open /\ hnd[stack[i].h].set
    /\ stack[i].what = "oneshot" => hnd[stack[i].h].kind = "signal"

OneCloseFrame ==
  \A i, j \in 1..Len(stack) :
    stack[i].what = "close" /\ stack[j].what = "close"
      /\ stack[i].h = stack[j].h => i = j

(* Every operation of the program, callback of libuv and step of the       *)
(* collector keeps the records consistent and the frames on live handles;  *)
(* all the invariants above follow from it.                                *)
HandleInv ==
  /\ TypeOK
  /\ \A h \in Handles : Safe(hnd[h])
  /\ FramesPin
  /\ OneCloseFrame

(***************************************************************************)
(* Liveness.                                                               *)
(***************************************************************************)

(* Every close completes: the requests in flight are called back, then the *)
(* close callback, and once the program has let go of the handle it is     *)
(* given back to the collector: nothing in the registry, the defer queue   *)
(* or the weak tables holds it for ever.                                   *)
CloseCompletes ==
  \A h \in Handles :
    /\ hnd[h].uv = "closing" ~> hnd[h].uv = "closed"
    /\ hnd[h].uv = "closed" /\ ~hnd[h].user
         ~> hnd[h].mem = "freed" \/ hnd[h].user

(* A handle that the program forgot, that nothing locks and no deferred    *)
(* call holds is closed by its finalizer.                                  *)
ForgottenIsClosed ==
  \A h \in Handles :
    hnd[h].uv = "open" /\ ~hnd[h].user /\ hnd[h].lock = {}
      ~> \/ hnd[h].uv # "open"
         \/ hnd[h].user \/ hnd[h].lock # {} \/ hnd[h].defers > 0
=============================================================================
