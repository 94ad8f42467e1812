-------------------------- MODULE LluvHandlesProofs -------------------------
(***************************************************************************)
(* Proofs about LluvHandles, for any set of handles, any kinds and any     *)
(* bounds.  HandleInv is inductive; it is proved in three layers:          *)
(*   1. what each primitive does to one record: it leads from a safe       *)
(*      record to a safe one, and only forward (Good);                     *)
(*   2. a good change of one record, with or without a callback pushed on  *)
(*      the stack, keeps HandleInv (QuietStep, CallStep);                  *)
(*   3. every action of Next is such a change, or one of the four that     *)
(*      need an argument of their own: the close callback, the return of a *)
(*      callback, the walk that closes everything, and GcFrees.            *)
(***************************************************************************)
EXTENDS LluvHandles, SequenceTheorems, TLAPS

(* One handle moves on as LifeIsOneWay allows.                             *)
Advances(r, s) ==
  /\ r.uv = "closed" => s.uv = "closed" /\ ~s.open
  /\ r.uv = "closing" => s.uv \in {"closing", "closed"}
  /\ r.mem = "freed" => s = r

(* The change of a record from r to s that disturbs no frame.              *)
Good(r, s) ==
  /\ s \in HandleRec
  /\ Safe(s)
  /\ Advances(r, s)
  /\ r.mem = "live" => s.mem = "live" /\ s.kind = r.kind
  /\ r.mem = "live" /\ ~r.open => ~s.open /\ s.set = r.set

AllAdvance == \A h \in Handles : Advances(hnd[h], hnd'[h])

(***************************************************************************)
(* Records: every primitive, under the condition in which the actions use  *)
(* it, is a good change.                                                   *)
(***************************************************************************)

(* A step composed of good changes is good; a blank record may become any  *)
(* safe one.                                                               *)
LEMMA GoodTransitive ==
  ASSUME NEW r \in HandleRec, NEW s, NEW t, Good(r, s), Good(s, t)
  PROVE  Good(r, t)
  BY DEF Good, Advances, HandleRec

(* A record that has no handle yet.                                        *)
LEMMA FreshGood ==
  ASSUME NEW r \in HandleRec, Safe(r), r.mem = "none",
         NEW s \in HandleRec, Safe(s)
  PROVE  Good(r, s)
  BY DEF Good, Advances, Safe, Registered, HandleRec

(* An open handle that stays as it is for libuv.                           *)
LEMMA OpenGood ==
  ASSUME NEW r \in HandleRec, Safe(r), r.open,
         NEW s \in HandleRec, Safe(s),
         s.mem = r.mem, s.kind = r.kind, s.uv = r.uv
  PROVE  Good(r, s)
  <1>1. r.mem = "live" /\ r.uv # "closed"
    BY DEF Safe, Registered, KnownToUv
  <1>. QED  BY <1>1 DEF Good, Advances

(* The fields that lluv_handle_lock and lluv_handle_unlock change, and     *)
(* those that they leave alone.                                            *)
SameButLock(r, s) ==
  /\ s.mem = r.mem /\ s.kind = r.kind /\ s.open = r.open /\ s.cb = r.cb
  /\ s.set = r.set /\ s.weak = r.weak /\ s.uv = r.uv /\ s.active = r.active
  /\ s.reqs = r.reqs /\ s.user = r.user /\ s.defers = r.defers /\ s.gc = r.gc

(* What lluv_handle_lock changes in the record.                            *)
LEMMA LockFields ==
  ASSUME NEW r \in HandleRec, NEW l \in Locks
  PROVE  /\ Lock(r, l) \in HandleRec
         /\ Lock(r, l).lock = r.lock \cup {l}
         /\ Lock(r, l).counter = IF l = "REQ" THEN r.counter + 1 ELSE r.counter
         /\ Lock(r, l).self = TRUE
         /\ SameButLock(r, Lock(r, l))
  <1>1. r.lock \cup {l} \in SUBSET Locks
    BY DEF HandleRec
  <1>2. (IF l = "REQ" THEN r.counter + 1 ELSE r.counter) \in Nat
    BY DEF HandleRec
  <1>3. Lock(r, l) \in HandleRec
    BY <1>1, <1>2 DEF Lock, HandleRec
  <1>4. /\ Lock(r, l).lock = r.lock \cup {l}
        /\ Lock(r, l).counter = IF l = "REQ" THEN r.counter + 1 ELSE r.counter
        /\ Lock(r, l).self = TRUE
    BY DEF Lock, HandleRec
  <1>5. SameButLock(r, Lock(r, l))
    BY DEF Lock, HandleRec, SameButLock
  <1>. QED  BY <1>3, <1>4, <1>5

(* What lluv_handle_unlock changes in the record.                          *)
LEMMA UnlockFields ==
  ASSUME NEW r \in HandleRec, NEW l \in Locks, r.self,
         l = "REQ" => r.counter > 0
  PROVE  /\ Unlock(r, l) \in HandleRec
         /\ Unlock(r, l).lock = BitsAfterUnlock(r, l)
         /\ Unlock(r, l).counter = IF l = "REQ" THEN r.counter - 1 ELSE r.counter
         /\ Unlock(r, l).self <=> BitsAfterUnlock(r, l) # {}
         /\ SameButLock(r, Unlock(r, l))
  <1>1. BitsAfterUnlock(r, l) \in SUBSET Locks
    BY DEF HandleRec, BitsAfterUnlock
  <1>2. (IF l = "REQ" THEN r.counter - 1 ELSE r.counter) \in Nat
    BY DEF HandleRec
  <1>3. Unlock(r, l) \in HandleRec
    BY <1>1, <1>2 DEF Unlock, HandleRec
  <1>4. /\ Unlock(r, l).lock = BitsAfterUnlock(r, l)
        /\ Unlock(r, l).counter = IF l = "REQ" THEN r.counter - 1 ELSE r.counter
        /\ SameButLock(r, Unlock(r, l))
    BY DEF Unlock, HandleRec, SameButLock
  <1>5. Unlock(r, l).self <=> BitsAfterUnlock(r, l) # {}
    BY DEF Unlock, HandleRec
  <1>. QED  BY <1>3, <1>4, <1>5

(* handle:lock().                                                          *)
LEMMA LockGood ==
  ASSUME NEW r \in HandleRec, Safe(r), r.open
  PROVE  Good(r, Lock(r, "MANUAL"))
  BY DEF Good, Advances, HandleRec, Safe, Anchored, Registered, Quiet, Watched,
         KnownToUv, UnlocksOnStop, Locks, Slots,
         Lock

(* handle:unlock().                                                        *)
LEMMA UnlockGood ==
  ASSUME NEW r \in HandleRec, Safe(r), r.open
  PROVE  Good(r, Unlock(r, "MANUAL"))
  BY ZenonT(60) DEF Good, Advances, HandleRec, Safe, Anchored, Registered, Quiet, Watched,
         KnownToUv, UnlocksOnStop, Locks, Slots,
         Unlock, BitsAfterUnlock

(* lluv_handle_close, with or without a callback.                          *)
LEMMA CloseGood ==
  ASSUME NEW r \in HandleRec, Safe(r), MayClose(r), NEW c \in BOOLEAN
  PROVE  Good(r, Close(r, c))
  BY ZenonT(60) DEF Good, Advances, HandleRec, Safe, Anchored, Registered, Quiet, Watched,
         KnownToUv, UnlocksOnStop, Locks, Slots,
         Lock, Close, MayClose

(* Taking and dropping a reference.                                        *)
LEMMA ReferenceGood ==
  ASSUME NEW r \in HandleRec, Safe(r), r.mem = "live"
  PROVE  /\ Good(r, [r EXCEPT !.user = TRUE])
         /\ Good(r, [r EXCEPT !.user = FALSE])
  BY ZenonT(60) DEF Good, Advances, HandleRec, Safe, Anchored, Registered, Quiet, Watched,
         KnownToUv, UnlocksOnStop, Locks, Slots

(* Queueing and running a deferred callback.                               *)
LEMMA DeferGood ==
  ASSUME NEW r \in HandleRec, Safe(r), r.mem = "live"
  PROVE  /\ Good(r, Defer(r))
         /\ r.defers > 0 => Good(r, [r EXCEPT !.defers = @ - 1])
  BY DEF Good, Advances, HandleRec, Safe, Anchored, Registered, Quiet, Watched,
         KnownToUv, UnlocksOnStop, Locks, Slots,
         Defer

(* A new handle takes the place of a blank record.                         *)
LEMMA CreatedGood ==
  ASSUME NEW r \in HandleRec, Safe(r), r.mem = "none", NEW k \in AllKinds
  PROVE  /\ Good(r, Created(k))
         /\ Good(r, [Cleanup(Created(k)) EXCEPT !.set = FALSE, !.uv = "none",
                                                !.user = FALSE])
         /\ Good(r, [Close(Created(k), FALSE) EXCEPT !.user = FALSE])
  <1>1. Good(r, Created(k))
    BY DEF Good, Advances, HandleRec, Safe, Anchored, Registered, Quiet, Watched,
           KnownToUv, UnlocksOnStop, Locks, Slots,
           Created, Blank
  <1>2. Good(r, [Cleanup(Created(k)) EXCEPT !.set = FALSE, !.uv = "none",
                                            !.user = FALSE])
    BY ZenonT(60) DEF Good, Advances, HandleRec, Safe, Anchored, Registered, Quiet, Watched,
           KnownToUv, UnlocksOnStop, Locks, Slots,
           Created, Blank, Cleanup
  <1>3. Good(r, [Close(Created(k), FALSE) EXCEPT !.user = FALSE])
    <2>1. MayClose(Created(k)) /\ Created(k).mem = "live"
      BY DEF Created, Blank, MayClose
    <2>2. Good(Created(k), Close(Created(k), FALSE))
      BY <1>1, <2>1, CloseGood DEF Good
    <2>3. Good(Close(Created(k), FALSE),
               [Close(Created(k), FALSE) EXCEPT !.user = FALSE])
      BY <2>1, <2>2, ReferenceGood DEF Good
    <2>. QED  BY <2>3, FreshGood DEF Good
  <1>. QED  BY <1>1, <1>2, <1>3

(* The four results of spawning a process.                                 *)
LEMMA SpawnedGood ==
  ASSUME NEW r \in HandleRec, Safe(r), r.mem = "none"
  PROVE  /\ Good(r, Spawned)
         /\ Good(r, [Lock(Spawned, "START") EXCEPT !.cb = {"START"}])
         /\ Good(r, [Close(Created("process"), FALSE) EXCEPT !.user = FALSE])
         /\ Good(r, Defer([Lock(Created("process"), "START")
                             EXCEPT !.cb = {"START"}]))
  <1>0. "process" \in AllKinds
    BY DEF AllKinds
  <1>1. Good(r, Spawned)
    BY <1>0, ZenonT(60)
    DEF Good, Advances, HandleRec, Safe, Anchored, Registered, Quiet, Watched,
           KnownToUv, UnlocksOnStop, Locks, Slots,
        Spawned, Created, Blank
  <1>2. Spawned.kind = "process" /\ Spawned.open /\ Created("process").open
        /\ Created("process").kind = "process"
    BY DEF Spawned, Created, Blank
  <1>3. ASSUME NEW x \in HandleRec, Safe(x), x.kind = "process", x.open
        PROVE  LET y == [Lock(x, "START") EXCEPT !.cb = {"START"}]
               IN  y \in HandleRec /\ Safe(y) /\ y.mem = "live"
    <2>. DEFINE l == Lock(x, "START")
                y == [l EXCEPT !.cb = {"START"}]
    <2>1. /\ l \in HandleRec /\ l.lock = x.lock \cup {"START"} /\ l.self = TRUE
          /\ l.counter = x.counter /\ SameButLock(x, l)
      BY LockFields DEF Locks
    <2>. HIDE DEF l
    <2>2. /\ y \in HandleRec
          /\ y.cb = {"START"} /\ y.reqs = x.reqs
          /\ y.lock = l.lock /\ y.counter = l.counter /\ y.self = l.self
          /\ y.mem = x.mem /\ y.kind = x.kind /\ y.open = x.open
          /\ y.set = x.set /\ y.uv = x.uv /\ y.gc = x.gc
          /\ y.active = x.active /\ y.user = x.user /\ y.defers = x.defers
      BY <2>1 DEF SameButLock, HandleRec, Slots
    <2>. HIDE DEF y
    <2>3. Safe(y)
      BY <1>3, <2>1, <2>2
      DEF Safe, Anchored, Registered, Quiet, Watched, KnownToUv,
          UnlocksOnStop, HandleRec
    <2>4. y.mem = "live"
      BY <1>3, <2>2 DEF Safe, Registered
    <2>. QED  BY <2>2, <2>3, <2>4 DEF y, l
  <1>4. Good(r, [Lock(Spawned, "START") EXCEPT !.cb = {"START"}])
    BY <1>1, <1>2, <1>3, FreshGood DEF Good
  <1>5. Good(r, [Close(Created("process"), FALSE) EXCEPT !.user = FALSE])
    BY <1>0, CreatedGood
  <1>6. Good(r, Defer([Lock(Created("process"), "START")
                        EXCEPT !.cb = {"START"}]))
    <2>. DEFINE y == [Lock(Created("process"), "START") EXCEPT !.cb = {"START"}]
    <2>1. y \in HandleRec /\ Safe(y) /\ y.mem = "live"
      BY <1>0, <1>2, <1>3, CreatedGood DEF Good
    <2>. HIDE DEF y
    <2>2. Good(r, Defer(y))
      BY <2>1, DeferGood, FreshGood DEF Good
    <2>. QED  BY <2>2 DEF y
  <1>. QED  BY <1>1, <1>4, <1>5, <1>6

(* The collector finds the handle dead.                                    *)
LEMMA GcPendingGood ==
  ASSUME NEW r \in HandleRec, Safe(r), r.mem = "live", r.gc = "no"
  PROVE  Good(r, [r EXCEPT !.gc = "pending", !.weak = FALSE])
  BY DEF Good, Advances, HandleRec, Safe, Anchored, Registered, Quiet, Watched,
         KnownToUv, UnlocksOnStop, Locks, Slots

(* Its finalizer has closed it, unless it was closed already.              *)
LEMMA GcDoneGood ==
  ASSUME NEW r \in HandleRec, Safe(r), r.gc = "pending"
  PROVE  /\ MayClose(r) => Good(r, [Close(r, FALSE) EXCEPT !.gc = "done"])
         /\ ~MayClose(r) => Good(r, [r EXCEPT !.gc = "done"])
  BY ZenonT(60) DEF Good, Advances, HandleRec, Safe, Anchored, Registered, Quiet, Watched,
         KnownToUv, UnlocksOnStop, Locks, Slots,
         Close, Lock, MayClose

(* A watcher, a reader or a listener is started, or refused with the       *)
(* callback slot overwritten.                                              *)
LEMMA StartGood ==
  ASSUME NEW r \in HandleRec, Safe(r), r.open, r.kind # "process",
         NEW s \in {"START", "CONNECTION"}
  PROVE  /\ r.uv = "open" =>
              Good(r, Lock([r EXCEPT !.cb = @ \cup {s}, !.active = @ \cup {s}], s))
         /\ Good(r, Defer([r EXCEPT !.cb = @ \cup {s}]))
  <1>1. ASSUME r.uv = "open"
        PROVE  Good(r, Lock([r EXCEPT !.cb = @ \cup {s},
                                      !.active = @ \cup {s}], s))
    <2>. DEFINE x == [r EXCEPT !.cb = @ \cup {s}, !.active = @ \cup {s}]
                y == Lock(x, s)
    <2>1. /\ x \in HandleRec
          /\ x.active = r.active \cup {s} /\ x.cb = r.cb \cup {s}
          /\ x.lock = r.lock /\ x.counter = r.counter /\ x.self = r.self
          /\ x.mem = r.mem /\ x.kind = r.kind /\ x.open = r.open
          /\ x.set = r.set /\ x.uv = r.uv /\ x.reqs = r.reqs
          /\ x.user = r.user /\ x.defers = r.defers /\ x.gc = r.gc
      BY DEF HandleRec, Slots
    <2>. HIDE DEF x
    <2>2. /\ y \in HandleRec /\ y.lock = x.lock \cup {s} /\ y.self = TRUE
          /\ y.counter = x.counter /\ SameButLock(x, y)
      BY <2>1, LockFields, ZenonT(60) DEF Locks
    <2>. HIDE DEF y
    <2>3. Safe(y)
      BY <1>1, <2>1, <2>2
      DEF Safe, Anchored, Registered, Quiet, Watched, KnownToUv,
          UnlocksOnStop, HandleRec, SameButLock
    <2>4. Good(r, y)
      BY <2>1, <2>2, <2>3, OpenGood DEF SameButLock
    <2>. QED  BY <2>4 DEF x, y
  <1>2. Good(r, Defer([r EXCEPT !.cb = @ \cup {s}]))
    <2>. DEFINE x == [r EXCEPT !.cb = @ \cup {s}]
    <2>1. /\ x \in HandleRec
          /\ x.active = r.active /\ x.cb = r.cb \cup {s}
          /\ x.lock = r.lock /\ x.counter = r.counter /\ x.self = r.self
          /\ x.mem = r.mem /\ x.kind = r.kind /\ x.open = r.open
          /\ x.set = r.set /\ x.uv = r.uv /\ x.reqs = r.reqs
          /\ x.user = r.user /\ x.defers = r.defers /\ x.gc = r.gc
      BY DEF HandleRec, Slots
    <2>. HIDE DEF x
    <2>2. Safe(x)
      BY <2>1
      DEF Safe, Anchored, Registered, Quiet, Watched, KnownToUv,
          UnlocksOnStop, HandleRec
    <2>3. Good(r, x) /\ x.mem = "live"
      BY <2>1, <2>2, OpenGood DEF Safe, Registered
    <2>4. Good(r, Defer(x))
      BY <2>3, DeferGood, GoodTransitive DEF Good
    <2>. QED  BY <2>4 DEF x
  <1>. QED  BY <1>1, <1>2

(* A watcher, a reader or a process is no longer watched for START, and    *)
(* the START lock goes.                                                    *)
SameButSlots(r, x) ==
  /\ x.lock = r.lock /\ x.counter = r.counter /\ x.self = r.self
  /\ x.mem = r.mem /\ x.kind = r.kind /\ x.open = r.open
  /\ x.set = r.set /\ x.uv = r.uv /\ x.reqs = r.reqs
  /\ x.user = r.user /\ x.defers = r.defers /\ x.gc = r.gc

(* Giving up the START lock together with the watcher.                     *)
LEMMA UnlockStartGood ==
  ASSUME NEW r \in HandleRec, Safe(r), r.open,
         NEW x \in HandleRec, SameButSlots(r, x),
         x.active \subseteq r.active \ {"START"}, x.cb \subseteq r.cb,
         x.kind # "process" => x.active \subseteq x.cb
  PROVE  Good(r, Unlock(x, "START"))
  <1>. DEFINE y == Unlock(x, "START")
  <1>1. CASE r.self
    <2>1. /\ y \in HandleRec /\ y.lock = x.lock \ {"START"}
          /\ y.self <=> y.lock # {}
          /\ y.counter = x.counter /\ SameButLock(x, y)
      BY <1>1, UnlockFields DEF Locks, BitsAfterUnlock, SameButSlots
    <2>. HIDE DEF y
    <2>2. Safe(y)
      BY <2>1
      DEF Safe, Anchored, Registered, Quiet, Watched, KnownToUv,
          UnlocksOnStop, HandleRec, SameButLock, SameButSlots
    <2>3. Good(r, y)
      BY <2>1, <2>2, OpenGood DEF SameButLock, SameButSlots
    <2>. QED  BY <2>3 DEF y
  <1>2. CASE ~r.self
    <2>1. Safe(x)
      BY <1>2
      DEF Safe, Anchored, Registered, Quiet, Watched, KnownToUv,
          UnlocksOnStop, HandleRec, SameButSlots
    <2>2. y = x
      BY <1>2 DEF Unlock, SameButSlots
    <2>. QED  BY <2>1, <2>2, OpenGood DEF SameButSlots
  <1>. QED  BY <1>1, <1>2 DEF HandleRec

(* A watcher is stopped and unlocked; a timer that does not repeat         *)
(* expires.                                                                *)
LEMMA StopGood ==
  ASSUME NEW r \in HandleRec, Safe(r), r.open, r.kind # "process"
  PROVE  Good(r, Unlock(NotWatching(r), "START"))
  BY UnlockStartGood DEF SameButSlots, NotWatching, HandleRec, Safe, Watched

(* timer:stop() and timer:again().                                         *)
LEMMA TimerGood ==
  ASSUME NEW r \in HandleRec, Safe(r), r.open, r.kind = "timer"
  PROVE  /\ Good(r, Lock(NotWatching(r), "START"))
         /\ Good(r, Lock(r, "START"))
         /\ r.uv = "open" /\ "START" \in r.cb => Good(r, Lock(Watching(r), "START"))
  BY ZenonT(60) DEF Good, Advances, HandleRec, Safe, Anchored, Registered, Quiet, Watched,
         KnownToUv, UnlocksOnStop, Locks, Slots,
         NotWatching, Watching, Lock

(* libuv stops a poll or a signal handle and lluv does not notice.         *)
LEMMA UnwatchedGood ==
  ASSUME NEW r \in HandleRec, Safe(r), r.kind \in {"poll", "signal"}
  PROVE  Good(r, NotWatching(r))
  BY DEF Good, Advances, HandleRec, Safe, Anchored, Registered, Quiet, Watched,
         KnownToUv, UnlocksOnStop, Locks, Slots,
         NotWatching

(* A request is submitted, calls back, or is refused at once.              *)
LEMMA ReqGood ==
  ASSUME NEW r \in HandleRec, Safe(r), r.open
  PROVE  /\ Good(r, ReqNew(r))
         /\ r.reqs > 0 => Good(r, ReqFree(r))
         /\ Good(r, ReqFree(ReqNew(r)))
         /\ Good(r, Defer(ReqFree(ReqNew(r))))
  <1>1. ASSUME NEW x \in HandleRec, Safe(x), x.open
        PROVE  Good(x, ReqNew(x)) /\ ReqNew(x).open /\ ReqNew(x).reqs > 0
    <2>. DEFINE l == Lock(x, "REQ")
                y == ReqNew(x)
    <2>1. /\ l \in HandleRec /\ l.lock = x.lock \cup {"REQ"} /\ l.self = TRUE
          /\ l.counter = x.counter + 1 /\ SameButLock(x, l)
      BY LockFields DEF Locks
    <2>. HIDE DEF l
    <2>2. y \in HandleRec
      BY <2>1 DEF HandleRec, ReqNew, l
    <2>3. /\ y.reqs = x.reqs + 1
          /\ y.lock = l.lock /\ y.counter = l.counter /\ y.self = l.self
          /\ y.mem = x.mem /\ y.kind = x.kind /\ y.open = x.open
          /\ y.cb = x.cb /\ y.set = x.set /\ y.uv = x.uv /\ y.gc = x.gc
          /\ y.active = x.active /\ y.user = x.user /\ y.defers = x.defers
      BY <2>1 DEF ReqNew, SameButLock, HandleRec, l
    <2>. HIDE DEF y
    <2>4. Safe(y)
      BY <1>1, <2>1, <2>3
      DEF Safe, Anchored, Registered, Quiet, Watched, KnownToUv,
          UnlocksOnStop, HandleRec
    <2>5. Good(x, y)
      BY <1>1, <2>2, <2>3, <2>4, OpenGood
    <2>. QED  BY <1>1, <2>3, <2>5 DEF y, HandleRec
  <1>2. ASSUME NEW x \in HandleRec, Safe(x), x.open, x.reqs > 0
        PROVE  Good(x, ReqFree(x)) /\ ReqFree(x).open
    <2>. DEFINE l == Unlock(x, "REQ")
                y == ReqFree(x)
    <2>1. x.self /\ x.counter > 0
      BY <1>2 DEF Safe, Anchored
    <2>2. /\ l \in HandleRec /\ l.lock = BitsAfterUnlock(x, "REQ")
          /\ l.self <=> BitsAfterUnlock(x, "REQ") # {}
          /\ l.counter = x.counter - 1 /\ SameButLock(x, l)
      BY <2>1, UnlockFields DEF Locks
    <2>. HIDE DEF l
    <2>3. y \in HandleRec
      BY <1>2, <2>2 DEF HandleRec, ReqFree, SameButLock, l
    <2>4. /\ y.reqs = x.reqs - 1
          /\ y.lock = l.lock /\ y.counter = l.counter /\ y.self = l.self
          /\ y.mem = x.mem /\ y.kind = x.kind /\ y.open = x.open
          /\ y.cb = x.cb /\ y.set = x.set /\ y.uv = x.uv /\ y.gc = x.gc
          /\ y.active = x.active /\ y.user = x.user /\ y.defers = x.defers
      BY <2>2 DEF ReqFree, SameButLock, HandleRec, l
    <2>. HIDE DEF y
    <2>5. Safe(y)
      BY <1>2, <2>2, <2>4
      DEF Safe, Anchored, Registered, Quiet, Watched, KnownToUv,
          UnlocksOnStop, HandleRec, BitsAfterUnlock
    <2>6. Good(x, y)
      BY <1>2, <2>3, <2>4, <2>5, OpenGood
    <2>. QED  BY <1>2, <2>4, <2>6 DEF y
  <1>3. Good(r, ReqFree(ReqNew(r))) /\ ReqFree(ReqNew(r)).open
    BY <1>1, <1>2, GoodTransitive DEF Good
  <1>4. Good(r, Defer(ReqFree(ReqNew(r))))
    <2>1. ReqFree(ReqNew(r)).mem = "live"
      BY <1>3 DEF Good, Safe, Registered
    <2>. QED  BY <1>3, <2>1, DeferGood, GoodTransitive DEF Good
  <1>. QED  BY <1>1, <1>2, <1>3, <1>4

(* Reading stops.                                                          *)
LEMMA ReadStoppedGood ==
  ASSUME NEW r \in HandleRec, Safe(r), r.open, r.kind # "process"
  PROVE  /\ Good(r, ReadStopped(r))
         /\ "START" \notin r.cb => Good(r, [r EXCEPT !.active = @ \ {"START"}])
  <1>1. Good(r, ReadStopped(r))
    BY UnlockStartGood
    DEF ReadStopped, SameButSlots, HandleRec, Safe, Watched, Slots
  <1>2. "START" \notin r.cb => Good(r, [r EXCEPT !.active = @ \ {"START"}])
    BY DEF Good, Advances, HandleRec, Safe, Anchored, Registered, Quiet, Watched,
           KnownToUv, UnlocksOnStop, Locks, Slots
  <1>. QED  BY <1>1, <1>2

(* A process exits.                                                        *)
LEMMA ExitGood ==
  ASSUME NEW r \in HandleRec, Safe(r), r.open, r.kind = "process"
  PROVE  Good(r, Unlock([r EXCEPT !.active = {}], "START"))
  BY UnlockStartGood DEF SameButSlots, HandleRec

(***************************************************************************)
(* Steps: a good change of one record, alone or with a callback.           *)
(***************************************************************************)

(* What every step of the system is shown to do.                           *)
Kept == HandleInv' /\ AllAdvance

(* A handle on the stack stays safe when its record takes a good step.     *)
LEMMA SafeStays ==
  ASSUME NEW r \in HandleRec, Safe(r)
  PROVE  Good(r, r)
  BY DEF Good, Advances, Safe, Registered, KnownToUv

(* The frames of the callback stack name handles of the model.             *)
LEMMA FrameHandles ==
  ASSUME HandleInv
  PROVE  \A i \in 1..Len(stack) : stack[i] \in Frames /\ stack[i].h \in Handles
  <1>1. stack \in Seq(Frames)
    BY DEF HandleInv, TypeOK
  <1>2. \A i \in 1..Len(stack) : stack[i] \in Frames
    BY <1>1
  <1>. QED  BY <1>2 DEF Frames

(* What the invariant says of one handle.                                  *)
LEMMA HandleFacts ==
  ASSUME HandleInv, NEW h \in Handles
  PROVE  /\ hnd[h] \in HandleRec /\ Safe(hnd[h])
         /\ hnd[h].open => hnd[h].mem = "live"
         /\ hnd[h].uv \in {"open", "closing"} => hnd[h].open
         /\ hnd[h].active # {} \/ hnd[h].reqs > 0 => hnd[h].open
         /\ hnd[h].user \/ hnd[h].defers > 0 => hnd[h].mem = "live"
         /\ OnStack(h) => hnd[h].mem = "live"
  <1>1. hnd[h] \in HandleRec /\ Safe(hnd[h])
    BY DEF HandleInv, TypeOK
  <1>2. OnStack(h) => hnd[h].mem = "live"
    BY DEF HandleInv, FramesPin, OnStack
  <1>3. hnd[h].reqs > 0 => hnd[h].reqs # 0
    BY <1>1 DEF HandleRec
  <1>4. hnd[h].defers > 0 => hnd[h].defers # 0
    BY <1>1 DEF HandleRec
  <1>. QED  BY <1>1, <1>2, <1>3, <1>4
            DEF Safe, Registered, Quiet, KnownToUv

(* Types, records and progress, whatever happens to the stack.             *)
LEMMA RecordStep ==
  ASSUME HandleInv, NEW h \in Handles, NEW s, Good(hnd[h], s), Set(h, s)
  PROVE  /\ hnd' \in [Handles -> HandleRec]
         /\ \A g \in Handles : Safe(hnd'[g]) /\ Good(hnd[g], hnd'[g])
         /\ AllAdvance
  <1>1. hnd \in [Handles -> HandleRec] /\ s \in HandleRec
    BY DEF HandleInv, TypeOK, Good
  <1>2. hnd' \in [Handles -> HandleRec]
    BY <1>1 DEF Set
  <1>3. ASSUME NEW g \in Handles
        PROVE  Good(hnd[g], hnd'[g])
    <2>1. CASE g = h
      BY <1>1, <2>1 DEF Set
    <2>2. CASE g # h
      <3>1. hnd'[g] = hnd[g]
        BY <1>1, <2>2 DEF Set
      <3>2. Safe(hnd[g]) /\ hnd[g] \in HandleRec
        BY <1>1 DEF HandleInv
      <3>. QED  BY <3>1, <3>2, SafeStays
    <2>. QED  BY <2>1, <2>2
  <1>. QED  BY <1>2, <1>3 DEF Good, AllAdvance

(* A step that changes records and leaves the callback stack alone.        *)
LEMMA QuietStep ==
  ASSUME HandleInv, NEW h \in Handles, NEW s, Good(hnd[h], s), Set(h, s),
         UNCHANGED stack
  PROVE  Kept
  <1>1. /\ hnd' \in [Handles -> HandleRec]
        /\ \A g \in Handles : Safe(hnd'[g]) /\ Good(hnd[g], hnd'[g])
        /\ AllAdvance
    BY RecordStep
  <1>2. stack' \in Seq(Frames)
    BY DEF HandleInv, TypeOK
  <1>3. FramesPin'
    BY <1>1, FrameHandles DEF HandleInv, FramesPin, Good
  <1>4. OneCloseFrame'
    BY DEF HandleInv, OneCloseFrame
  <1>. QED  BY <1>1, <1>2, <1>3, <1>4 DEF Kept, HandleInv, TypeOK

(* A callback other than the close callback is entered.                    *)
LEMMA CallStep ==
  ASSUME HandleInv, NEW h \in Handles, NEW s, Good(hnd[h], s), Set(h, s),
         NEW w \in {"event", "oneshot", "defer"}, Call(h, w),
         hnd[h].mem = "live", w = "oneshot" => hnd[h].kind = "signal"
  PROVE  Kept
  <1>1. /\ hnd' \in [Handles -> HandleRec]
        /\ \A g \in Handles : Safe(hnd'[g]) /\ Good(hnd[g], hnd'[g])
        /\ AllAdvance
    BY RecordStep
  <1>. DEFINE f == [h |-> h, what |-> w]
  <1>2. f \in Frames /\ f.h = h /\ f.what = w
    BY DEF Frames
  <1>. HIDE DEF f
  <1>3. stack \in Seq(Frames) /\ stack' = Append(stack, f)
    BY DEF HandleInv, TypeOK, Call, f
  <1>4. /\ stack' \in Seq(Frames)
        /\ Len(stack') = Len(stack) + 1
        /\ stack'[Len(stack) + 1] = f
        /\ \A i \in 1..Len(stack) : stack'[i] = stack[i] /\ stack[i] \in Frames
    BY <1>2, <1>3
  <1>5. FramesPin'
    <2>. SUFFICES ASSUME NEW i \in 1..Len(stack')
         PROVE  /\ hnd'[stack'[i].h].mem = "live"
                /\ stack'[i].what = "close" =>
                     ~hnd'[stack'[i].h].open /\ hnd'[stack'[i].h].set
                /\ stack'[i].what = "oneshot" => hnd'[stack'[i].h].kind = "signal"
      BY DEF FramesPin
    <2>1. CASE i \in 1..Len(stack)
      <3>1. stack'[i] = stack[i] /\ stack[i].h \in Handles
        BY <1>4, <2>1 DEF Frames
      <3>. QED  BY <1>1, <2>1, <3>1 DEF HandleInv, FramesPin, Good
    <2>2. CASE i = Len(stack) + 1
      BY <1>1, <1>2, <1>4, <2>2 DEF Good
    <2>. QED  BY <1>3, <1>4, <2>1, <2>2
  <1>6. OneCloseFrame'
    <2>1. \A i \in 1..Len(stack') :
            stack'[i].what = "close" => i \in 1..Len(stack) /\ stack'[i] = stack[i]
      BY <1>2, <1>3, <1>4
    <2>. QED  BY <2>1 DEF HandleInv, OneCloseFrame
  <1>. QED  BY <1>1, <1>4, <1>5, <1>6 DEF Kept, HandleInv, TypeOK

(* A callback that changes no record.                                      *)
LEMMA PureCallStep ==
  ASSUME HandleInv, NEW h \in Handles, UNCHANGED hnd,
         NEW w \in {"event", "oneshot", "defer"}, Call(h, w),
         hnd[h].mem = "live", w = "oneshot" => hnd[h].kind = "signal"
  PROVE  Kept
  <1>1. Set(h, hnd[h])
    BY DEF Set, HandleInv, TypeOK
  <1>2. Good(hnd[h], hnd[h])
    BY HandleFacts, SafeStays
  <1>. QED  BY <1>1, <1>2, CallStep

(***************************************************************************)
(* Operations common to all kinds.                                         *)
(***************************************************************************)

(* uv.timer(), uv.tcp() and so on keep the invariant.                      *)
LEMMA CreateKept ==
  ASSUME HandleInv, NEW h \in Handles, NEW k \in AllKinds,
         lluv_handle_create(h, k)
  PROVE  Kept
  <1>1. hnd[h] \in HandleRec /\ Safe(hnd[h]) /\ hnd[h].mem = "none"
    BY HandleFacts DEF lluv_handle_create
  <1>2. PICK s : Set(h, s) /\ Good(hnd[h], s)
    BY <1>1, CreatedGood DEF lluv_handle_create
  <1>. QED  BY <1>2, QuietStep DEF lluv_handle_create

(* close, lock, unlock and dropped references keep the invariant.          *)
LEMMA CommonCallsKept ==
  ASSUME HandleInv, NEW h \in Handles, CommonCalls(h)
  PROVE  Kept
  <1>. USE HandleFacts
  <1>1. CASE lluv_handle_close(h)
    BY <1>1, CloseGood, QuietStep DEF lluv_handle_close
  <1>2. CASE lluv_handle_lock_(h)
    BY <1>2, LockGood, QuietStep DEF lluv_handle_lock_, Usable
  <1>3. CASE lluv_handle_unlock_(h)
    BY <1>3, UnlockGood, QuietStep DEF lluv_handle_unlock_, Usable
  <1>4. CASE TakeReference(h)
    BY <1>4, ReferenceGood, QuietStep DEF TakeReference
  <1>5. CASE DropReference(h)
    BY <1>5, ReferenceGood, QuietStep DEF DropReference
  <1>. QED  BY <1>1, <1>2, <1>3, <1>4, <1>5 DEF CommonCalls

(* A deferred callback that begins keeps the invariant.                    *)
LEMMA RunDeferredKept ==
  ASSUME HandleInv, NEW h \in Handles, RunDeferred(h)
  PROVE  Kept
  BY HandleFacts, DeferGood, CallStep DEF RunDeferred

(***************************************************************************)
(* The close callback.  A frame is pushed only if a callback was given,    *)
(* and only for a handle that was open, so that it has no close frame yet. *)
(***************************************************************************)

(* The record after the close callback, with or without a Lua callback.    *)
LEMMA AfterCloseCbGood ==
  ASSUME NEW r \in HandleRec, Safe(r), r.uv = "closing", r.reqs = 0
  PROVE  LET s == AfterCloseCb(r)
         IN  Good(r, s) /\ ~s.open /\ s.mem = "live" /\ s.set = ("CLOSE" \in r.cb)
  <1>. DEFINE s == AfterCloseCb(r)
  <1>1. r.open /\ r.mem = "live" /\ r.active = {} /\ r.counter = 0
    BY DEF Safe, Anchored, Registered, Quiet, KnownToUv
  <1>2. /\ s.mem = r.mem /\ s.kind = r.kind /\ s.open = FALSE /\ s.lock = {}
        /\ s.counter = 0 /\ s.self = FALSE /\ s.cb = {} /\ s.uv = "closed"
        /\ s.active = {} /\ s.reqs = 0 /\ s.user = r.user
        /\ s.defers = r.defers /\ s.gc = r.gc
        /\ s.set = ("CLOSE" \in r.cb)
    BY <1>1 DEF AfterCloseCb, Cleanup, HandleRec
  <1>3. s \in HandleRec
    <2>1. s = [Cleanup(r) EXCEPT !.uv = "closed", !.set = ("CLOSE" \in r.cb)]
      BY <1>1 DEF AfterCloseCb
    <2>2. Cleanup(r) \in HandleRec
      BY DEF Cleanup, HandleRec
    <2>3. ("CLOSE" \in r.cb) \in BOOLEAN
      OBVIOUS
    <2>. HIDE DEF s
    <2>. QED  BY <2>1, <2>2, <2>3 DEF HandleRec
  <1>. HIDE DEF s
  <1>4. Safe(s)
    BY <1>1, <1>2
    DEF Safe, Anchored, Registered, Quiet, Watched, KnownToUv, HandleRec
  <1>5. Good(r, s)
    BY <1>1, <1>2, <1>3, <1>4 DEF Good, Advances
  <1>. QED  BY <1>1, <1>2, <1>5 DEF s

(* lluv_on_handle_close keeps the invariant.                               *)
LEMMA OnCloseKept ==
  ASSUME HandleInv, NEW h \in Handles, lluv_on_handle_close(h)
  PROVE  Kept
  <1>. DEFINE s == AfterCloseCb(hnd[h])
  <1>1. hnd[h] \in HandleRec /\ Safe(hnd[h]) /\ hnd[h].open
    BY HandleFacts DEF lluv_on_handle_close
  <1>2. /\ Good(hnd[h], s) /\ ~s.open /\ s.mem = "live"
        /\ s.set = ("CLOSE" \in hnd[h].cb)
    BY <1>1, AfterCloseCbGood DEF lluv_on_handle_close
  <1>3. Set(h, s)
    BY DEF lluv_on_handle_close
  <1>. HIDE DEF s
  <1>4. CASE "CLOSE" \notin hnd[h].cb
    <2>1. UNCHANGED stack
      BY <1>4 DEF lluv_on_handle_close
    <2>. QED  BY <1>2, <1>3, <2>1, QuietStep
  <1>5. CASE "CLOSE" \in hnd[h].cb
    <2>. DEFINE f == [h |-> h, what |-> "close"]
    <2>1. f \in Frames /\ f.h = h /\ f.what = "close"
      BY DEF Frames
    <2>. HIDE DEF f
    <2>2. stack \in Seq(Frames) /\ stack' = Append(stack, f)
      BY <1>1, <1>5 DEF HandleInv, TypeOK, lluv_on_handle_close, Call, f
    <2>3. /\ stack' \in Seq(Frames)
          /\ Len(stack') = Len(stack) + 1
          /\ stack'[Len(stack) + 1] = f
          /\ \A i \in 1..Len(stack) : stack'[i] = stack[i] /\ stack[i] \in Frames
      BY <2>1, <2>2
    <2>4. /\ hnd' \in [Handles -> HandleRec]
          /\ \A g \in Handles : Safe(hnd'[g]) /\ Good(hnd[g], hnd'[g])
          /\ AllAdvance
          /\ hnd'[h] = s
      BY <1>2, <1>3, RecordStep DEF Set, HandleInv, TypeOK
    <2>5. FramesPin'
      <3>. SUFFICES ASSUME NEW i \in 1..Len(stack')
           PROVE  /\ hnd'[stack'[i].h].mem = "live"
                  /\ stack'[i].what = "close" =>
                       ~hnd'[stack'[i].h].open /\ hnd'[stack'[i].h].set
                  /\ stack'[i].what = "oneshot" =>
                       hnd'[stack'[i].h].kind = "signal"
        BY DEF FramesPin
      <3>1. CASE i \in 1..Len(stack)
        <4>1. stack'[i] = stack[i] /\ stack[i].h \in Handles
          BY <2>3, <3>1 DEF Frames
        <4>. QED  BY <2>4, <3>1, <4>1 DEF HandleInv, FramesPin, Good
      <3>2. CASE i = Len(stack) + 1
        BY <1>2, <1>5, <2>1, <2>3, <2>4, <3>2
      <3>. QED  BY <2>2, <2>3, <3>1, <3>2
    <2>6. OneCloseFrame'
      <3>1. \A i \in 1..Len(stack) :
              stack[i].what = "close" => stack[i].h # h
        BY <1>1 DEF HandleInv, FramesPin
      <3>2. \A i \in 1..Len(stack') :
              \/ i \in 1..Len(stack) /\ stack'[i] = stack[i]
              \/ i = Len(stack) + 1 /\ stack'[i].h = h
        BY <2>1, <2>2, <2>3
      <3>. QED  BY <3>1, <3>2 DEF HandleInv, OneCloseFrame
    <2>. QED  BY <2>3, <2>4, <2>5, <2>6 DEF Kept, HandleInv, TypeOK
  <1>. QED  BY <1>4, <1>5

(***************************************************************************)
(* A callback returns.  Forgetting a closed handle is no good change, but  *)
(* no other frame is a close frame of the same handle.                     *)
(***************************************************************************)

(* What a returning callback leaves on the stack is still safe.            *)
LEMMA ReturnedSafe ==
  ASSUME NEW r \in HandleRec, Safe(r), r.mem = "live",
         NEW w \in {"close", "event", "oneshot", "defer"},
         w = "close" => ~r.open, w = "oneshot" => r.kind = "signal"
  PROVE  LET s == Returned(r, w)
         IN  /\ s \in HandleRec /\ Safe(s) /\ Advances(r, s)
             /\ s.mem = "live" /\ s.kind = r.kind /\ s.open = r.open
             /\ w # "close" => s.set = r.set
  <1>1. CASE w = "close"
    BY <1>1
    DEF Returned, Advances, HandleRec, Safe, Anchored, Registered, Quiet,
        Watched, KnownToUv, UnlocksOnStop
  <1>2. CASE w = "oneshot"
    BY <1>2
    DEF Returned, Advances, HandleRec, Safe, Anchored, Registered, Quiet,
        Watched, KnownToUv, UnlocksOnStop
  <1>3. CASE w \in {"event", "defer"}
    <2>1. Returned(r, w) = r
      BY <1>3 DEF Returned
    <2>. QED  BY <1>3, <2>1, SafeStays DEF Good
  <1>. QED  BY <1>1, <1>2, <1>3

(* A Lua callback that returns keeps the invariant.                        *)
LEMMA CallbackReturnsKept ==
  ASSUME HandleInv, CallbackReturns
  PROVE  Kept
  <1>. DEFINE h == Top.h
              w == Top.what
              s == Returned(hnd[h], w)
              n == Len(stack)
  <1>1. stack \in Seq(Frames) /\ n \in Nat \ {0} /\ n \in 1..n
    BY DEF HandleInv, TypeOK, CallbackReturns
  <1>2. /\ stack' \in Seq(Frames) /\ Len(stack') = n - 1
        /\ \A i \in 1..Len(stack') : stack'[i] = stack[i]
    <2>1. stack' = SubSeq(stack, 1, n - 1)
      BY DEF CallbackReturns
    <2>2. 1 \in Int /\ n - 1 \in Int /\ \A i \in 1..(n - 1) : stack[i] \in Frames
      BY <1>1
    <2>3. /\ SubSeq(stack, 1, n - 1) \in Seq(Frames)
          /\ Len(SubSeq(stack, 1, n - 1)) =
               IF 1 <= n - 1 THEN (n - 1) - 1 + 1 ELSE 0
          /\ \A i \in 1..((n - 1) - 1 + 1) :
               SubSeq(stack, 1, n - 1)[i] = stack[1 + i - 1]
      BY <2>2, SubSeqProperties
    <2>. HIDE DEF n
    <2>4. Len(stack') = n - 1
      BY <1>1, <2>1, <2>3
    <2>5. ASSUME NEW i \in 1..(n - 1)
          PROVE  stack'[i] = stack[i]
      <3>1. i \in 1..((n - 1) - 1 + 1) /\ 1 + i - 1 = i
        BY <1>1
      <3>. QED  BY <2>1, <2>3, <3>1
    <2>. QED  BY <2>1, <2>3, <2>4, <2>5
  <1>3. h \in Handles /\ w \in {"close", "event", "oneshot", "defer"}
    BY <1>1, FrameHandles DEF Top, Frames
  <1>4. /\ hnd[h] \in HandleRec /\ Safe(hnd[h]) /\ hnd[h].mem = "live"
        /\ w = "close" => ~hnd[h].open
        /\ w = "oneshot" => hnd[h].kind = "signal"
    BY <1>1, <1>3, HandleFacts DEF HandleInv, FramesPin, Top
  <1>5. /\ s \in HandleRec /\ Safe(s) /\ Advances(hnd[h], s)
        /\ s.mem = "live" /\ s.kind = hnd[h].kind /\ s.open = hnd[h].open
        /\ w # "close" => s.set = hnd[h].set
    BY <1>3, <1>4, ReturnedSafe
  <1>6. hnd \in [Handles -> HandleRec] /\ hnd' = [hnd EXCEPT ![h] = s]
    BY DEF HandleInv, TypeOK, CallbackReturns, Set
  <1>7. \A i \in 1..Len(stack') :
          stack[i].what = "close" /\ stack[i].h = h => w # "close"
    BY <1>1, <1>2 DEF HandleInv, OneCloseFrame, Top
  <1>8. \A i \in 1..Len(stack') : i \in 1..n /\ stack[i].h \in Handles
    BY <1>1, <1>2, FrameHandles
  <1>. HIDE DEF s, w, h, n
  <1>9. hnd' \in [Handles -> HandleRec] /\ AllAdvance
        /\ \A g \in Handles : Safe(hnd'[g])
    <2>1. \A g \in Handles : Safe(hnd[g]) /\ Advances(hnd[g], hnd[g])
      BY HandleFacts, SafeStays DEF Good
    <2>. QED  BY <1>3, <1>5, <1>6, <2>1 DEF AllAdvance
  <1>10. FramesPin'
    <2>. SUFFICES ASSUME NEW i \in 1..Len(stack')
         PROVE  /\ hnd'[stack'[i].h].mem = "live"
                /\ stack'[i].what = "close" =>
                     ~hnd'[stack'[i].h].open /\ hnd'[stack'[i].h].set
                /\ stack'[i].what = "oneshot" => hnd'[stack'[i].h].kind = "signal"
      BY DEF FramesPin
    <2>1. /\ hnd[stack[i].h].mem = "live"
          /\ stack[i].what = "close" => ~hnd[stack[i].h].open /\ hnd[stack[i].h].set
          /\ stack[i].what = "oneshot" => hnd[stack[i].h].kind = "signal"
      BY <1>8 DEF HandleInv, FramesPin, n
    <2>2. CASE stack[i].h = h
      BY <1>2, <1>3, <1>5, <1>6, <1>7, <2>1, <2>2
    <2>3. CASE stack[i].h # h
      BY <1>2, <1>6, <1>8, <2>1, <2>3
    <2>. QED  BY <2>2, <2>3
  <1>11. OneCloseFrame'
    BY <1>2, <1>8 DEF HandleInv, OneCloseFrame, n
  <1>. QED  BY <1>2, <1>9, <1>10, <1>11 DEF Kept, HandleInv, TypeOK

(***************************************************************************)
(* The walk closes every handle it may.                                    *)
(***************************************************************************)

(* uv_walk, with the closing of all handles, keeps the invariant.          *)
LEMMA WalkKept ==
  ASSUME HandleInv, lluv_loop_on_walk_close
  PROVE  Kept
  <1>1. ASSUME NEW h \in Handles
        PROVE  Good(hnd[h], hnd'[h])
    <2>1. hnd[h] \in HandleRec /\ Safe(hnd[h])
      BY HandleFacts
    <2>2. hnd'[h] = IF MayClose(hnd[h]) THEN Close(hnd[h], FALSE) ELSE hnd[h]
      BY DEF lluv_loop_on_walk_close
    <2>. QED  BY <2>1, <2>2, CloseGood, SafeStays
  <1>2. hnd' \in [Handles -> HandleRec]
    <2>1. hnd' = [h \in Handles |-> IF MayClose(hnd[h])
                                    THEN Close(hnd[h], FALSE) ELSE hnd[h]]
      BY DEF lluv_loop_on_walk_close
    <2>2. \A h \in Handles : hnd'[h] \in HandleRec
      BY <1>1 DEF Good
    <2>. QED  BY <2>1, <2>2
  <1>3. UNCHANGED stack
    BY DEF lluv_loop_on_walk_close
  <1>4. FramesPin'
    BY <1>1, <1>3, FrameHandles DEF HandleInv, FramesPin, Good
  <1>5. OneCloseFrame'
    BY <1>3 DEF HandleInv, OneCloseFrame
  <1>6. AllAdvance /\ \A h \in Handles : Safe(hnd'[h])
    BY <1>1 DEF AllAdvance, Good
  <1>. QED  BY <1>2, <1>3, <1>4, <1>5, <1>6 DEF Kept, HandleInv, TypeOK

(***************************************************************************)
(* The collector.  GcFrees is where the memory of a handle goes: the       *)
(* finalizer has run, so the handle is not open for libuv, and it is not   *)
(* closing either, for then the CLOSE lock would anchor it.                *)
(***************************************************************************)

(* The memory that the collector frees is in nobody's hands.               *)
LEMMA GcFreesKept ==
  ASSUME HandleInv, NEW h \in Handles, GcFrees(h)
  PROVE  Kept
  <1>. DEFINE s == [hnd[h] EXCEPT !.mem = "freed", !.set = FALSE, !.weak = FALSE]
  <1>1. /\ hnd[h] \in HandleRec /\ Safe(hnd[h])
        /\ hnd[h].gc = "done" /\ hnd[h].mem = "live"
        /\ ~hnd[h].user /\ ~hnd[h].self /\ ~(hnd[h].defers > 0) /\ ~OnStack(h)
    BY HandleFacts DEF GcFrees, Reachable
  <1>2. hnd[h].lock = {} /\ hnd[h].uv \notin {"open", "closing"} /\ ~hnd[h].open
    BY <1>1 DEF Safe, Anchored, Registered, KnownToUv
  <1>3. hnd[h].defers = 0
    BY <1>1 DEF HandleRec
  <1>4. /\ s \in HandleRec /\ s.mem = "freed" /\ s.kind = hnd[h].kind
        /\ s.open = hnd[h].open /\ s.lock = hnd[h].lock
        /\ s.counter = hnd[h].counter /\ s.self = hnd[h].self
        /\ s.cb = hnd[h].cb /\ s.uv = hnd[h].uv /\ s.active = hnd[h].active
        /\ s.reqs = hnd[h].reqs /\ s.user = hnd[h].user
        /\ s.defers = hnd[h].defers /\ s.gc = hnd[h].gc
    BY <1>1 DEF HandleRec
  <1>5. hnd' = [hnd EXCEPT ![h] = s] /\ stack' = stack
    BY DEF GcFrees, Set
  <1>. HIDE DEF s
  <1>6. Safe(s) /\ Advances(hnd[h], s)
    BY <1>1, <1>2, <1>3, <1>4
    DEF Safe, Anchored, Registered, Quiet, Watched, KnownToUv, Advances
  <1>7. hnd \in [Handles -> HandleRec] /\ stack \in Seq(Frames)
    BY DEF HandleInv, TypeOK
  <1>8. hnd' \in [Handles -> HandleRec] /\ AllAdvance
        /\ \A g \in Handles : Safe(hnd'[g])
    <2>1. \A g \in Handles : Safe(hnd[g]) /\ Advances(hnd[g], hnd[g])
      BY HandleFacts, SafeStays DEF Good
    <2>. QED  BY <1>4, <1>5, <1>6, <1>7, <2>1 DEF AllAdvance
  <1>9. FramesPin'
    <2>1. \A i \in 1..Len(stack) : stack[i].h \in Handles /\ stack[i].h # h
      BY <1>1, FrameHandles DEF OnStack
    <2>2. \A i \in 1..Len(stack) : hnd'[stack[i].h] = hnd[stack[i].h]
      BY <1>5, <1>7, <2>1
    <2>. QED  BY <1>5, <2>2 DEF HandleInv, FramesPin
  <1>10. OneCloseFrame'
    BY <1>5 DEF HandleInv, OneCloseFrame
  <1>. QED  BY <1>5, <1>7, <1>8, <1>9, <1>10 DEF Kept, HandleInv, TypeOK

(* All steps of the collector keep the invariant.                          *)
LEMMA CollectorKept ==
  ASSUME HandleInv, NEW h \in Handles, Collector(h)
  PROVE  Kept
  <1>. USE HandleFacts
  <1>1. CASE GcFindsDead(h)
    BY <1>1, GcPendingGood, QuietStep DEF GcFindsDead
  <1>2. CASE GcFinalizes(h)
    BY <1>2, GcDoneGood, QuietStep DEF GcFinalizes
  <1>3. CASE GcFrees(h)
    BY <1>3, GcFreesKept
  <1>. QED  BY <1>1, <1>2, <1>3 DEF Collector

(***************************************************************************)
(* Watchers.                                                               *)
(***************************************************************************)

(* Starting a watcher keeps the invariant.                                 *)
LEMMA StartWatcherKept ==
  ASSUME HandleInv, NEW h \in Handles, NEW k \in WatcherKinds,
         StartWatcher(h, k)
  PROVE  Kept
  <1>. DEFINE r == hnd[h]
  <1>1. r \in HandleRec /\ Safe(r) /\ r.open /\ r.kind # "process"
    BY HandleFacts DEF StartWatcher, Usable, WatcherKinds
  <1>2. /\ Watching(WithStartCb(r)) = [r EXCEPT !.cb = @ \cup {"START"},
                                                !.active = @ \cup {"START"}]
        /\ WithStartCb(r) = [r EXCEPT !.cb = @ \cup {"START"}]
    BY <1>1 DEF Watching, WithStartCb, HandleRec
  <1>3. /\ r.uv = "open" => Good(r, Lock(Watching(WithStartCb(r)), "START"))
        /\ Good(r, Defer(WithStartCb(r)))
    BY <1>1, <1>2, StartGood
  <1>. QED  BY <1>3, QuietStep DEF StartWatcher

(* Stopping a watcher keeps the invariant.                                 *)
LEMMA StopWatcherKept ==
  ASSUME HandleInv, NEW h \in Handles, NEW k \in WatcherKinds, StopWatcher(h, k)
  PROVE  Kept
  BY HandleFacts, StopGood, QuietStep DEF StopWatcher, Usable, WatcherKinds

(* The callback of a watcher keeps the invariant.                          *)
LEMMA WatcherEventKept ==
  ASSUME HandleInv, NEW h \in Handles, NEW k, WatcherEvent(h, k)
  PROVE  Kept
  BY HandleFacts, PureCallStep DEF WatcherEvent

(* The timer's own calls and callback keep the invariant.                  *)
LEMMA TimerKept ==
  ASSUME HandleInv, NEW h \in Handles,
         lluv_timer_stop(h) \/ lluv_timer_again(h) \/ lluv_on_timer_start(h)
  PROVE  Kept
  <1>. USE HandleFacts
  <1>1. CASE lluv_timer_stop(h)
    BY <1>1, TimerGood, QuietStep DEF lluv_timer_stop, Usable
  <1>2. CASE lluv_timer_again(h)
    BY <1>2, TimerGood, QuietStep DEF lluv_timer_again, Usable
  <1>3. CASE lluv_on_timer_start(h)
    <2>1. Good(hnd[h], hnd[h]) /\ Good(hnd[h], Unlock(NotWatching(hnd[h]), "START"))
      BY <1>3, StopGood, SafeStays DEF lluv_on_timer_start
    <2>2. PICK s : Set(h, s) /\ Good(hnd[h], s)
      BY <1>3, <2>1 DEF lluv_on_timer_start
    <2>. QED  BY <1>3, <2>2, CallStep DEF lluv_on_timer_start
  <1>. QED  BY <1>1, <1>2, <1>3

(* What libuv stops by itself keeps the invariant.                         *)
LEMMA PollSignalKept ==
  ASSUME HandleInv, NEW h \in Handles,
         lluv_on_poll_start(h) \/ lluv_on_signal_start(h)
  PROVE  Kept
  <1>. USE HandleFacts
  <1>1. CASE lluv_on_poll_start(h)
    <2>1. Good(hnd[h], hnd[h]) /\ Good(hnd[h], NotWatching(hnd[h]))
      BY <1>1, UnwatchedGood, SafeStays DEF lluv_on_poll_start
    <2>2. PICK s : Set(h, s) /\ Good(hnd[h], s)
      BY <1>1, <2>1 DEF lluv_on_poll_start
    <2>. QED  BY <1>1, <2>2, CallStep DEF lluv_on_poll_start
  <1>2. CASE lluv_on_signal_start(h)
    BY <1>2, PureCallStep DEF lluv_on_signal_start
  <1>. QED  BY <1>1, <1>2

(* All steps of watchers keep the invariant.                               *)
LEMMA WatcherCallsKept ==
  ASSUME HandleInv, NEW h \in Handles, WatcherCalls(h)
  PROVE  Kept
  <1>1. ASSUME NEW k \in WatcherKinds, StartWatcher(h, k) \/ StopWatcher(h, k)
        PROVE  Kept
    BY <1>1, StartWatcherKept, StopWatcherKept
  <1>. QED
    BY <1>1, TimerKept
    DEF WatcherCalls, WatcherKinds, lluv_timer_start,
        lluv_idle_start, lluv_idle_stop, lluv_prepare_start, lluv_prepare_stop,
        lluv_check_start, lluv_check_stop, lluv_fs_event_start,
        lluv_fs_event_stop, lluv_fs_poll_start, lluv_fs_poll_stop,
        lluv_poll_start, lluv_poll_stop, lluv_signal_start, lluv_signal_stop

(* All callbacks of watchers keep the invariant.                           *)
LEMMA WatcherEventsKept ==
  ASSUME HandleInv, NEW h \in Handles, WatcherEvents(h)
  PROVE  Kept
  BY WatcherEventKept, TimerKept, PollSignalKept
  DEF WatcherEvents, lluv_on_idle_start, lluv_on_prepare_start,
      lluv_on_check_start, lluv_on_fs_event_start, lluv_on_fs_poll_start

(***************************************************************************)
(* Streams, UDP sockets and processes.                                     *)
(***************************************************************************)

(* Submitting a request, accepted or refused, keeps the invariant.         *)
LEMMA SubmitReqKept ==
  ASSUME HandleInv, NEW h \in Handles, SubmitReq(h)
  PROVE  Kept
  BY HandleFacts, ReqGood, QuietStep DEF SubmitReq, Usable

(* pipe:connect keeps the invariant.                                       *)
LEMMA PipeConnectKept ==
  ASSUME HandleInv, NEW h \in Handles, lluv_pipe_connect(h)
  PROVE  Kept
  BY HandleFacts, ReqGood, QuietStep DEF lluv_pipe_connect, Usable

(* A call that answers by a deferred callback keeps the invariant.         *)
LEMMA AnswerLaterKept ==
  ASSUME HandleInv, NEW h \in Handles, NEW k, AnswerLater(h, k)
  PROVE  Kept
  BY HandleFacts, DeferGood, QuietStep DEF AnswerLater, Usable

(* start_read, start_recv and listen keep the invariant.                   *)
LEMMA StartSlotKept ==
  ASSUME HandleInv, NEW h \in Handles, NEW s \in {"START", "CONNECTION"},
         hnd[h].kind # "process", StartSlot(h, s)
  PROVE  Kept
  <1>. DEFINE r == hnd[h]
              x == [r EXCEPT !.cb = @ \cup {s}]
  <1>1. r \in HandleRec /\ Safe(r) /\ r.open
    BY HandleFacts DEF StartSlot, Usable
  <1>2. [x EXCEPT !.active = @ \cup {s}]
          = [r EXCEPT !.cb = @ \cup {s}, !.active = @ \cup {s}]
    BY <1>1 DEF HandleRec
  <1>3. /\ r.uv = "open" => Good(r, Lock([x EXCEPT !.active = @ \cup {s}], s))
        /\ Good(r, Defer(x))
    BY <1>1, <1>2, StartGood
  <1>. QED  BY <1>3, QuietStep DEF StartSlot

(* stop_read and stop_recv keep the invariant.                             *)
LEMMA StopReadKept ==
  ASSUME HandleInv, NEW h \in Handles, hnd[h].kind # "process", StopRead(h)
  PROVE  Kept
  BY HandleFacts, ReadStoppedGood, QuietStep DEF StopRead, Usable

(* The read callback, with data or an error, keeps the invariant.          *)
LEMMA StreamReadKept ==
  ASSUME HandleInv, NEW h \in Handles, lluv_on_stream_read_cb(h)
  PROVE  Kept
  <1>. USE HandleFacts DEF StreamKinds
  <1>1. CASE UNCHANGED hnd
    BY <1>1, PureCallStep DEF lluv_on_stream_read_cb
  <1>2. CASE Set(h, ReadStopped(hnd[h]))
    BY <1>2, ReadStoppedGood, CallStep DEF lluv_on_stream_read_cb
  <1>. QED  BY <1>1, <1>2 DEF lluv_on_stream_read_cb

(* accept, with the second handle it makes, keeps the invariant.           *)
LEMMA AcceptKept ==
  ASSUME HandleInv, NEW h \in Handles, NEW d \in Handles,
         lluv_stream_accept(h, d)
  PROVE  Kept
  <1>1. hnd[h].kind \in AllKinds
    BY DEF lluv_stream_accept, AllKinds, StreamKinds
  <1>2. hnd[d] \in HandleRec /\ Safe(hnd[d]) /\ hnd[d].mem = "none"
    BY HandleFacts DEF lluv_stream_accept
  <1>3. PICK s : Set(d, s) /\ Good(hnd[d], s)
    BY <1>1, <1>2, CreatedGood DEF lluv_stream_accept
  <1>. QED  BY <1>3, QuietStep DEF lluv_stream_accept

(* Spawning a process keeps the invariant.                                 *)
LEMMA SpawnKept ==
  ASSUME HandleInv, NEW h \in Handles, lluv_process_spawn(h)
  PROVE  Kept
  <1>1. hnd[h] \in HandleRec /\ Safe(hnd[h]) /\ hnd[h].mem = "none"
    BY HandleFacts DEF lluv_process_spawn
  <1>2. PICK s : Set(h, s) /\ Good(hnd[h], s)
    BY <1>1, SpawnedGood DEF lluv_process_spawn
  <1>. QED  BY <1>2, QuietStep DEF lluv_process_spawn

(* All calls on streams keep the invariant.                                *)
LEMMA StreamCallsKept ==
  ASSUME HandleInv, NEW h \in Handles, StreamCalls(h)
  PROVE  Kept
  <1>. USE DEF StreamKinds
  <1>1. CASE \/ lluv_stream_shutdown(h) \/ lluv_stream_write(h)
             \/ lluv_stream_write2(h)   \/ lluv_tcp_connect(h)
             \/ lluv_udp_send(h)
    BY <1>1, SubmitReqKept
    DEF lluv_stream_shutdown, lluv_stream_write, lluv_stream_write2,
        lluv_tcp_connect, lluv_udp_send
  <1>2. CASE lluv_pipe_connect(h)
    BY <1>2, PipeConnectKept
  <1>3. CASE \/ lluv_tcp_bind(h) \/ lluv_pipe_bind(h)
             \/ lluv_udp_bind(h) \/ lluv_udp_connect(h)
    BY <1>3, AnswerLaterKept
    DEF lluv_tcp_bind, lluv_pipe_bind, lluv_udp_bind, lluv_udp_connect
  <1>4. CASE \/ lluv_stream_listen(h) \/ lluv_stream_start_read(h)
             \/ lluv_udp_start_recv(h)
    BY <1>4, StartSlotKept
    DEF lluv_stream_listen, lluv_stream_start_read, lluv_udp_start_recv
  <1>5. CASE lluv_stream_stop_read(h) \/ lluv_udp_stop_recv(h)
    BY <1>5, StopReadKept DEF lluv_stream_stop_read, lluv_udp_stop_recv
  <1>6. CASE \E d \in Handles : lluv_stream_accept(h, d)
    BY <1>6, AcceptKept
  <1>. QED  BY <1>1, <1>2, <1>3, <1>4, <1>5, <1>6 DEF StreamCalls

(* All callbacks of streams keep the invariant.                            *)
LEMMA StreamEventsKept ==
  ASSUME HandleInv, NEW h \in Handles, StreamEvents(h)
  PROVE  Kept
  <1>. USE HandleFacts
  <1>1. CASE lluv_on_stream_req_cb(h)
    <2>1. Good(hnd[h], ReqFree(hnd[h])) /\ hnd[h].mem = "live"
      BY <1>1, ReqGood DEF lluv_on_stream_req_cb
    <2>. QED  BY <1>1, <2>1, CallStep, QuietStep DEF lluv_on_stream_req_cb
  <1>2. CASE lluv_on_stream_read_cb(h)
    BY <1>2, StreamReadKept
  <1>3. CASE lluv_on_udp_recv_cb(h) \/ lluv_on_stream_connection_cb(h)
    BY <1>3, PureCallStep
    DEF lluv_on_udp_recv_cb, lluv_on_stream_connection_cb
  <1>4. CASE lluv_on_process_exit(h)
    <2>1. Good(hnd[h], Unlock([hnd[h] EXCEPT !.active = {}], "START"))
          /\ hnd[h].mem = "live"
      BY <1>4, ExitGood DEF lluv_on_process_exit
    <2>. QED  BY <1>4, <2>1, CallStep, QuietStep DEF lluv_on_process_exit
  <1>. QED  BY <1>1, <1>2, <1>3, <1>4 DEF StreamEvents

(***************************************************************************)
(* The theorems.                                                           *)
(***************************************************************************)

(* Every step keeps the invariant.                                         *)
LEMMA NextKept ==
  ASSUME HandleInv, Next
  PROVE  Kept
  <1>1. ASSUME NEW h \in Handles, Program(h)
        PROVE  Kept
    <2>1. CASE CreateWatcher(h) \/ CreateStream(h)
      BY <2>1, CreateKept, SpawnKept DEF CreateWatcher, CreateStream, AllKinds
    <2>. QED
      BY <1>1, <2>1, CommonCallsKept, WatcherCallsKept, StreamCallsKept
      DEF Program
  <1>2. ASSUME NEW h \in Handles, Libuv(h)
        PROVE  Kept
    BY <1>2, OnCloseKept, RunDeferredKept, WatcherEventsKept, StreamEventsKept
    DEF Libuv
  <1>. QED
    BY <1>1, <1>2, CollectorKept, WalkKept, CallbackReturnsKept DEF Next

(* HandleInv is an invariant of every program, for every schedule of libuv *)
(* and the collector.                                                      *)
THEOREM HandleInvariance == Spec => []HandleInv
  <1>1. Init => HandleInv
    <2>. SUFFICES ASSUME Init PROVE HandleInv
      OBVIOUS
    <2>1. Blank \in HandleRec /\ Safe(Blank)
      BY DEF Blank, HandleRec, Safe, Anchored, Registered, Quiet, Watched,
             KnownToUv, UnlocksOnStop
    <2>2. hnd \in [Handles -> HandleRec] /\ \A h \in Handles : Safe(hnd[h])
      BY <2>1 DEF Init
    <2>3. stack \in Seq(Frames) /\ Len(stack) = 0
      BY DEF Init
    <2>. QED  BY <2>2, <2>3 DEF HandleInv, TypeOK, FramesPin, OneCloseFrame
  <1>2. HandleInv /\ UNCHANGED vars => HandleInv'
    BY DEF HandleInv, TypeOK, FramesPin, OneCloseFrame, vars
  <1>3. HandleInv /\ [Next]_vars => HandleInv'
    BY <1>2, NextKept DEF Kept
  <1>. QED  BY <1>1, <1>3, PTL DEF Spec

(* The state keeps its types; in particular the request counter of         *)
(* lluv_handle_unlock never goes below zero.                               *)
THEOREM TypeCorrectness == Spec => []TypeOK
  <1>1. HandleInv => TypeOK
    BY DEF HandleInv
  <1>. QED  BY <1>1, HandleInvariance, PTL

(* libuv never holds a pointer to a freed handle (lluv_handle_close,       *)
(* lluv_on_handle_close, __gc).                                            *)
THEOREM NoDanglingHandle == Spec => []UvMemoryIsAlive
  <1>1. HandleInv => UvMemoryIsAlive
    BY DEF HandleInv, UvMemoryIsAlive, Safe, Registered
  <1>. QED  BY <1>1, HandleInvariance, PTL

(* The assert of lluv_handle_pushself holds in every callback and walk.    *)
THEOREM PushselfNeverFails == Spec => []PushselfFinds
  <1>1. HandleInv => PushselfFinds
    BY DEF HandleInv, PushselfFinds, Safe, Registered
  <1>. QED  BY <1>1, HandleInvariance, PTL

(* No callback runs on a freed handle.                                     *)
THEOREM FramesStayAlive == Spec => []FramesAreAlive
  <1>1. HandleInv => FramesAreAlive
    BY DEF HandleInv, FramesPin, FramesAreAlive
  <1>. QED  BY <1>1, HandleInvariance, PTL

(* The asserts of lluv_handle_unlock hold: the registry reference, the     *)
(* lock bits and the request counter agree.                                *)
THEOREM LocksAreDisciplined == Spec => []LockDiscipline
  <1>1. HandleInv => LockDiscipline
    BY DEF HandleInv, LockDiscipline, Safe, Anchored
  <1>. QED  BY <1>1, HandleInvariance, PTL

(* A handle with a planned callback is anchored (doc/lluv.ldoc:621).       *)
THEOREM PlannedCallbacksLock == Spec => []PlannedCallbackLocks
  <1>1. HandleInv => PlannedCallbackLocks
    <2>. SUFFICES ASSUME HandleInv, NEW h \in Handles, PlannedCallback(hnd[h])
         PROVE  hnd[h].self
      BY DEF PlannedCallbackLocks
    <2>1. Anchored(hnd[h])
      BY DEF HandleInv, Safe
    <2>2. hnd[h].lock # {}
      BY <2>1 DEF Anchored, PlannedCallback
    <2>. QED  BY <2>1, <2>2 DEF Anchored
  <1>. QED  BY <1>1, HandleInvariance, PTL

(* The asserts of the event callbacks hold: what libuv watches has a Lua   *)
(* callback.                                                               *)
THEOREM WatchedHaveCallbacks == Spec => []WatchedHasCallback
  <1>1. HandleInv => WatchedHasCallback
    BY DEF HandleInv, WatchedHasCallback, Safe, Watched
  <1>. QED  BY <1>1, HandleInvariance, PTL

(* Nothing of a closed handle is left behind, in lluv or in libuv.         *)
THEOREM ClosedHandlesAreQuiet == Spec => []ClosedIsQuiet
  <1>1. HandleInv => ClosedIsQuiet
    BY DEF HandleInv, ClosedIsQuiet, Safe, Anchored, Registered, Quiet
  <1>. QED  BY <1>1, HandleInvariance, PTL

(* The data of a handle is still there in its close callback.              *)
THEOREM DataInCloseCallback == Spec => []DataOutlivesCloseCb
  <1>1. HandleInv => DataOutlivesCloseCb
    BY DEF HandleInv, FramesPin, DataOutlivesCloseCb
  <1>. QED  BY <1>1, HandleInvariance, PTL

(* Where stop unlocks, the START lock is set exactly while libuv watches.  *)
THEOREM StartLockIsExact == Spec => []StartLockFollowsWatcher
  <1>1. HandleInv => StartLockFollowsWatcher
    BY DEF HandleInv, StartLockFollowsWatcher, Safe, Watched
  <1>. QED  BY <1>1, HandleInvariance, PTL

(* A handle is closed once and never comes back.                           *)
THEOREM LifeMovesForward == Spec => LifeIsOneWay
  <1>1. HandleInv /\ [Next]_vars =>
          [\A h \in Handles :
             /\ hnd[h].uv = "closed" => hnd'[h].uv = "closed" /\ ~hnd'[h].open
             /\ hnd[h].uv = "closing" => hnd'[h].uv \in {"closing", "closed"}
             /\ hnd[h].mem = "freed" => hnd'[h] = hnd[h]]_vars
    BY NextKept DEF Kept, AllAdvance, Advances
  <1>. QED  BY <1>1, HandleInvariance, PTL DEF Spec, LifeIsOneWay
=============================================================================
