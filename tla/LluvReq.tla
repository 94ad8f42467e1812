------------------------------- MODULE LluvReq ------------------------------
(***************************************************************************)
(* References (lluv_req.c and its users).  C code keeps Lua values alive   *)
(* by luaL_ref in the registry table of lluv and finds them by number: the *)
(* callback, the data and the context of a request, the read and the close *)
(* callback of a handle.  A number that is given back is reused at once by *)
(* the next luaL_ref, so that one that is kept, or given back twice, names *)
(* the value of somebody else, and one that is lost is never free again.   *)
(*                                                                         *)
(* The module has requests of streams, UDP sockets and name lookups, and   *)
(* the readers of streams and UDP sockets, which also share the buffer of  *)
(* the loop.  A Lua callback is what the program calls next: C code leaves *)
(* all of this alone once it has called Lua.  The locks that keep handles  *)
(* alive, and so the field self, are in LluvHandle; file system requests   *)
(* are in LluvFs.                                                          *)
(***************************************************************************)
EXTENDS Integers, FiniteSets

CONSTANTS
  Streams,    (* handles: streams ...                                      *)
  Udps,       (* ... and UDP sockets                                       *)
  Addrs,      (* addresses of requests, reused for ever                    *)
  NoHandle,   (* the handle of a name lookup                               *)
  MaxSlots,   (* bound: references that are in use at the same time        *)
  MaxDefers   (* bound: deferred calls                                     *)

ASSUME ReqAssumption ==
  /\ MaxSlots \in Nat /\ MaxDefers \in Nat
  /\ Streams \cap Udps = {} /\ NoHandle \notin Streams \cup Udps

Sockets == Streams \cup Udps

VARIABLES
  slot,     (* LLUV_LUA_REGISTRY, where luaL_ref keeps values              *)
  sock,     (* the handles                                                 *)
  rq,       (* the requests                                                *)
  defers,   (* the number of deferred calls                                *)
  pool,     (* who has read buffers                                        *)
  crashed   (* the program has ended by a signal                           *)

refVars == <<slot, sock, rq, defers, pool, crashed>>

(***************************************************************************)
(* luaL_ref and luaL_unref (external).  Which of the free numbers luaL_ref *)
(* takes is of no consequence.  nil has a number of its own.               *)
(***************************************************************************)
LUA_NOREF  == -2
LUA_REFNIL == -1

Slots == 1..MaxSlots
nil   == <<"nil">>

Free(g)     == {i \in Slots : g[i] = nil}
Number(g)   == CHOOSE i \in Free(g) : TRUE
Ref(g, v)   == [g EXCEPT ![Number(g)] = v]
Unref(g, i) == IF i \in Slots THEN [g EXCEPT ![i] = nil] ELSE g
Get(g, i)   == IF i \in Slots THEN g[i] ELSE nil

(* A value is named after who asked to keep it, and for what.              *)
Value(owner, field) == <<owner, field>>

(***************************************************************************)
(* A request is in libuv or not in use.  A handle: whether it is closing,  *)
(* whether libuv reads from it, and the numbers of its callbacks.          *)
(***************************************************************************)
NoRq == [at |-> "none", kind |-> "none", h |-> NoHandle,
         cb |-> LUA_NOREF, arg |-> LUA_NOREF, ctx |-> LUA_NOREF]

NewSock == [closing |-> FALSE, reading |-> FALSE,
            read |-> LUA_NOREF, close |-> LUA_NOREF]

RefInit ==
  /\ slot = [i \in Slots |-> nil]
  /\ sock = [h \in Sockets |-> NewSock]
  /\ rq = [r \in Addrs |-> NoRq]
  /\ defers = 0
  /\ pool = [busy |-> FALSE, own |-> 0]
  /\ crashed = FALSE

(***************************************************************************)
(* lluv_req_new and lluv_req_free.                                         *)
(***************************************************************************)

(* The references of a new request: context, callback, data, in this       *)
(* order; c says which of them there are.                                  *)
Kept(g, r, c) ==
  LET g1 == IF "ctx" \in c THEN Ref(g, Value(r, "ctx")) ELSE g
      g2 == IF "cb" \in c THEN Ref(g1, Value(r, "cb")) ELSE g1
      g3 == IF "arg" \in c THEN Ref(g2, Value(r, "arg")) ELSE g2
  IN  [slot |-> g3,
       ctx  |-> IF "ctx" \in c THEN Number(g) ELSE LUA_NOREF,
       cb   |-> IF "cb" \in c THEN Number(g1) ELSE LUA_REFNIL,
       arg  |-> IF "arg" \in c THEN Number(g2) ELSE LUA_NOREF]

lluv_req_new(kind, h, k) ==
  [at |-> "libuv", kind |-> kind, h |-> h, cb |-> k.cb, arg |-> k.arg, ctx |-> k.ctx]

(* Mutant: the context is not given back.                                  *)
lluv_req_free_Ctx(g, q) == Unref(Unref(g, q.cb), q.arg)

lluv_req_free(g, q) == Unref(Unref(Unref(g, q.cb), q.arg), q.ctx)

(* A request that libuv refuses (lluv_return_req, lluv_return_loop_req) is *)
(* freed, and its callback, if there is one, deferred.                     *)
Refused(g, q) ==
  /\ Get(g, q.cb) # nil => defers < MaxDefers
  /\ slot' = lluv_req_free(g, q)
  /\ defers' = IF Get(g, q.cb) # nil THEN defers + 1 ELSE defers
  /\ UNCHANGED rq

(* A request with what c names; libuv takes it or refuses it.              *)
NewRequest(kind, h, c) ==
  /\ Cardinality(Free(slot)) >= Cardinality(c)
  /\ \E r \in Addrs :
       /\ rq[r].at = "none"
       /\ LET k == Kept(slot, r, c)
              q == lluv_req_new(kind, h, k)
          IN  \/ /\ h # NoHandle => ~sock[h].closing
                 /\ slot' = k.slot
                 /\ rq' = [rq EXCEPT ![r] = q]
                 /\ UNCHANGED defers
              \/ Refused(k.slot, q)
  /\ UNCHANGED <<sock, pool, crashed>>

(* Without a request: only the callback is deferred.                       *)
DeferError ==
  /\ defers < MaxDefers
  /\ defers' = defers + 1
  /\ UNCHANGED <<slot, sock, rq, pool, crashed>>

lluv_stream_write(h) ==
  \E c \in {{"arg"}, {"arg", "cb"}, {"arg", "cb", "ctx"}} : NewRequest("write", h, c)

lluv_stream_shutdown(h) == \E c \in {{}, {"cb"}} : NewRequest("shutdown", h, c)

(* An address that is none is answered without a request.                  *)
lluv_udp_send(h) ==
  \/ \E c \in {{"arg"}, {"arg", "cb"}, {"arg", "cb", "ctx"}} : NewRequest("send", h, c)
  \/ DeferError

(* With a callback.  Without one the request is made and freed within the  *)
(* call.                                                                   *)
lluv_getaddrinfo == NewRequest("addrinfo", NoHandle, {"cb"})
lluv_getnameinfo == NewRequest("nameinfo", NoHandle, {"cb"}) \/ DeferError

(***************************************************************************)
(* The callbacks of requests: the values are fetched, the request is freed *)
(* and then Lua is called.                                                 *)
(***************************************************************************)
Complete(r) ==
  /\ slot' = lluv_req_free(slot, rq[r])
  /\ rq' = [rq EXCEPT ![r] = NoRq]
  /\ UNCHANGED <<sock, defers, pool, crashed>>

In(r, kinds) == rq[r].at = "libuv" /\ rq[r].kind \in kinds

(* Mutant: the callback of a handle that is being closed does nothing.     *)
lluv_on_stream_write_cb_Ignores(r) ==
  In(r, {"write"}) /\ ~sock[rq[r].h].closing /\ Complete(r)

lluv_on_stream_write_cb(r) == In(r, {"write"}) /\ Complete(r)
lluv_on_stream_req_cb(r)   == In(r, {"shutdown", "send"}) /\ Complete(r)
lluv_on_getaddrinfo(r)     == In(r, {"addrinfo"}) /\ Complete(r)
lluv_on_getnameinfo(r)     == In(r, {"nameinfo"}) /\ Complete(r)

(***************************************************************************)
(* Readers.                                                                *)
(***************************************************************************)

(* start_read and start_recv overwrite the number of the read callback.    *)
(* libuv agrees, or the error is deferred to the new callback.             *)
StartReading(h) ==
  /\ Free(slot) # {}
  /\ slot' = Ref(slot, Value(h, "read"))
  /\ \/ /\ ~sock[h].closing
        /\ sock' = [sock EXCEPT ![h].read = Number(slot), ![h].reading = TRUE]
        /\ UNCHANGED defers
     \/ /\ defers < MaxDefers
        /\ sock' = [sock EXCEPT ![h].read = Number(slot)]
        /\ defers' = defers + 1
  /\ UNCHANGED <<rq, pool, crashed>>

(* Mutant: the number stays when the reference is given back.              *)
ReadStopped_Keeps(h) ==
  /\ slot' = Unref(slot, sock[h].read)
  /\ sock' = [sock EXCEPT ![h].reading = FALSE]

(* The reader is stopped and its callback given up.                        *)
ReadStopped(h) ==
  /\ slot' = Unref(slot, sock[h].read)
  /\ sock' = [sock EXCEPT ![h].reading = FALSE, ![h].read = LUA_NOREF]

StopReading(h) == ReadStopped(h) /\ UNCHANGED <<rq, defers, pool, crashed>>

(* lluv_alloc_buffer_cb: the buffer of the loop, or one of its own.        *)
lluv_alloc_buffer_cb(p) ==
  IF ~p.busy THEN [p EXCEPT !.busy = TRUE] ELSE [p EXCEPT !.own = @ + 1]

(* lluv_free_buffer of the buffer that was got when the pool was p.        *)
lluv_free_buffer(p, now) ==
  IF ~p.busy THEN [now EXCEPT !.busy = FALSE] ELSE [now EXCEPT !.own = @ - 1]

(* libuv asks for a buffer, reads, and calls back at once.  The buffer is  *)
(* back before Lua is called, which may run the loop again.                *)
GivesBack == pool' = lluv_free_buffer(pool, lluv_alloc_buffer_cb(pool))
KeepsIt   == pool' = lluv_alloc_buffer_cb(pool)

Data(h) ==
  /\ GivesBack
  /\ UNCHANGED <<slot, sock, rq, defers, crashed>>

Reads(h) == sock[h].reading /\ ~sock[h].closing

(* An error stops the reader before Lua is told.                           *)
lluv_on_stream_read_cb(h) ==
  /\ Reads(h)
  /\ \/ Data(h)
     \/ ReadStopped(h) /\ GivesBack /\ UNCHANGED <<rq, defers, crashed>>

(* Mutant: with nothing to read the buffer is not given back.              *)
NothingToRead_Keeps(h) ==
  KeepsIt /\ UNCHANGED <<slot, sock, rq, defers, crashed>>

(* nread is 0 and there is no address: Lua is not called.                  *)
NothingToRead(h) ==
  GivesBack /\ UNCHANGED <<slot, sock, rq, defers, crashed>>

(* With an error there is no address either, but lluv_push_addr reads its  *)
(* family all the same.                                                    *)
lluv_on_udp_recv_cb(h) ==
  /\ Reads(h)
  /\ \/ Data(h)
     \/ NothingToRead(h)
     \/ /\ ReadStopped(h) /\ GivesBack
        /\ crashed' = TRUE
        /\ UNCHANGED <<rq, defers>>

lluv_stream_start_read(h) == StartReading(h)
lluv_stream_stop_read(h)  == StopReading(h)
lluv_udp_start_recv(h)    == StartReading(h)
lluv_udp_stop_recv(h)     == StopReading(h)

(***************************************************************************)
(* Closing.  libuv cancels the requests of the handle first.               *)
(***************************************************************************)
lluv_handle_close(h) ==
  /\ ~sock[h].closing
  /\ \/ /\ Free(slot) # {}
        /\ slot' = Ref(slot, Value(h, "close"))
        /\ sock' = [sock EXCEPT ![h].closing = TRUE, ![h].close = Number(slot)]
     \/ /\ sock' = [sock EXCEPT ![h].closing = TRUE]
        /\ UNCHANGED slot
  /\ UNCHANGED <<rq, defers, pool, crashed>>

(* lluv_handle_cleanup, then Lua.  The program makes another handle in the *)
(* place of this one.                                                      *)
lluv_on_handle_close(h) ==
  /\ sock[h].closing
  /\ \A r \in Addrs : rq[r].at = "libuv" => rq[r].h # h
  /\ slot' = Unref(Unref(slot, sock[h].close), sock[h].read)
  /\ sock' = [sock EXCEPT ![h] = NewSock]
  /\ UNCHANGED <<rq, defers, pool, crashed>>

(* lluv_loop_defer_proceed calls the first of the deferred functions.      *)
lluv_defer_call ==
  /\ defers > 0
  /\ defers' = defers - 1
  /\ UNCHANGED <<slot, sock, rq, pool, crashed>>

(***************************************************************************)
(* The specification.  Nothing follows a crash.                            *)
(***************************************************************************)
Callback(r) ==
  \/ lluv_on_stream_write_cb(r) \/ lluv_on_stream_req_cb(r)
  \/ lluv_on_getaddrinfo(r)     \/ lluv_on_getnameinfo(r)

RefNext ==
  /\ ~crashed
  /\ \/ \E h \in Streams :
          \/ lluv_stream_write(h) \/ lluv_stream_shutdown(h)
          \/ lluv_stream_start_read(h) \/ lluv_stream_stop_read(h)
          \/ lluv_on_stream_read_cb(h)
     \/ \E h \in Udps :
          \/ lluv_udp_send(h)
          \/ lluv_udp_start_recv(h) \/ lluv_udp_stop_recv(h)
          \/ lluv_on_udp_recv_cb(h)
     \/ \E h \in Sockets : lluv_handle_close(h) \/ lluv_on_handle_close(h)
     \/ lluv_getaddrinfo
     \/ lluv_getnameinfo
     \/ lluv_defer_call
     \/ \E r \in Addrs : Callback(r)

(* libuv calls back for every request that it took.                        *)
RefFairness == \A r \in Addrs : WF_refVars(~crashed /\ Callback(r))

RefSpec == RefInit /\ [][RefNext]_refVars /\ RefFairness

(***************************************************************************)
(* Correctness.                                                            *)
(***************************************************************************)
Owned(f, owner, field) == f \in Slots => slot[f] = Value(owner, field)

(* Every number that a request in libuv or a handle keeps names the value  *)
(* that was put there for it: the data that libuv writes from is alive,    *)
(* no callback is that of somebody else, and a reader that libuv may call  *)
(* has one (the asserts of the read callbacks).                            *)
OwnReferences ==
  /\ \A r \in Addrs : rq[r].at = "libuv" =>
       /\ Owned(rq[r].cb, r, "cb") /\ Owned(rq[r].ctx, r, "ctx")
       /\ Owned(rq[r].arg, r, "arg")
       /\ rq[r].kind \in {"write", "send"} => rq[r].arg \in Slots
       /\ rq[r].kind \in {"addrinfo", "nameinfo"} => rq[r].cb \in Slots
  /\ \A h \in Sockets :
       /\ Owned(sock[h].read, h, "read") /\ Owned(sock[h].close, h, "close")
       /\ Reads(h) => sock[h].read \in Slots

(* The only values that stay in the registry when nobody has their number  *)
(* any more are read callbacks that a second start_read or start_recv has  *)
(* replaced: no path through a request, and no end of a reader, leaks.     *)
Held == (UNION {{rq[r].cb, rq[r].arg, rq[r].ctx} : r \in Addrs})
           \cup (UNION {{sock[h].read, sock[h].close} : h \in Sockets})

OnlyRestartsLeak ==
  \A i \in Slots \ Held :
    slot[i] # nil => \E h \in Sockets : slot[i] = Value(h, "read")

(* Whenever Lua runs, every read buffer is back, so that a loop that is    *)
(* run from a callback has it and none is lost or freed twice.             *)
BuffersAreBack == ~pool.busy /\ pool.own = 0

(* A request that libuv took is called back and freed, also if its handle  *)
(* is closed meanwhile.                                                    *)
RequestsComplete ==
  \A r \in Addrs : rq[r].at = "libuv" ~> rq[r].at = "none" \/ crashed

(* An error of a receive is reported to the callback of start_recv, which  *)
(* test/test-udp-connect.lua and luasocket.lua handle: the program goes on.*)
RecvErrorIsReported == ~crashed
=============================================================================
