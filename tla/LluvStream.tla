----------------------------- MODULE LluvStream -----------------------------
(***************************************************************************)
(* Streams (tcp, pipe, tty), UDP sockets and processes: the handles that   *)
(* have requests, a read callback, a connection callback or an exit        *)
(* callback (lluv_stream.c, lluv_tcp.c, lluv_pipe.c, lluv_udp.c,           *)
(* lluv_process.c).                                                        *)
(*                                                                         *)
(* libuv (external): a request is refused at once or calls back later,     *)
(* exactly once, and in any case before the close callback of its handle.  *)
(***************************************************************************)
EXTENDS LluvHandle

(***************************************************************************)
(* Requests.                                                               *)
(***************************************************************************)

(* lluv_req_new and uv_xxx(req, ...); a refused request is freed again in  *)
(* lluv_return_req, which defers the callback if there is one.             *)
SubmitReq(h) ==
  /\ Usable(h)
  /\ \/ /\ hnd[h].uv = "open"
        /\ hnd[h].reqs < MaxReqs
        /\ Set(h, ReqNew(hnd[h]))
     \/ /\ hnd[h].defers < MaxDefers
        /\ Set(h, Defer(ReqFree(ReqNew(hnd[h]))))
     \/ Set(h, ReqFree(ReqNew(hnd[h])))
  /\ UNCHANGED stack

lluv_stream_shutdown(h) == hnd[h].kind \in StreamKinds /\ SubmitReq(h)
lluv_stream_write(h)    == hnd[h].kind \in StreamKinds /\ SubmitReq(h)
lluv_stream_write2(h)   ==
  /\ hnd[h].kind \in StreamKinds
  /\ \E src \in Handles : Usable(src) /\ hnd[src].kind \in StreamKinds
  /\ SubmitReq(h)
lluv_tcp_connect(h)     == hnd[h].kind = "tcp"  /\ SubmitReq(h)
lluv_udp_send(h)        == hnd[h].kind = "udp"  /\ SubmitReq(h)

(* uv_pipe_connect has no result: the request is always taken.  A program  *)
(* that connects a pipe it has closed already is outside the model.        *)
lluv_pipe_connect(h) ==
  /\ Usable(h)
  /\ hnd[h].kind = "pipe"
  /\ hnd[h].uv = "open"
  /\ hnd[h].reqs < MaxReqs
  /\ Set(h, ReqNew(hnd[h]))
  /\ UNCHANGED stack

(* Mutant: the callback of a cancelled request is ignored.                 *)
lluv_on_stream_req_cb_Ignores(h) ==
  /\ hnd[h].reqs > 0
  /\ hnd[h].uv = "open"
  /\ CanCallBack
  /\ Set(h, ReqFree(hnd[h]))
  /\ Call(h, "event")

(* lluv_on_stream_req_cb, lluv_on_stream_write_cb: the request is freed    *)
(* (and the handle unlocked) before its Lua callback, if any, runs.        *)
lluv_on_stream_req_cb(h) ==
  /\ hnd[h].reqs > 0
  /\ CanCallBack
  /\ Set(h, ReqFree(hnd[h]))
  /\ \/ hnd[h].open /\ Call(h, "event")
     \/ UNCHANGED stack

(* bind and udp:connect: libuv answers at once, and the Lua callback, if   *)
(* there is one, is deferred with the good or the bad news.                *)
AnswerLater(h, k) ==
  /\ Usable(h)
  /\ hnd[h].kind = k
  /\ hnd[h].defers < MaxDefers
  /\ Set(h, Defer(hnd[h]))
  /\ UNCHANGED stack

lluv_tcp_bind(h)    == AnswerLater(h, "tcp")
lluv_pipe_bind(h)   == AnswerLater(h, "pipe")
lluv_udp_bind(h)    == AnswerLater(h, "udp")
lluv_udp_connect(h) == AnswerLater(h, "udp")

(***************************************************************************)
(* Reading and listening.                                                  *)
(***************************************************************************)

(* Start what calls back through slot s: overwrite the slot, and lock it   *)
(* if libuv agrees.                                                        *)
StartSlot(h, s) ==
  /\ Usable(h)
  /\ LET r == [hnd[h] EXCEPT !.cb = @ \cup {s}]
     IN  \/ /\ hnd[h].uv = "open"
            /\ Set(h, Lock([r EXCEPT !.active = @ \cup {s}], s))
         \/ /\ hnd[h].defers < MaxDefers
            /\ Set(h, Defer(r))
  /\ UNCHANGED stack

(* The READ slot and lock are given up together.                           *)
ReadStopped(r) ==
  Unlock([r EXCEPT !.active = @ \ {"START"}, !.cb = @ \ {"START"}], "START")

(* stop_read and stop_recv unlock only if a read callback is registered.   *)
StopRead(h) ==
  /\ Usable(h)
  /\ Set(h, IF "START" \in hnd[h].cb
            THEN ReadStopped(hnd[h])
            ELSE [hnd[h] EXCEPT !.active = @ \ {"START"}])
  /\ UNCHANGED stack

(* Data keeps the reader going; an error stops it before Lua is told.      *)
lluv_on_stream_read_cb(h) ==
  /\ hnd[h].kind \in StreamKinds
  /\ "START" \in hnd[h].active
  /\ CanCallBack
  /\ \/ UNCHANGED hnd
     \/ Set(h, ReadStopped(hnd[h]))
  /\ Call(h, "event")

lluv_stream_start_read(h) == hnd[h].kind \in StreamKinds /\ StartSlot(h, "START")
lluv_stream_stop_read(h)  == hnd[h].kind \in StreamKinds /\ StopRead(h)

lluv_udp_start_recv(h)    == hnd[h].kind = "udp" /\ StartSlot(h, "START")
lluv_udp_stop_recv(h)     == hnd[h].kind = "udp" /\ StopRead(h)

(* Only datagrams reach the callback of a UDP handle: an error ends the    *)
(* program before Lua is told (LluvReq!RecvErrorIsReported).               *)
lluv_on_udp_recv_cb(h) ==
  /\ hnd[h].kind = "udp"
  /\ "START" \in hnd[h].active
  /\ CanCallBack
  /\ Call(h, "event")
  /\ UNCHANGED hnd

(* There is no way to stop listening: the CONNECTION lock stays.           *)
lluv_stream_listen(h) ==
  hnd[h].kind \in {"tcp", "pipe"} /\ StartSlot(h, "CONNECTION")

lluv_on_stream_connection_cb(h) ==
  /\ "CONNECTION" \in hnd[h].active
  /\ CanCallBack
  /\ Call(h, "event")
  /\ UNCHANGED hnd

(* server:accept() creates the client; if uv_accept fails it is closed and *)
(* the program does not get it.                                            *)
lluv_stream_accept(h, d) ==
  /\ Usable(h)
  /\ hnd[h].kind \in {"tcp", "pipe"}
  /\ hnd[d].mem = "none"
  /\ \/ Set(d, Created(hnd[h].kind))
     \/ Set(d, [Close(Created(hnd[h].kind), FALSE) EXCEPT !.user = FALSE])
  /\ UNCHANGED stack

(***************************************************************************)
(* Processes.  libuv initialises the handle even if uv_spawn fails.        *)
(***************************************************************************)
Spawned == [Created("process") EXCEPT !.active = {"START"}]

(* With an exit callback the handle is locked, whether or not uv_spawn     *)
(* succeeded; without one a failure closes the handle.                     *)
lluv_process_spawn(h) ==
  /\ hnd[h].mem = "none"
  /\ LET locked(r) == [Lock(r, "START") EXCEPT !.cb = {"START"}]
     IN  \/ Set(h, Spawned)
         \/ Set(h, locked(Spawned))
         \/ Set(h, [Close(Created("process"), FALSE) EXCEPT !.user = FALSE])
         \/ /\ MaxDefers > 0
            /\ Set(h, Defer(locked(Created("process"))))
  /\ UNCHANGED stack

lluv_on_process_exit(h) ==
  /\ hnd[h].kind = "process"
  /\ "START" \in hnd[h].active
  /\ CanCallBack
  /\ Set(h, Unlock([hnd[h] EXCEPT !.active = {}], "START"))
  /\ IF "START" \in hnd[h].cb THEN Call(h, "event") ELSE UNCHANGED stack

(***************************************************************************)
(* Creation, calls of the program, callbacks of libuv.                     *)
(***************************************************************************)
CreateStream(h) ==
  \/ \E k \in Kinds \cap (StreamKinds \cup {"udp"}) : lluv_handle_create(h, k)
  \/ "process" \in Kinds /\ lluv_process_spawn(h)

StreamCalls(h) ==
  \/ lluv_stream_shutdown(h)   \/ lluv_stream_write(h)
  \/ lluv_stream_write2(h)     \/ lluv_tcp_connect(h)
  \/ lluv_pipe_connect(h)      \/ lluv_udp_send(h)
  \/ lluv_tcp_bind(h)          \/ lluv_pipe_bind(h)
  \/ lluv_udp_bind(h)          \/ lluv_udp_connect(h)
  \/ lluv_stream_listen(h)
  \/ lluv_stream_start_read(h) \/ lluv_stream_stop_read(h)
  \/ lluv_udp_start_recv(h)    \/ lluv_udp_stop_recv(h)
  \/ \E d \in Handles : lluv_stream_accept(h, d)

StreamEvents(h) ==
  \/ lluv_on_stream_req_cb(h)
  \/ lluv_on_stream_read_cb(h)
  \/ lluv_on_udp_recv_cb(h)
  \/ lluv_on_stream_connection_cb(h)
  \/ lluv_on_process_exit(h)
=============================================================================
