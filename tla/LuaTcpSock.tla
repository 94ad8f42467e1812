----------------------------- MODULE LuaTcpSock -----------------------------
(***************************************************************************)
(* The class TcpSock of lluv/luasocket.lua.  To BaseSock it adds           *)
(*   use      what the handle is: new, bound, or a connected stream        *)
(*   up       the number of the handle that lluv reported as connected     *)
(*   made     the number of handles made so far                            *)
(*   buf      chunks of data in _buf                                       *)
(*   need     chunks that the receive under way asks for                   *)
(*   left     addresses that _connect has not tried yet                    *)
(*   listens  accept has made _accept_list and called listen               *)
(*   list     _accept_list, clients by number                              *)
(*   clients  the number of clients that have come                         *)
(*   given    the last client that accept returned                         *)
(***************************************************************************)
EXTENDS LuaBaseSock

CONSTANTS
  MAX_ACCEPT_COUNT,
  MaxAddr,     (* bound: addresses of a name                               *)
  MaxBuf,      (* bound: chunks in _buf                                    *)
  MaxClients   (* bound: clients that come                                 *)

ASSUME TcpAssumption == /\ MAX_ACCEPT_COUNT \in Nat /\ MaxAddr \in Nat \ {0}
                        /\ MaxBuf \in Nat \ {0}     /\ MaxClients \in Nat

Nil == "nil"

TcpNew == [class |-> "TcpSock", co |-> BaseInit.co, sock |-> BaseInit.sock,
           timer |-> BaseInit.timer, wait |-> BaseInit.wait,
           timeout |-> BaseInit.timeout, rawErr |-> BaseInit.rawErr,
           use |-> "new", up |-> 0, made |-> 1, buf |-> 0, need |-> 1,
           left |-> 0, listens |-> FALSE, list |-> << >>, clients |-> 0,
           given |-> 0]

(* __init: without an argument, or with the handle of an accepted client,  *)
(* which accept then reads from.                                           *)
Init ==
  /\ self \in {TcpNew, [TcpNew EXCEPT !.use = "stream", !.up = 1]}
  /\ cbs = {}
  /\ woke = Nobody
  /\ ret = Nothing

(***************************************************************************)
(* What the coroutine does when it is resumed, up to its next yield.       *)
(***************************************************************************)

(* _reset: close the handle, take a new one.                               *)
ResetHandle(s) == [s EXCEPT !.sock = s.made + 1, !.made = @ + 1, !.up = 0]

(* An iteration of _connect's loop.  Its callback is that of a request, or *)
(* a deferred call if uv_tcp_connect refuses.  Without a handle, which     *)
(* another coroutine has closed, an error is raised.                       *)
Attempt(s, c) ==
  IF s.sock = 0 \/ StartRaises(s)
  THEN self' = Raise(Start(s, "conn")) /\ cbs' = c /\ ret' = Nothing
  ELSE /\ self' = [Start(s, "conn") EXCEPT !.left = @ - 1]
       /\ \E failed \in BOOLEAN : cbs' = c \cup {Callback("conn", s.sock, failed)}
       /\ ret' = Nothing

Returns(s, c, op, res) == self' = Return(s) /\ cbs' = c /\ ret' = <<op, res>>

(* receive: with "*a" it waits for the end, else until there is enough.    *)
GoOnReceiving(s, c, ok, err) ==
  \/ /\ ok
     /\ s.co = "recv" /\ s.buf >= s.need
     /\ Returns([Stop(s) EXCEPT !.buf = @ - s.need], c, "receive", "ok")
  \/ /\ ok
     /\ s.co = "recv" => s.buf < s.need
     /\ self' = s /\ cbs' = c /\ ret' = Nothing
  \/ /\ ~ok /\ s.co = "recv"
     /\ Returns([Stop(s) EXCEPT !.buf = 0], c, "receive", err)
  \/ /\ ~ok /\ s.co = "recvall"
     /\ Returns([Stop(s) EXCEPT !.buf = IF err = "interrupted" THEN @ ELSE 0],
                c, "receive", IF err = "closed" THEN "ok" ELSE err)

(* _connect: the addresses one after the other, until one answers.  All    *)
(* attempts share one variable terminated.                                 *)
GoOnConnecting(s, c, ok, err) ==
  \/ /\ s.co = "dns" /\ ok
     /\ \E n \in 1..MaxAddr :
          Attempt([Stop(s) EXCEPT !.left = n], Terminated(c, "dns"))
  \/ /\ s.co = "dns" /\ ~ok
     /\ Returns(Stop(s), Terminated(c, "dns"), "connect", err)
  \/ /\ s.co = "conn" /\ ok
     /\ Returns([Stop(s) EXCEPT !.use = "stream"], Terminated(c, "conn"),
                "connect", "ok")
  \/ /\ s.co = "conn" /\ ~ok /\ s.left > 0
     /\ Attempt(ResetHandle(Stop(s)), c)
  \/ /\ s.co = "conn" /\ ~ok /\ s.left = 0
     /\ Returns(ResetHandle(Stop(s)), Terminated(c, "conn"), "connect", err)

(* send and shutdown return _err, which is "closed", whatever happened.    *)
GoOnSending(s, c, ok) ==
  LET res == IF ok THEN "ok" ELSE "closed"
  IN  \/ s.co = "send" /\ Returns(Stop(s), Terminated(c, "write"), "send", res)
      \/ s.co = "shutdown" /\ Returns(s, Terminated(c, "shutdown"), "shutdown", res)

GoOnAccepting(s, c, ok, err) ==
  /\ s.co = "accept"
  /\ Returns(Stop(s), c, "accept", IF ok THEN "ok" ELSE err)

(* _resume(ok, err) by a callback of kind k.                               *)
Resume(s, c, x, ok, err) ==
  /\ woke' = [by |-> x.k, at |-> s.co, terminated |-> x.terminated]
  /\ \/ s.co \in {"recv", "recvall"} /\ GoOnReceiving(s, c, ok, err)
     \/ s.co \in {"dns", "conn"}     /\ GoOnConnecting(s, c, ok, err)
     \/ s.co \in {"send", "shutdown"} /\ GoOnSending(s, c, ok)
     \/ GoOnAccepting(s, c, ok, err)
     \/ s.co \in {"run", "dead"} /\ self' = s /\ cbs' = c /\ ret' = Nothing

Event(k) == Callback(k, 0, FALSE)

(***************************************************************************)
(* Calls of the program.                                                   *)
(***************************************************************************)
receive ==
  /\ self.co = "run" /\ self.sock # 0 /\ self.use = "stream"
  /\ \/ self' = Start(self, "recvall") /\ ret' = Nothing
     \/ \E n \in 1..MaxBuf :
          \/ /\ self.buf >= n /\ ~StartRaises(self)
             /\ self' = Stop([self EXCEPT !.buf = @ - n])
             /\ ret' = <<"receive", "ok">>
          \/ /\ self.buf < n \/ StartRaises(self)
             /\ self' = Start([self EXCEPT !.need = n], "recv")
             /\ ret' = Nothing
  /\ UNCHANGED cbs /\ woke' = Nobody

send ==
  /\ self.co = "run" /\ self.sock # 0 /\ self.use = "stream"
  /\ self' = Start(self, "send")
  /\ IF StartRaises(self) THEN UNCHANGED cbs
     ELSE \E failed \in BOOLEAN :
            cbs' = cbs \cup {Callback("write", self.sock, failed)}
  /\ Quiet

(* connect begins with getaddrinfo.                                        *)
connect ==
  /\ self.co = "run" /\ self.use = "new"
  /\ self.sock # 0
  /\ self.made < MaxAddr + 2
  /\ self' = Start(self, "dns")
  /\ cbs' = IF StartRaises(self) THEN cbs ELSE cbs \cup {Event("dns")}
  /\ Quiet

bind ==
  /\ self.co = "run" /\ self.sock # 0 /\ self.use = "new"
  /\ \/ self' = [self EXCEPT !.use = "bound"] /\ ret' = <<"bind", "ok">>
     \/ /\ self.made < MaxAddr + 2
        /\ self' = ResetHandle(self)
        /\ ret' = <<"bind", "error">>
  /\ UNCHANGED cbs /\ woke' = Nobody

(* accept starts to listen the first time.                                 *)
accept ==
  /\ self.co = "run" /\ self.sock # 0 /\ self.use = "bound"
  /\ \/ /\ self.list = << >>
        /\ self' = Start([self EXCEPT !.listens = TRUE], "accept")
        /\ ret' = Nothing
     \/ /\ self.list # << >>
        /\ self' = [self EXCEPT !.list = Tail(@), !.given = Head(self.list)]
        /\ ret' = <<"accept", "ok">>
  /\ UNCHANGED cbs /\ woke' = Nobody

ClosedCall ==
  \/ self.use = "stream" /\ (ReturnsClosed("receive") \/ ReturnsClosed("send"))
  \/ self.use = "bound" /\ (ReturnsClosed("accept") \/ ReturnsClosed("bind"))

(* interrupt() by another coroutine.                                       *)
interrupt ==
  /\ "interrupt" \in Others
  /\ self.wait # {}
  /\ Resume(self, cbs, Event("interrupt"), FALSE, "interrupted")

(***************************************************************************)
(* Callbacks.                                                              *)
(***************************************************************************)

(* Mutant: the callback does not resume.                                   *)
on_timer_Forgets ==
  /\ self.timer = "on"
  /\ self' = [self EXCEPT !.timer = "stopped"]
  /\ UNCHANGED cbs /\ Quiet

on_timer ==
  /\ self.timer = "on"
  /\ Resume([self EXCEPT !.timer = "stopped"], cbs, Event("timer"),
            FALSE, "timeout")

(* The callback of start_read: some data, or an error, the end included.   *)
on_read ==
  /\ self.sock # 0 /\ self.use = "stream"
  /\ \/ _on_io_error(self, cbs)
     \/ /\ self.buf < MaxBuf
        /\ LET s == [self EXCEPT !.buf = @ + 1]
           IN  \/ "read" \in s.wait /\ Resume(s, cbs, Event("read"), TRUE, Nil)
               \/ "read" \notin s.wait /\ self' = s /\ UNCHANGED cbs /\ Quiet

(* Mutant: no limit.                                                       *)
Queued_Unlimited(list, n) == Append(list, n)

(* A client joins the queue, of which the oldest are closed.               *)
Queued(list, n) ==
  LET extra == Len(list) - MAX_ACCEPT_COUNT
  IN  Append(IF extra > 0 THEN SubSeq(list, extra + 1, Len(list)) ELSE list, n)

(* The callback of listen.                                                 *)
on_connection ==
  /\ self.sock # 0 /\ self.listens
  /\ \/ _on_io_error(self, cbs)
     \/ /\ self.clients < MaxClients
        /\ LET n == self.clients + 1
               l == Queued(self.list, n)
               s == [self EXCEPT !.clients = n]
           IN  \/ /\ "accept" \in s.wait
                  /\ Resume([s EXCEPT !.list = Tail(l), !.given = Head(l)], cbs,
                            Event("connection"), TRUE, Nil)
               \/ /\ "accept" \notin s.wait
                  /\ self' = [s EXCEPT !.list = l]
                  /\ UNCHANGED cbs /\ Quiet

(* Mutant: terminated is not looked at.                                    *)
on_request_Late(x) ==
  /\ x.k \in {"write", "shutdown"} /\ ~Dropped(x)
  /\ LET c == cbs \ {x}
     IN  \/ _on_io_error(self, c)
         \/ ~x.deferred /\ Resume(self, c, x, TRUE, Nil)

(* The callbacks of write and shutdown.                                    *)
on_request(x) ==
  /\ x.k \in {"write", "shutdown"} /\ ~Dropped(x)
  /\ LET c == cbs \ {x}
     IN  \/ x.terminated /\ cbs' = c /\ UNCHANGED self /\ Quiet
         \/ ~x.terminated /\ _on_io_error(self, c)
         \/ ~x.terminated /\ ~x.deferred /\ Resume(self, c, x, TRUE, Nil)

(* The callbacks of connect and getaddrinfo.                               *)
on_answer(x) ==
  /\ x.k \in {"conn", "dns"} /\ ~Dropped(x)
  /\ LET c == cbs \ {x}
     IN  \/ x.terminated /\ cbs' = c /\ UNCHANGED self /\ Quiet
         \/ ~x.terminated /\ Resume(self, c, x, FALSE, "error")
         \/ /\ ~x.terminated /\ ~x.deferred
            /\ Resume(IF x.k = "conn" THEN [self EXCEPT !.up = x.h] ELSE self,
                      c, x, TRUE, Nil)

(* The close callback of _on_io_error.                                     *)
on_close(x) ==
  /\ x.k = "close"
  /\ LET c == cbs \ {x}
     IN  \/ self.wait # {} /\ Resume(self, c, x, FALSE, "closed")
         \/ self.wait = {} /\ cbs' = c /\ UNCHANGED self /\ Quiet

Deliver(x) == on_request(x) \/ on_answer(x) \/ on_close(x) \/ LluvDrops(x)

Next ==
  \/ receive \/ send \/ connect \/ bind \/ accept \/ ClosedCall
  \/ shutdown \/ close \/ settimeout \/ interrupt
  \/ on_timer \/ on_read \/ on_connection
  \/ \E x \in cbs : Deliver(x)

Spec == Init /\ [][Next]_vars

(* A callback of kind k that lluv owes.                                    *)
Pending(k) == \E x \in cbs : x.k = k /\ Deliver(x)

(***************************************************************************)
(* Correctness.                                                            *)
(***************************************************************************)
(* A stream is the handle that lluv connected: the success of an attempt   *)
(* that timed out before does not count for the handle that replaced it.   *)
ConnectedIsConnected ==
  self.class = "TcpSock" /\ self.use = "stream" /\ self.sock # 0 => self.up = self.sock

(* The queue of clients has a limit, one more than the constant says, and  *)
(* none is in it while the program waits for one; clients are accepted in  *)
(* the order in which they came, and none that was closed to make room     *)
(* comes back.                                                             *)
AcceptQueue ==
  self.class = "TcpSock" =>
    /\ Len(self.list) <= MAX_ACCEPT_COUNT + 1
    /\ self.co = "accept" => self.list = << >>
    /\ LET line == <<self.given>> \o self.list
       IN  \A i \in 1..Len(self.list) : line[i] < line[i + 1]

(* A call with a timeout of a millisecond or more comes back, by its own   *)
(* timer if by nothing else, unless another coroutine closes the object:   *)
(* close() takes the timer away and resumes nobody.  (A shorter timeout    *)
(* never starts the timer, see Timeouts.)                                  *)
TimeoutWakes ==
  self.timer = "on" ~> self.co \in {"run", "dead"} \/ self.timer = "nil"

(* A call of TcpSock that says in _wait what it waits for comes back when  *)
(* lluv reports an error on the socket, also one of another operation, at  *)
(* a time when the timer is closed already.  shutdown() says nothing in    *)
(* _wait and is not covered, nor is UdpSock, whose error callback fails.   *)
ErrorWakes ==
  self.class = "TcpSock" /\ self.rawErr /\ self.wait # {}
    ~> self.co \in {"run", "dead"}

(* "assert(back == str, "unexpected data read")" after the peer has sent   *)
(* str and closed (test/luasocket/testclnt.lua:591): receive does not say  *)
(* closed while data that came before the end is in the buffer.            *)
EndKeepsData == [][ReturnsClosed("receive") /\ self.rawErr => self.buf = 0]_vars

=============================================================================
