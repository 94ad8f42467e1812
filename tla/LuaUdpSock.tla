----------------------------- MODULE LuaUdpSock -----------------------------
(***************************************************************************)
(* The class UdpSock of lluv/luasocket.lua.  To BaseSock it adds           *)
(*   kind     the class of the handle in _sock                             *)
(*   peer     _peer, None when any peer will do                            *)
(*   reading  _read_started                                                *)
(*   active   the handle in _sock delivers datagrams                       *)
(*   buf      _buf, the queue of datagrams, by sender                      *)
(*   got      the sender of the datagram that receivefrom returned last    *)
(***************************************************************************)
EXTENDS LuaDatagrams

CONSTANTS
  MaxBuf,     (* bound: datagrams in the queue                             *)
  MaxHandles  (* bound: handles made                                       *)

UdpNew == [class |-> "UdpSock", co |-> BaseInit.co, sock |-> BaseInit.sock,
           timer |-> BaseInit.timer, wait |-> BaseInit.wait,
           timeout |-> BaseInit.timeout, rawErr |-> BaseInit.rawErr,
           kind |-> "udp", peer |-> None, reading |-> FALSE,
           active |-> FALSE, buf |-> << >>, got |-> None]

Init ==
  /\ self = UdpNew
  /\ cbs = {}
  /\ woke = Nobody
  /\ ret = Nothing

(***************************************************************************)
(* What the coroutine does when it is resumed.  After a datagram there is  *)
(* an assert that the queue is not empty.                                  *)
(***************************************************************************)
GoOnReceiving(s, c, ok, err) ==
  /\ s.co = "recv"
  /\ cbs' = c
  /\ \/ /\ ok /\ s.buf # << >>
        /\ self' = Return([Stop(s) EXCEPT !.buf = Tail(@), !.got = Head(s.buf)])
        /\ ret' = <<"receive", "ok">>
     \/ /\ ok /\ s.buf = << >>
        /\ self' = Raise(Stop(s))
        /\ ret' = <<"receive", "assertion failed">>
     \/ /\ ~ok
        /\ self' = Return(Stop(s))
        /\ ret' = <<"receive", err>>

GoOnSending(s, c, ok) ==
  /\ s.co = "send"
  /\ self' = Return(Stop(s))
  /\ cbs' = Terminated(c, "write")
  /\ ret' = <<"send", IF ok THEN "ok" ELSE "closed">>

Resume(s, c, x, ok, err) ==
  /\ woke' = [by |-> x.k, at |-> s.co, terminated |-> x.terminated]
  /\ \/ GoOnReceiving(s, c, ok, err)
     \/ GoOnSending(s, c, ok)
     \/ s.co \in {"run", "dead"} /\ self' = s /\ cbs' = c /\ ret' = Nothing

Event(k) == Callback(k, 0, FALSE)

(***************************************************************************)
(* Calls of the program.  On a handle that is no UDP handle the methods    *)
(* are missing and the call raises an error.                               *)
(***************************************************************************)

(* Mutant: what was queued for an earlier peer is returned.                *)
FromPeer_Any(s) == {i \in 1..Len(s.buf) : TRUE}

(* Queued datagrams that receivefrom may return; it pops the others.       *)
FromPeer(s) == {i \in 1..Len(s.buf) : _is_peer(s, s.buf[i])}

receivefrom ==
  /\ self.co = "run" /\ self.sock # 0
  /\ UNCHANGED cbs /\ woke' = Nobody
  /\ \/ \E i \in FromPeer(self) :
          /\ \A j \in FromPeer(self) : i <= j
          /\ self' = [self EXCEPT !.buf = SubSeq(@, i + 1, Len(@)),
                                  !.got = self.buf[i]]
          /\ ret' = <<"receive", "ok">>
     \/ /\ FromPeer(self) = {}
        /\ ret' = Nothing
        /\ LET s == [self EXCEPT !.buf = << >>]
           IN  self' = IF ~s.reading /\ s.kind # "udp"
                       THEN Raise([s EXCEPT !.reading = TRUE])
                       ELSE Start([s EXCEPT !.reading = TRUE,
                                            !.active = @ \/ ~s.reading], "recv")

sendto ==
  /\ self.co = "run" /\ self.sock # 0
  /\ IF self.kind = "udp" /\ ~StartRaises(self)
     THEN /\ self' = Start(self, "send")
          /\ \E failed \in BOOLEAN :
               cbs' = cbs \cup {Callback("write", self.sock, failed)}
     ELSE self' = Raise(Start(self, "send")) /\ UNCHANGED cbs
  /\ Quiet

(* A bind that fails leaves a new handle behind, of class tcp.             *)
setsockname ==
  /\ self.co = "run" /\ self.sock # 0
  /\ UNCHANGED cbs /\ woke' = Nobody
  /\ \/ UNCHANGED self /\ ret' = <<"bind", "ok">>
     \/ /\ self.sock < MaxHandles
        /\ self' = [self EXCEPT !.sock = @ + 1, !.kind = "tcp",
                                !.active = FALSE]
        /\ ret' = <<"bind", "error">>

setpeername ==
  /\ self.co = "run"
  /\ \E p \in Peers \cup {None} : self' = [self EXCEPT !.peer = p]
  /\ UNCHANGED cbs /\ Quiet

ClosedCall == ReturnsClosed("receive") \/ ReturnsClosed("send")

interrupt ==
  /\ "interrupt" \in Others
  /\ self.wait # {}
  /\ Resume(self, cbs, Event("interrupt"), FALSE, "interrupted")

(***************************************************************************)
(* Callbacks.                                                              *)
(***************************************************************************)
on_timer ==
  /\ self.timer = "on"
  /\ Resume([self EXCEPT !.timer = "stopped"], cbs, Event("timer"),
            FALSE, "timeout")

(* _on_io_error sets _raw_err and then calls stop_read, a method that UDP  *)
(* handles do not have: the error that this raises ends the callback, the  *)
(* socket stays open and the coroutine where it is.                        *)
OnUdpError(s, c) ==
  /\ self' = [s EXCEPT !.rawErr = @ \/ s.sock # 0]
  /\ cbs' = c
  /\ Quiet

(* The queue after a datagram from p.                                      *)
Arrived(s, p) == IF _is_peer(s, p) THEN Append(s.buf, p) ELSE s.buf

(* The callback of start_recv: a datagram from anybody resumes the waiting *)
(* coroutine in any case.  Its branch for an error is never reached, since *)
(* lluv does not survive one (LluvReq!RecvErrorIsReported).                *)
on_recv ==
  /\ self.sock # 0 /\ self.active
  /\ Len(self.buf) < MaxBuf
  /\ \E p \in Peers :
       LET s == [self EXCEPT !.buf = Arrived(self, p)]
       IN  \/ "read" \in s.wait /\ Resume(s, cbs, Event("read"), TRUE, "nil")
           \/ "read" \notin s.wait /\ self' = s /\ UNCHANGED cbs /\ Quiet

on_send(x) ==
  /\ x.k = "write" /\ ~Dropped(x)
  /\ LET c == cbs \ {x}
     IN  \/ x.terminated /\ cbs' = c /\ UNCHANGED self /\ Quiet
         \/ ~x.terminated /\ OnUdpError(self, c)
         \/ ~x.terminated /\ ~x.deferred /\ Resume(self, c, x, TRUE, "nil")

Next ==
  \/ receivefrom \/ sendto \/ setsockname \/ setpeername \/ ClosedCall
  \/ close \/ settimeout \/ interrupt
  \/ on_timer \/ on_recv
  \/ \E x \in cbs : on_send(x) \/ LluvDrops(x)

Spec == Init /\ [][Next]_vars

(* A callback of sendto that lluv owes.                                    *)
Pending == \E x \in cbs : on_send(x) \/ LluvDrops(x)
=============================================================================
