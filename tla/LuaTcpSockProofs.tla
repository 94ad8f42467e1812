-------------------------- MODULE LuaTcpSockProofs --------------------------
(***************************************************************************)
(* Proofs about LuaTcpSock, for any number of addresses, chunks and        *)
(* clients, and whatever other coroutines do.  A coroutine yields in one   *)
(* place and is resumed from six, so the invariant says of each place what *)
(* is waited for (Waits), which handle is connected (Connects), which      *)
(* clients are queued (Clients), and, because callbacks outlive the calls  *)
(* that asked for them, which callbacks may still come (Owed): one that    *)
(* is not terminated belongs to the call the coroutine is in.              *)
(***************************************************************************)
EXTENDS LuaTcpSock, TLAPS

Places == {"run", "dead", "recv", "recvall", "send", "shutdown", "dns", "conn", "accept"}
Keys   == {"read", "write", "conn", "accept"}

TcpRec ==
  [class : {"TcpSock"}, co : Places, sock : Nat, timer : {"nil", "stopped", "on"},
   wait : SUBSET Keys, timeout : Timeouts, rawErr : BOOLEAN,
   use : {"new", "bound", "stream"}, up : Nat, made : Nat, buf : Nat, need : Nat,
   left : Nat, listens : BOOLEAN, list : Seq(Nat), clients : Nat, given : Nat]

Requests == {"write", "shutdown", "dns", "conn"}

(* Nobody terminates the close callback.                                   *)
CbRec == {x \in [k : Requests \cup {"close"}, h : Nat, terminated : BOOLEAN,
                 deferred : BOOLEAN] : x.k = "close" => ~x.terminated}

(* _wait and the timer.                                                    *)
Waits(s) ==
  /\ s.co # "dead" => s.wait = WaitsFor(s.co)
  /\ s.timer = "on" => s.wait # {}

(* The handle.                                                             *)
Connects(s) ==
  /\ s.co \in {"dns", "conn"} => s.use = "new"
  /\ s.use = "stream" /\ s.sock # 0 => s.up = s.sock

(* Clients g and those of l, of n that have come, in this order.           *)
Ordered(g, l, n) ==
  /\ g <= n
  /\ \A i \in 1..Len(l) : g < l[i] /\ l[i] <= n
  /\ \A i \in 1..Len(l) : \A j \in 1..Len(l) : i < j => l[i] < l[j]

Line(s) ==
  /\ Len(s.list) <= MAX_ACCEPT_COUNT + 1
  /\ Ordered(s.given, s.list, s.clients)

Clients(s) == Line(s) /\ (s.co = "accept" => s.list = << >>)

(* The callbacks that may still come.                                      *)
Owed(s, c) ==
  \A x \in c : x.k \in Requests /\ ~x.terminated => s.co \in Answers(x.k) \cup {"dead"}

Sound(s, c) ==
  /\ s \in TcpRec /\ c \in SUBSET CbRec
  /\ Waits(s) /\ Connects(s) /\ Clients(s) /\ Owed(s, c)

TcpInv == Sound(self, cbs) /\ WakesItsOwn

(***************************************************************************)
(* The initial states.                                                     *)
(***************************************************************************)
LEMMA InitTcpInv ==
  ASSUME Init
  PROVE  TcpInv
  <1>1. /\ BaseInit.co = "run" /\ BaseInit.sock = 1 /\ BaseInit.timer = "stopped"
        /\ BaseInit.wait = {} /\ BaseInit.timeout = "none" /\ BaseInit.rawErr = FALSE
    BY DEF BaseInit
  <1>2. TcpNew \in TcpRec
    <2>1. PICK p \in Places : p = "run"
      BY DEF Places
    <2>2. PICK w \in SUBSET Keys : w = {}
      OBVIOUS
    <2>3. PICK l \in Seq(Nat) : l = << >>
      <3>1. << >> \in Seq(Nat)
        OBVIOUS
      <3>. QED  BY <3>1
    <2>4. TcpNew = [class |-> "TcpSock", co |-> p, sock |-> 1, timer |-> "stopped",
                    wait |-> w, timeout |-> "none", rawErr |-> FALSE, use |-> "new",
                    up |-> 0, made |-> 1, buf |-> 0, need |-> 1, left |-> 0,
                    listens |-> FALSE, list |-> l, clients |-> 0, given |-> 0]
      BY <1>1, <2>1, <2>2, <2>3 DEF TcpNew
    <2>5. "none" \in Timeouts
      BY DEF Timeouts
    <2>. QED  BY <2>4, <2>5 DEF TcpRec
  <1>3. /\ TcpNew.co = "run" /\ TcpNew.wait = {} /\ TcpNew.timer = "stopped"
        /\ TcpNew.sock = 1 /\ TcpNew.use = "new"
        /\ TcpNew.list = << >> /\ TcpNew.given = 0 /\ TcpNew.clients = 0
    BY <1>1 DEF TcpNew
  <1>4. PICK n \in TcpRec : n = TcpNew
    BY <1>2
  <1>5. self = n \/ self = [n EXCEPT !.use = "stream", !.up = 1]
    BY <1>4 DEF Init
  <1>6. self \in TcpRec
    <2>1. [n EXCEPT !.use = "stream", !.up = 1] \in TcpRec
      BY DEF TcpRec
    <2>. QED  BY <1>5, <2>1
  <1>7. /\ self.co = "run" /\ self.wait = {} /\ self.timer = "stopped"
        /\ self.use = "stream" => self.up = self.sock
        /\ self.list = << >> /\ self.given = 0 /\ self.clients = 0
    BY <1>3, <1>4, <1>5 DEF TcpRec
  <1>8. cbs = {} /\ woke.by = "nobody"
    BY DEF Init, Nobody
  <1>9. Waits(self) /\ Connects(self)
    BY <1>7 DEF Waits, Connects, WaitsFor
  <1>10. Clients(self)
    BY <1>7, TcpAssumption DEF Clients, Line, Ordered
  <1>. QED  BY <1>6, <1>8, <1>9, <1>10 DEF TcpInv, Sound, Owed, WakesItsOwn

(***************************************************************************)
(* The coroutine between two calls.                                        *)
(***************************************************************************)
Resting(s) ==
  /\ s \in TcpRec
  /\ s.wait = {} /\ s.timer # "on"
  /\ s.use = "stream" /\ s.sock # 0 => s.up = s.sock
  /\ Line(s)

(* No callback of a request can come but those of kind k.                  *)
OnlyOwes(c, k) ==
  /\ c \in SUBSET CbRec
  /\ \A x \in c : x.k \in Requests /\ ~x.terminated => x.k = k

(* Fields that an operation leaves alone.                                  *)
SameHandle(t, s)  == t.sock = s.sock /\ t.use = s.use /\ t.up = s.up /\ t.made = s.made
SameClients(t, s) == t.list = s.list /\ t.given = s.given /\ t.clients = s.clients

LEMMA StopFacts ==
  ASSUME NEW s \in TcpRec
  PROVE  /\ Stop(s) \in TcpRec /\ Stop(s).wait = {} /\ Stop(s).timer # "on"
         /\ SameHandle(Stop(s), s) /\ SameClients(Stop(s), s) /\ Stop(s).co = s.co
         /\ Stop(s).left = s.left /\ Stop(s).buf = s.buf
  BY DEF Stop, TcpRec, Keys, SameHandle, SameClients

(* _stop ends the waiting.                                                 *)
LEMMA StopRests ==
  ASSUME NEW s, NEW c, Sound(s, c)
  PROVE  Resting(Stop(s))
  <1>1. /\ Stop(s) \in TcpRec /\ Stop(s).wait = {} /\ Stop(s).timer # "on"
        /\ SameHandle(Stop(s), s) /\ SameClients(Stop(s), s)
    BY StopFacts DEF Sound
  <1>. QED  BY <1>1 DEF Resting, Sound, Connects, Clients, Line, SameHandle, SameClients

LEMMA ReturnSound ==
  ASSUME NEW s, Resting(s), NEW c, OnlyOwes(c, "none")
  PROVE  Sound(Return(s), c)
  <1>. DEFINE t == Return(s)
  <1>1. s \in TcpRec
    BY DEF Resting
  <1>2. t \in TcpRec
    BY <1>1 DEF Return, TcpRec, Places
  <1>3. /\ t.co = "run" /\ t.wait = s.wait /\ t.timer = s.timer
        /\ SameHandle(t, s) /\ SameClients(t, s)
    BY <1>1 DEF Return, TcpRec, SameHandle, SameClients
  <1>. HIDE DEF t
  <1>4. Waits(t) /\ Connects(t) /\ Clients(t)
    BY <1>3 DEF Resting, Waits, WaitsFor, Connects, Clients, Line, SameHandle, SameClients
  <1>5. Owed(t, c)
    BY DEF Owed, OnlyOwes, Requests
  <1>. QED  BY <1>2, <1>4, <1>5 DEF Sound, OnlyOwes, t

(* Some fields of a resting coroutine may change.                          *)
LEMMA RestingBuf ==
  ASSUME NEW s, Resting(s), NEW n \in Nat
  PROVE  Resting([s EXCEPT !.buf = n]) /\ [s EXCEPT !.buf = n].co = s.co
  <1>. DEFINE t == [s EXCEPT !.buf = n]
  <1>1. s \in TcpRec
    BY DEF Resting
  <1>2. t \in TcpRec
    BY <1>1 DEF TcpRec
  <1>3. /\ t.wait = s.wait /\ t.timer = s.timer /\ t.co = s.co
        /\ SameHandle(t, s) /\ SameClients(t, s)
    BY <1>1 DEF TcpRec, SameHandle, SameClients
  <1>. HIDE DEF t
  <1>4. Resting(t)
    BY <1>2, <1>3 DEF Resting, Line, SameHandle, SameClients
  <1>. QED  BY <1>3, <1>4 DEF t

LEMMA RestingLeft ==
  ASSUME NEW s, Resting(s), NEW n \in Nat
  PROVE  /\ Resting([s EXCEPT !.left = n]) /\ [s EXCEPT !.left = n].left = n
         /\ [s EXCEPT !.left = n].use = s.use
  <1>. DEFINE t == [s EXCEPT !.left = n]
  <1>1. s \in TcpRec
    BY DEF Resting
  <1>2. t \in TcpRec
    BY <1>1 DEF TcpRec
  <1>3. /\ t.wait = s.wait /\ t.timer = s.timer /\ t.left = n
        /\ SameHandle(t, s) /\ SameClients(t, s)
    BY <1>1 DEF TcpRec, SameHandle, SameClients
  <1>. HIDE DEF t
  <1>4. Resting(t) /\ t.use = s.use
    BY <1>2, <1>3 DEF Resting, Line, SameHandle, SameClients
  <1>. QED  BY <1>3, <1>4 DEF t

LEMMA RestingUse ==
  ASSUME NEW s, Resting(s), NEW u \in {"bound", "stream"},
         u = "stream" /\ s.sock # 0 => s.up = s.sock
  PROVE  Resting([s EXCEPT !.use = u]) /\ [s EXCEPT !.use = u].co = s.co
  <1>. DEFINE t == [s EXCEPT !.use = u]
  <1>1. s \in TcpRec
    BY DEF Resting
  <1>2. t \in TcpRec
    BY <1>1 DEF TcpRec
  <1>3. /\ t.wait = s.wait /\ t.timer = s.timer
        /\ t.sock = s.sock /\ t.up = s.up /\ t.use = u /\ t.co = s.co /\ SameClients(t, s)
    BY <1>1 DEF TcpRec, SameClients
  <1>. HIDE DEF t
  <1>4. Resting(t)
    BY <1>2, <1>3 DEF Resting, Line, SameClients
  <1>. QED  BY <1>3, <1>4 DEF t

LEMMA RestingReset ==
  ASSUME NEW s, Resting(s), s.use = "new"
  PROVE  /\ Resting(ResetHandle(s)) /\ ResetHandle(s).use = "new"
         /\ ResetHandle(s).left = s.left /\ ResetHandle(s).co = s.co
  <1>. DEFINE t == ResetHandle(s)
  <1>1. s \in TcpRec /\ s.made \in Nat
    BY DEF Resting, TcpRec
  <1>2. t \in TcpRec
    <2>1. PICK m \in Nat : m = s.made + 1
      BY <1>1
    <2>2. t = [s EXCEPT !.sock = m, !.made = m, !.up = 0]
      BY <1>1, <2>1 DEF ResetHandle
    <2>3. PICK q \in TcpRec : q = [s EXCEPT !.sock = m]
      BY <1>1 DEF TcpRec
    <2>4. PICK r \in TcpRec : r = [q EXCEPT !.made = m]
      BY DEF TcpRec
    <2>5. [r EXCEPT !.up = 0] \in TcpRec
      BY DEF TcpRec
    <2>6. t = [r EXCEPT !.up = 0]
      BY <2>2, <2>3, <2>4
    <2>. QED  BY <2>5, <2>6
  <1>3. /\ t.wait = s.wait /\ t.timer = s.timer /\ t.use = s.use /\ t.left = s.left
        /\ t.co = s.co /\ SameClients(t, s)
    BY <1>1 DEF ResetHandle, TcpRec, SameClients
  <1>. HIDE DEF t
  <1>4. Resting(t)
    BY <1>2, <1>3 DEF Resting, Line, SameClients
  <1>. QED  BY <1>3, <1>4 DEF t

(***************************************************************************)
(* A call that waits.                                                      *)
(***************************************************************************)
Waiting == {"recv", "recvall", "send", "dns", "conn", "accept"}

LEMMA StartFacts ==
  ASSUME NEW s, Resting(s), NEW p \in Waiting
  PROVE  LET t == Start(s, p)
         IN  /\ t \in TcpRec /\ SameHandle(t, s) /\ SameClients(t, s) /\ t.left = s.left
             /\ StartRaises(s) => t.co = "dead"
             /\ ~StartRaises(s) => t.co = p /\ t.wait = WaitsFor(p)
             /\ t.timer = "on" => t.wait # {}
  <1>. DEFINE t == Start(s, p)
  <1>1. s \in TcpRec /\ s.wait = {} /\ s.timer # "on"
    BY DEF Resting
  <1>2. PICK w \in SUBSET Keys : w = WaitsFor(p) /\ w # {}
    BY DEF WaitsFor, Waiting, Keys
  <1>3. CASE StartRaises(s)
    <2>1. t = [s EXCEPT !.co = "dead"]
      BY <1>3 DEF Start
    <2>. HIDE DEF t
    <2>2. t \in TcpRec
      BY <1>1, <2>1 DEF TcpRec, Places
    <2>3. /\ SameHandle(t, s) /\ SameClients(t, s) /\ t.left = s.left /\ t.co = "dead"
          /\ t.timer = s.timer
      BY <1>1, <2>1 DEF TcpRec, SameHandle, SameClients
    <2>. QED  BY <1>1, <1>3, <2>2, <2>3 DEF t
  <1>4. CASE ~StartRaises(s)
    <2>0. PICK o \in {"nil", "stopped", "on"} :
                 o = IF s.timeout = "whole" THEN "on" ELSE s.timer
      BY <1>1 DEF TcpRec
    <2>1. t = [s EXCEPT !.timer = o, !.wait = w, !.co = p]
      BY <1>1, <1>2, <1>4, <2>0 DEF Start
    <2>. HIDE DEF t
    <2>2. t \in TcpRec
      BY <1>1, <2>1 DEF TcpRec, Places, Waiting
    <2>3. /\ SameHandle(t, s) /\ SameClients(t, s) /\ t.left = s.left /\ t.co = p
          /\ t.wait = w
      BY <1>1, <2>1 DEF TcpRec, SameHandle, SameClients
    <2>. QED  BY <1>2, <1>4, <2>2, <2>3 DEF t
  <1>. QED  BY <1>3, <1>4

(* _start and the yield after it.                                          *)
LEMMA StartSound ==
  ASSUME NEW s, Resting(s), NEW p \in Waiting, NEW c \in SUBSET CbRec,
         p \in {"dns", "conn"} => s.use = "new",
         p = "accept" => s.list = << >>,
         StartRaises(s) \/ \A x \in c : x.k \in Requests /\ ~x.terminated => p \in Answers(x.k)
  PROVE  Sound(Start(s, p), c)
  <1>. DEFINE t == Start(s, p)
  <1>1. /\ t \in TcpRec /\ SameHandle(t, s) /\ SameClients(t, s)
        /\ StartRaises(s) => t.co = "dead"
        /\ ~StartRaises(s) => t.co = p /\ t.wait = WaitsFor(p)
        /\ t.timer = "on" => t.wait # {}
    BY StartFacts
  <1>. HIDE DEF t
  <1>2. Waits(t)
    BY <1>1 DEF Waits
  <1>3. Connects(t)
    BY <1>1 DEF Connects, Resting, SameHandle
  <1>4. Clients(t)
    BY <1>1 DEF Clients, Line, Resting, SameClients
  <1>5. Owed(t, c)
    BY <1>1 DEF Owed
  <1>. QED  BY <1>1, <1>2, <1>3, <1>4, <1>5 DEF Sound, t

(* An error in a call: only what does not depend on the place matters.     *)
LEMMA DeadSound ==
  ASSUME NEW s \in TcpRec, NEW c \in SUBSET CbRec,
         s.timer = "on" => s.wait # {},
         s.use = "stream" /\ s.sock # 0 => s.up = s.sock, Line(s)
  PROVE  Sound(Raise(s), c)
  <1>. DEFINE t == Raise(s)
  <1>1. t \in TcpRec
    BY DEF Raise, TcpRec, Places
  <1>2. /\ t.co = "dead" /\ t.wait = s.wait /\ t.timer = s.timer
        /\ SameHandle(t, s) /\ SameClients(t, s)
    BY DEF Raise, TcpRec, SameHandle, SameClients
  <1>. HIDE DEF t
  <1>3. Waits(t) /\ Connects(t) /\ Clients(t) /\ Owed(t, c)
    BY <1>2 DEF Waits, Connects, Clients, Line, Owed, SameHandle, SameClients
  <1>. QED  BY <1>1, <1>3 DEF Sound, t

(***************************************************************************)
(* Callbacks.                                                              *)
(***************************************************************************)

(* What may still come, by the place where the coroutine is.               *)
LEMMA OwedFacts ==
  ASSUME NEW s, NEW c, Sound(s, c)
  PROVE  /\ s.co = "send"     => OnlyOwes(c, "write")
         /\ s.co = "shutdown" => OnlyOwes(c, "shutdown")
         /\ s.co = "dns"      => OnlyOwes(c, "dns")
         /\ s.co = "conn"     => OnlyOwes(c, "conn")
         /\ s.co \in {"run", "recv", "recvall", "accept"} => OnlyOwes(c, "none")
  BY DEF Sound, Owed, OnlyOwes, Answers, Requests

(* terminated = true, when the call has returned.                          *)
LEMMA TerminatedFacts ==
  ASSUME NEW c, NEW k, k # "close", OnlyOwes(c, k)
  PROVE  OnlyOwes(Terminated(c, k), "none")
  <1>1. ASSUME NEW y \in Terminated(c, k)
        PROVE  y \in CbRec /\ (y.k \in Requests => y.terminated)
    <2>1. PICK x \in c : y = IF x.k = k THEN [x EXCEPT !.terminated = TRUE] ELSE x
      BY DEF Terminated
    <2>2. x \in CbRec /\ (x.k \in Requests /\ ~x.terminated => x.k = k)
      BY DEF OnlyOwes
    <2>3. CASE x.k = k
      <3>1. y = [x EXCEPT !.terminated = TRUE]
        BY <2>1, <2>3
      <3>2. y.k = k /\ y.terminated
        BY <2>2, <2>3, <3>1 DEF CbRec
      <3>. QED  BY <2>2, <3>1, <3>2 DEF CbRec
    <2>4. CASE x.k # k
      BY <2>1, <2>2, <2>4
    <2>. QED  BY <2>3, <2>4
  <1>. QED  BY <1>1 DEF OnlyOwes

(* A callback is asked for.                                                *)
LEMMA NewCallback ==
  ASSUME NEW k \in Requests \cup {"close"}, NEW h \in Nat, NEW d \in BOOLEAN
  PROVE  Callback(k, h, d) \in CbRec /\ Callback(k, h, d).k = k
  BY DEF Callback, CbRec

(* The next address of _connect.                                           *)
LEMMA AttemptSound ==
  ASSUME NEW s, Resting(s), s.use = "new", s.left \in Nat \ {0},
         NEW c, OnlyOwes(c, "conn"), Attempt(s, c)
  PROVE  Sound(self', cbs')
  <1>. DEFINE t == Start(s, "conn")
  <1>1. "conn" \in Waiting /\ c \in SUBSET CbRec
    BY DEF Waiting, OnlyOwes
  <1>2. /\ t \in TcpRec /\ SameHandle(t, s) /\ SameClients(t, s) /\ t.left = s.left
        /\ t.timer = "on" => t.wait # {}
    BY <1>1, StartFacts
  <1>3. CASE s.sock = 0 \/ StartRaises(s)
    <2>1. self' = Raise(t) /\ cbs' = c
      BY <1>3 DEF Attempt
    <2>. HIDE DEF t
    <2>2. Line(t) /\ (t.use = "stream" /\ t.sock # 0 => t.up = t.sock)
      BY <1>2 DEF Resting, Line, SameHandle, SameClients
    <2>. QED  BY <1>1, <1>2, <2>1, <2>2, DeadSound
  <1>4. CASE ~(s.sock = 0 \/ StartRaises(s))
    <2>1. PICK failed \in BOOLEAN :
            /\ self' = [t EXCEPT !.left = @ - 1]
            /\ cbs' = c \cup {Callback("conn", s.sock, failed)}
      BY <1>4 DEF Attempt
    <2>2. PICK n \in Nat : n = t.left - 1
      BY <1>2
    <2>3. PICK x \in CbRec : x = Callback("conn", s.sock, failed) /\ x.k = "conn"
      <3>1. s.sock \in Nat
        BY DEF Resting, TcpRec
      <3>. QED  BY <3>1, NewCallback DEF Requests
    <2>4. self' = [t EXCEPT !.left = n] /\ cbs' = c \cup {x}
      BY <2>1, <2>2, <2>3
    <2>5. Sound(t, c \cup {x})
      <3>1. \A y \in c \cup {x} : y.k \in Requests /\ ~y.terminated => "conn" \in Answers(y.k)
        BY <2>3 DEF OnlyOwes, Answers
      <3>2. PICK p \in Waiting : p = "conn"
        BY <1>1
      <3>3. PICK d \in SUBSET CbRec : d = c \cup {x}
        BY <1>1
      <3>. QED  BY <3>1, <3>2, <3>3, StartSound
    <2>. HIDE DEF t
    <2>6. self' \in TcpRec
      BY <1>2, <2>4 DEF TcpRec
    <2>7. /\ self'.co = t.co /\ self'.wait = t.wait /\ self'.timer = t.timer
          /\ SameHandle(self', t) /\ SameClients(self', t)
      BY <1>2, <2>4 DEF TcpRec, SameHandle, SameClients
    <2>. QED  BY <2>4, <2>5, <2>6, <2>7
              DEF Sound, Waits, Connects, Clients, Line, Owed, SameHandle, SameClients
  <1>. QED  BY <1>3, <1>4

(* A call returns.                                                         *)
LEMMA ReturnsSound ==
  ASSUME NEW s, Resting(s), NEW c, OnlyOwes(c, "none"), NEW op, NEW res,
         Returns(s, c, op, res)
  PROVE  Sound(self', cbs')
  BY ReturnSound DEF Returns

(* _resume, wherever the coroutine is.                                     *)
LEMMA ResumeSound ==
  ASSUME NEW s, NEW c, Sound(s, c), NEW x, NEW ok \in BOOLEAN, NEW err,
         ok /\ s.co = "conn" => s.sock = 0 \/ s.up = s.sock,
         Resume(s, c, x, ok, err)
  PROVE  /\ Sound(self', cbs')
         /\ woke' = [by |-> x.k, at |-> s.co, terminated |-> x.terminated]
  <1>0. woke' = [by |-> x.k, at |-> s.co, terminated |-> x.terminated]
    BY DEF Resume
  <1>. SUFFICES Sound(self', cbs')
    BY <1>0
  <1>1. PICK t : t = Stop(s)
    OBVIOUS
  <1>2. s \in TcpRec /\ c \in SUBSET CbRec
    BY DEF Sound
  <1>3. /\ Resting(t) /\ SameHandle(t, s) /\ SameClients(t, s) /\ t.co = s.co
        /\ t.left = s.left /\ t.buf = s.buf /\ t.buf \in Nat
    <2>1. Resting(t)
      BY <1>1, StopRests
    <2>2. t.buf \in Nat
      BY <2>1 DEF Resting, TcpRec
    <2>. QED  BY <1>1, <1>2, <2>1, <2>2, StopFacts
  <1>4. CASE s.co \in {"recv", "recvall"} /\ GoOnReceiving(s, c, ok, err)
    <2>1. OnlyOwes(c, "none")
      BY <1>4, OwedFacts
    <2>2. CASE self' = s /\ cbs' = c
      BY <2>2
    <2>3. ASSUME NEW n \in Nat, NEW res, Returns([t EXCEPT !.buf = n], c, "receive", res)
          PROVE  Sound(self', cbs')
      <3>1. Resting([t EXCEPT !.buf = n])
        BY <1>3, RestingBuf
      <3>2. PICK u : u = [t EXCEPT !.buf = n]
        OBVIOUS
      <3>3. Returns(u, c, "receive", res) /\ Resting(u)
        BY <2>3, <3>1, <3>2
      <3>. QED  BY <2>1, <3>3, ReturnsSound
    <2>4. s.need \in Nat /\ s.buf \in Nat
      BY <1>2 DEF TcpRec
    <2>5. CASE /\ s.buf >= s.need
               /\ Returns([t EXCEPT !.buf = @ - s.need], c, "receive", "ok")
      <3>1. PICK n \in Nat : n = t.buf - s.need
        BY <1>3, <2>4, <2>5
      <3>2. Returns([t EXCEPT !.buf = n], c, "receive", "ok")
        BY <2>5, <3>1
      <3>. QED  BY <2>3, <3>2
    <2>6. CASE Returns([t EXCEPT !.buf = 0], c, "receive", err)
      BY <2>3, <2>6
    <2>7. CASE Returns([t EXCEPT !.buf = IF err = "interrupted" THEN @ ELSE 0],
                       c, "receive", IF err = "closed" THEN "ok" ELSE err)
      <3>1. PICK n \in Nat : n = IF err = "interrupted" THEN t.buf ELSE 0
        BY <1>3
      <3>2. Returns([t EXCEPT !.buf = n], c, "receive", IF err = "closed" THEN "ok" ELSE err)
        BY <2>7, <3>1
      <3>. QED  BY <2>3, <3>2
    <2>. QED  BY <1>1, <1>4, <2>2, <2>5, <2>6, <2>7 DEF GoOnReceiving
  <1>5. CASE s.co \in {"dns", "conn"} /\ GoOnConnecting(s, c, ok, err)
    <2>0. t.use = "new" /\ t.left \in Nat
      BY <1>2, <1>3, <1>5 DEF Sound, Connects, SameHandle, TcpRec
    <2>1. CASE s.co = "dns" /\ \E n \in 1..MaxAddr :
                 Attempt([t EXCEPT !.left = n], Terminated(c, "dns"))
      <3>1. PICK n \in 1..MaxAddr : Attempt([t EXCEPT !.left = n], Terminated(c, "dns"))
        BY <2>1
      <3>2. PICK d : d = Terminated(c, "dns")
        OBVIOUS
      <3>3. OnlyOwes(d, "conn")
        BY <2>1, <3>2, OwedFacts, TerminatedFacts DEF OnlyOwes, Requests
      <3>4. PICK u : u = [t EXCEPT !.left = n]
        OBVIOUS
      <3>5. Resting(u) /\ u.use = "new" /\ u.left \in Nat \ {0}
        BY <1>3, <2>0, <3>4, RestingLeft, TcpAssumption
      <3>6. Attempt(u, d)
        BY <3>1, <3>2, <3>4
      <3>. QED  BY <3>3, <3>5, <3>6, AttemptSound
    <2>2. CASE s.co = "dns" /\ Returns(t, Terminated(c, "dns"), "connect", err)
      BY <1>3, <2>2, OwedFacts, TerminatedFacts, ReturnsSound
    <2>3. CASE /\ s.co = "conn" /\ ok
               /\ Returns([t EXCEPT !.use = "stream"], Terminated(c, "conn"),
                          "connect", "ok")
      <3>1. PICK u : u = [t EXCEPT !.use = "stream"]
        OBVIOUS
      <3>2. Resting(u)
        <4>1. t.sock # 0 => t.up = t.sock
          BY <1>3, <2>3 DEF SameHandle
        <4>. QED  BY <1>3, <3>1, <4>1, RestingUse
      <3>3. Returns(u, Terminated(c, "conn"), "connect", "ok")
        BY <2>3, <3>1
      <3>. QED  BY <2>3, <3>2, <3>3, OwedFacts, TerminatedFacts, ReturnsSound
    <2>4. CASE s.co = "conn" /\ s.left > 0 /\ Attempt(ResetHandle(t), c)
      <3>1. PICK u : u = ResetHandle(t)
        OBVIOUS
      <3>2. Resting(u) /\ u.use = "new" /\ u.left \in Nat \ {0}
        BY <1>3, <2>0, <2>4, <3>1, RestingReset
      <3>3. OnlyOwes(c, "conn") /\ Attempt(u, c)
        BY <2>4, <3>1, OwedFacts
      <3>. QED  BY <3>2, <3>3, AttemptSound
    <2>5. CASE s.co = "conn" /\ Returns(ResetHandle(t), Terminated(c, "conn"),
                                        "connect", err)
      <3>1. Resting(ResetHandle(t))
        BY <1>3, <2>0, RestingReset
      <3>. QED  BY <2>5, <3>1, OwedFacts, TerminatedFacts, ReturnsSound
    <2>. QED  BY <1>1, <1>5, <2>1, <2>2, <2>3, <2>4, <2>5 DEF GoOnConnecting
  <1>6. CASE s.co \in {"send", "shutdown"} /\ GoOnSending(s, c, ok)
    <2>1. PICK res : \/ s.co = "send" /\ Returns(t, Terminated(c, "write"), "send", res)
                     \/ s.co = "shutdown" /\ Returns(s, Terminated(c, "shutdown"), "shutdown", res)
      BY <1>1, <1>6 DEF GoOnSending
    <2>2. CASE s.co = "send" /\ Returns(t, Terminated(c, "write"), "send", res)
      BY <1>3, <2>2, OwedFacts, TerminatedFacts, ReturnsSound
    <2>3. CASE s.co = "shutdown" /\ Returns(s, Terminated(c, "shutdown"), "shutdown", res)
      <3>1. s.wait = {} /\ s.timer # "on"
        BY <2>3 DEF Sound, Waits, WaitsFor
      <3>2. Resting(s)
        BY <3>1 DEF Sound, Connects, Clients, Resting
      <3>. QED  BY <2>3, <3>2, OwedFacts, TerminatedFacts, ReturnsSound
    <2>. QED  BY <2>1, <2>2, <2>3
  <1>7. CASE GoOnAccepting(s, c, ok, err)
    <2>1. PICK res : s.co = "accept" /\ Returns(t, c, "accept", res)
      BY <1>1, <1>7 DEF GoOnAccepting
    <2>. QED  BY <1>3, <2>1, OwedFacts, ReturnsSound
  <1>8. CASE self' = s /\ cbs' = c
    BY <1>8
  <1>. QED  BY <1>4, <1>5, <1>6, <1>7, <1>8 DEF Resume

(***************************************************************************)
(* What keeps the coroutine where it is.                                   *)
(***************************************************************************)

(* The handle may go, the timer may stop, other fields may change.         *)
LEMMA StaySound ==
  ASSUME NEW s, NEW c, Sound(s, c), NEW t \in TcpRec,
         t.co = s.co, t.wait = s.wait, t.timer = s.timer \/ t.timer # "on",
         t.use = s.use, t.sock = 0 \/ (t.sock = s.sock /\ t.up \in {s.up, s.sock}),
         SameClients(t, s)
  PROVE  Sound(t, c)
  <1>1. Waits(t)
    BY DEF Sound, Waits
  <1>2. Connects(t)
    BY DEF Sound, Connects
  <1>3. Clients(t) /\ Owed(t, c) /\ c \in SUBSET CbRec
    BY DEF Sound, Clients, Line, Owed, SameClients
  <1>. QED  BY <1>1, <1>2, <1>3 DEF Sound

(* A callback has come, or can no longer do anything.                      *)
LEMMA FewerSound ==
  ASSUME NEW s, NEW c, Sound(s, c), NEW d \in SUBSET c
  PROVE  Sound(s, d)
  BY DEF Sound, Owed

(* The coroutine runs.                                                     *)
LEMMA RunFacts ==
  ASSUME NEW s, NEW c, Sound(s, c), s.co = "run"
  PROVE  Resting(s) /\ OnlyOwes(c, "none")
  <1>1. s.wait = {} /\ s.timer # "on"
    BY DEF Sound, Waits, WaitsFor
  <1>. QED  BY <1>1, OwedFacts DEF Sound, Resting, Connects, Clients

LEMMA RunSound ==
  ASSUME NEW s, Resting(s), s.co = "run", NEW c, OnlyOwes(c, "none")
  PROVE  Sound(s, c)
  <1>1. Waits(s) /\ Connects(s) /\ Clients(s)
    BY DEF Resting, Waits, WaitsFor, Connects, Clients
  <1>2. Owed(s, c)
    BY DEF Owed, OnlyOwes, Requests
  <1>. QED  BY <1>1, <1>2 DEF Sound, Resting, OnlyOwes

(* _on_io_error                                                            *)
LEMMA IoErrorSound ==
  ASSUME NEW s, NEW c, Sound(s, c), _on_io_error(s, c)
  PROVE  Sound(self', cbs') /\ woke' = Nobody
  <1>1. self' = OnIoError(s) /\ cbs' = OnIoErrorCbs(s, c) /\ woke' = Nobody
    BY DEF _on_io_error, Quiet
  <1>2. s \in TcpRec /\ c \in SUBSET CbRec
    BY DEF Sound
  <1>3. CASE s.sock = 0
    BY <1>1, <1>3 DEF OnIoError, OnIoErrorCbs
  <1>4. CASE s.sock # 0
    <2>1. PICK t : t = [s EXCEPT !.sock = 0, !.timer = "nil", !.rawErr = TRUE]
      OBVIOUS
    <2>2. t \in TcpRec
      BY <1>2, <2>1 DEF TcpRec
    <2>3. /\ t.co = s.co /\ t.wait = s.wait /\ t.timer # "on" /\ t.use = s.use
          /\ t.sock = 0 /\ SameClients(t, s)
      BY <1>2, <2>1 DEF TcpRec, SameClients
    <2>4. Sound(t, c)
      BY <2>2, <2>3, StaySound
    <2>5. PICK x \in CbRec : x = Callback("close", s.sock, FALSE) /\ x.k = "close"
      <3>1. s.sock \in Nat
        BY <1>2 DEF TcpRec
      <3>. QED  BY <3>1, NewCallback
    <2>6. self' = t /\ cbs' = c \cup {x}
      BY <1>1, <1>4, <2>1, <2>5 DEF OnIoError, OnIoErrorCbs
    <2>7. Sound(t, c \cup {x})
      BY <2>4, <2>5 DEF Sound, Owed, Requests
    <2>. QED  BY <1>1, <2>6, <2>7
  <1>. QED  BY <1>1, <1>3, <1>4

(* Who resumed the coroutine.                                              *)
LEMMA NobodyWoke ==
  ASSUME woke' = Nobody
  PROVE  WakesItsOwn'
  BY DEF Nobody, WakesItsOwn

LEMMA OwnWoke ==
  ASSUME NEW k, NEW p, NEW b, woke' = [by |-> k, at |-> p, terminated |-> b],
         p # "dead" => p \in Answers(k) /\ ~b
  PROVE  WakesItsOwn'
  BY DEF WakesItsOwn

(* An event that concerns whoever waits.                                   *)
LEMMA EventFacts ==
  ASSUME NEW k
  PROVE  Event(k).k = k /\ ~Event(k).terminated
  BY DEF Event, Callback

(* Who waits, by what _wait says.                                          *)
LEMMA WaitFacts ==
  ASSUME NEW s, NEW c, Sound(s, c), s.co # "dead"
  PROVE  /\ s.wait # {} => s.co \in Waiting
         /\ "read" \in s.wait => s.co \in {"recv", "recvall"}
         /\ "accept" \in s.wait => s.co = "accept"
  <1>1. s.wait = WaitsFor(s.co) /\ s.co \in Places
    BY DEF Sound, Waits, TcpRec
  <1>. QED  BY <1>1 DEF WaitsFor, Places, Waiting

(***************************************************************************)
(* The actions of the program.                                             *)
(***************************************************************************)
LEMMA ReceiveKeeps ==
  ASSUME TcpInv, receive
  PROVE  Sound(self', cbs')
  <1>1. Sound(self, cbs) /\ self.co = "run" /\ cbs' = cbs
    BY DEF TcpInv, receive
  <1>2. Resting(self) /\ OnlyOwes(cbs, "none") /\ self \in TcpRec /\ cbs \in SUBSET CbRec
    BY <1>1, RunFacts DEF Sound
  <1>3. \A x \in cbs : ~(x.k \in Requests /\ ~x.terminated)
    BY <1>2 DEF OnlyOwes, Requests
  <1>4. CASE self' = Start(self, "recvall")
    <2>1. PICK p \in Waiting : p = "recvall"
      BY DEF Waiting
    <2>2. Sound(Start(self, p), cbs)
      BY <1>2, <1>3, <2>1, StartSound
    <2>. QED  BY <1>1, <1>4, <2>1, <2>2
  <1>5. ASSUME NEW n \in 1..MaxBuf, self.buf >= n, self' = Stop([self EXCEPT !.buf = @ - n])
        PROVE  Sound(self', cbs')
    <2>1. PICK m \in Nat : m = self.buf - n
      <3>1. self.buf \in Nat
        BY <1>2 DEF TcpRec
      <3>. QED  BY <1>5, <3>1
    <2>2. PICK t : t = [self EXCEPT !.buf = m]
      OBVIOUS
    <2>3. Resting(t) /\ t.co = "run"
      BY <1>1, <1>2, <2>2, RestingBuf
    <2>4. self' = Stop(t)
      BY <1>5, <2>1, <2>2
    <2>5. Sound(t, cbs) /\ t \in TcpRec
      BY <1>2, <2>3, RunSound DEF Resting
    <2>6. Resting(Stop(t)) /\ Stop(t).co = "run"
      BY <2>3, <2>5, StopRests, StopFacts
    <2>. QED  BY <1>1, <1>2, <2>4, <2>6, RunSound
  <1>6. ASSUME NEW n \in 1..MaxBuf, self' = Start([self EXCEPT !.need = n], "recv")
        PROVE  Sound(self', cbs')
    <2>1. PICK t : t = [self EXCEPT !.need = n]
      OBVIOUS
    <2>2. t \in TcpRec
      <3>1. n \in Nat
        BY TcpAssumption
      <3>. QED  BY <1>2, <2>1, <3>1 DEF TcpRec
    <2>3. /\ t.wait = self.wait /\ t.timer = self.timer
          /\ SameHandle(t, self) /\ SameClients(t, self)
      BY <1>2, <2>1 DEF TcpRec, SameHandle, SameClients
    <2>4. Resting(t)
      BY <1>2, <2>2, <2>3 DEF Resting, Line, SameHandle, SameClients
    <2>5. PICK p \in Waiting : p = "recv"
      BY DEF Waiting
    <2>6. Sound(Start(t, p), cbs)
      BY <1>2, <1>3, <2>4, <2>5, StartSound
    <2>. QED  BY <1>1, <1>6, <2>1, <2>5, <2>6
  <1>. QED  BY <1>4, <1>5, <1>6 DEF receive

LEMMA SendKeeps ==
  ASSUME TcpInv, send
  PROVE  Sound(self', cbs')
  <1>1. Sound(self, cbs) /\ self.co = "run" /\ self' = Start(self, "send")
    BY DEF TcpInv, send
  <1>2. Resting(self) /\ OnlyOwes(cbs, "none") /\ self \in TcpRec /\ cbs \in SUBSET CbRec
    BY <1>1, RunFacts DEF Sound
  <1>3. \A x \in cbs : ~(x.k \in Requests /\ ~x.terminated)
    BY <1>2 DEF OnlyOwes, Requests
  <1>4. PICK p \in Waiting : p = "send"
    BY DEF Waiting
  <1>5. CASE StartRaises(self)
    <2>1. cbs' = cbs
      BY <1>5 DEF send
    <2>2. Sound(Start(self, p), cbs)
      BY <1>2, <1>3, <1>4, StartSound
    <2>. QED  BY <1>1, <1>4, <2>1, <2>2
  <1>6. CASE ~StartRaises(self)
    <2>1. PICK failed \in BOOLEAN : cbs' = cbs \cup {Callback("write", self.sock, failed)}
      BY <1>6 DEF send
    <2>2. PICK x \in CbRec : x = Callback("write", self.sock, failed) /\ x.k = "write"
      <3>1. self.sock \in Nat
        BY <1>2 DEF TcpRec
      <3>. QED  BY <3>1, NewCallback DEF Requests
    <2>3. PICK d \in SUBSET CbRec : d = cbs \cup {x} /\ cbs' = d
      BY <1>2, <2>1, <2>2
    <2>4. \A y \in d : y.k \in Requests /\ ~y.terminated => p \in Answers(y.k)
      BY <1>3, <1>4, <2>2, <2>3 DEF Answers
    <2>5. Sound(Start(self, p), d)
      BY <1>2, <1>4, <2>4, StartSound
    <2>. QED  BY <1>1, <1>4, <2>3, <2>5
  <1>. QED  BY <1>5, <1>6

LEMMA ConnectKeeps ==
  ASSUME TcpInv, connect
  PROVE  Sound(self', cbs')
  <1>1. /\ Sound(self, cbs) /\ self.co = "run" /\ self' = Start(self, "dns")
        /\ self.use = "new"
        /\ cbs' = IF StartRaises(self) THEN cbs ELSE cbs \cup {Event("dns")}
    BY DEF TcpInv, connect
  <1>2. Resting(self) /\ OnlyOwes(cbs, "none") /\ cbs \in SUBSET CbRec
    BY <1>1, RunFacts DEF Sound
  <1>3. \A x \in cbs : ~(x.k \in Requests /\ ~x.terminated)
    BY <1>2 DEF OnlyOwes, Requests
  <1>4. PICK p \in Waiting : p = "dns"
    BY DEF Waiting
  <1>5. PICK x \in CbRec : x = Event("dns") /\ x.k = "dns"
    BY NewCallback DEF Requests, Event
  <1>6. \A y \in cbs \cup {x} : y.k \in Requests /\ ~y.terminated => p \in Answers(y.k)
    BY <1>3, <1>4, <1>5 DEF Answers
  <1>7. PICK d \in SUBSET CbRec : d = cbs' /\ d \in SUBSET (cbs \cup {x})
    BY <1>1, <1>2, <1>5
  <1>8. Sound(Start(self, p), d)
    BY <1>1, <1>2, <1>4, <1>6, <1>7, StartSound
  <1>. QED  BY <1>1, <1>4, <1>7, <1>8

LEMMA BindKeeps ==
  ASSUME TcpInv, bind
  PROVE  Sound(self', cbs')
  <1>1. Sound(self, cbs) /\ self.co = "run" /\ cbs' = cbs /\ self.use = "new"
    BY DEF TcpInv, bind
  <1>2. Resting(self) /\ OnlyOwes(cbs, "none")
    BY <1>1, RunFacts
  <1>3. CASE self' = [self EXCEPT !.use = "bound"]
    <2>1. PICK u \in {"bound", "stream"} : u = "bound"
      OBVIOUS
    <2>2. PICK t : t = [self EXCEPT !.use = u]
      OBVIOUS
    <2>3. Resting(t) /\ t.co = "run"
      BY <1>1, <1>2, <2>1, <2>2, RestingUse
    <2>. QED  BY <1>1, <1>2, <1>3, <2>1, <2>2, <2>3, RunSound
  <1>4. CASE self' = ResetHandle(self)
    BY <1>1, <1>2, <1>4, RestingReset, RunSound
  <1>. QED  BY <1>3, <1>4 DEF bind

(* The first of the queue leaves.                                          *)
LEMMA NextClient ==
  ASSUME NEW g \in Nat, NEW l \in Seq(Nat), NEW n \in Nat, l # << >>, Ordered(g, l, n)
  PROVE  /\ Head(l) \in Nat /\ Tail(l) \in Seq(Nat) /\ Len(Tail(l)) = Len(l) - 1
         /\ Ordered(Head(l), Tail(l), n)
  <1>1. /\ Head(l) = l[1] /\ Head(l) \in Nat /\ Tail(l) \in Seq(Nat)
        /\ Len(Tail(l)) = Len(l) - 1 /\ Len(l) > 0 /\ Len(l) \in Nat
    OBVIOUS
  <1>2. \A i \in 1..Len(Tail(l)) : Tail(l)[i] = l[i + 1] /\ i + 1 \in 1..Len(l) /\ 1 < i + 1
    BY <1>1
  <1>3. 1 \in 1..Len(l)
    BY <1>1
  <1>4. \A i \in 1..Len(Tail(l)) : Head(l) < Tail(l)[i] /\ Tail(l)[i] <= n
    BY <1>1, <1>2, <1>3 DEF Ordered
  <1>5. \A i \in 1..Len(Tail(l)) : \A j \in 1..Len(Tail(l)) :
          i < j => Tail(l)[i] < Tail(l)[j]
    <2>1. \A i \in 1..Len(Tail(l)) : \A j \in 1..Len(Tail(l)) : i < j => i + 1 < j + 1
      BY <1>1
    <2>. QED  BY <1>2, <2>1 DEF Ordered
  <1>6. Head(l) <= n
    BY <1>1, <1>3 DEF Ordered
  <1>. QED  BY <1>1, <1>4, <1>5, <1>6 DEF Ordered

LEMMA AcceptKeeps ==
  ASSUME TcpInv, accept
  PROVE  Sound(self', cbs')
  <1>1. Sound(self, cbs) /\ self.co = "run" /\ cbs' = cbs
    BY DEF TcpInv, accept
  <1>2. Resting(self) /\ OnlyOwes(cbs, "none") /\ self \in TcpRec /\ cbs \in SUBSET CbRec
    BY <1>1, RunFacts DEF Sound
  <1>3. \A x \in cbs : ~(x.k \in Requests /\ ~x.terminated)
    BY <1>2 DEF OnlyOwes, Requests
  <1>4. CASE self.list = << >> /\ self' = Start([self EXCEPT !.listens = TRUE], "accept")
    <2>1. PICK t : t = [self EXCEPT !.listens = TRUE]
      OBVIOUS
    <2>2. t \in TcpRec
      BY <1>2, <2>1 DEF TcpRec
    <2>3. /\ t.wait = self.wait /\ t.timer = self.timer
          /\ SameHandle(t, self) /\ SameClients(t, self)
      BY <1>2, <2>1 DEF TcpRec, SameHandle, SameClients
    <2>4. Resting(t) /\ t.list = << >>
      BY <1>2, <1>4, <2>2, <2>3 DEF Resting, Line, SameHandle, SameClients
    <2>5. PICK p \in Waiting : p = "accept"
      BY DEF Waiting
    <2>6. Sound(Start(t, p), cbs)
      BY <1>2, <1>3, <2>4, <2>5, StartSound
    <2>. QED  BY <1>1, <1>4, <2>1, <2>5, <2>6
  <1>5. CASE /\ self.list # << >>
             /\ self' = [self EXCEPT !.list = Tail(@), !.given = Head(self.list)]
    <2>1. /\ self.given \in Nat /\ self.list \in Seq(Nat) /\ self.clients \in Nat
          /\ Ordered(self.given, self.list, self.clients)
          /\ Len(self.list) <= MAX_ACCEPT_COUNT + 1
      BY <1>2 DEF TcpRec, Resting, Line
    <2>2. PICK l \in Seq(Nat) : l = Tail(self.list)
      <3>1. Tail(self.list) \in Seq(Nat)
        BY <1>5, <2>1, NextClient
      <3>. QED  BY <3>1
    <2>3. PICK g \in Nat : g = Head(self.list)
      <3>1. Head(self.list) \in Nat
        BY <1>5, <2>1, NextClient
      <3>. QED  BY <3>1
    <2>4. Ordered(g, l, self.clients) /\ Len(l) = Len(self.list) - 1
      BY <1>5, <2>1, <2>2, <2>3, NextClient
    <2>5. self' = [self EXCEPT !.list = l, !.given = g]
      BY <1>5, <2>2, <2>3
    <2>6. self' \in TcpRec
      BY <1>2, <2>5 DEF TcpRec
    <2>7. /\ self'.wait = self.wait /\ self'.timer = self.timer /\ self'.co = self.co
          /\ SameHandle(self', self)
          /\ self'.list = l /\ self'.given = g /\ self'.clients = self.clients
      BY <1>2, <2>5 DEF TcpRec, SameHandle
    <2>8. Len(l) <= MAX_ACCEPT_COUNT + 1
      BY <2>1, <2>4, TcpAssumption
    <2>9. Resting(self')
      BY <1>2, <2>4, <2>6, <2>7, <2>8 DEF Resting, Line, SameHandle
    <2>. QED  BY <1>1, <1>2, <2>7, <2>9, RunSound
  <1>. QED  BY <1>4, <1>5 DEF accept

LEMMA ShutdownKeeps ==
  ASSUME TcpInv, shutdown
  PROVE  Sound(self', cbs')
  <1>1. Sound(self, cbs) /\ self.co = "run" /\ self' = [self EXCEPT !.co = "shutdown"]
    BY DEF TcpInv, shutdown
  <1>2. Resting(self) /\ OnlyOwes(cbs, "none") /\ self \in TcpRec /\ cbs \in SUBSET CbRec
    BY <1>1, RunFacts DEF Sound
  <1>3. PICK failed \in BOOLEAN : cbs' = cbs \cup {Callback("shutdown", self.sock, failed)}
    BY DEF shutdown
  <1>4. PICK x \in CbRec : x = Callback("shutdown", self.sock, failed) /\ x.k = "shutdown"
    <2>1. self.sock \in Nat
      BY <1>2 DEF TcpRec
    <2>. QED  BY <2>1, NewCallback DEF Requests
  <1>5. self' \in TcpRec
    BY <1>1, <1>2 DEF TcpRec, Places
  <1>6. /\ self'.wait = self.wait /\ self'.timer = self.timer /\ self'.co = "shutdown"
        /\ SameHandle(self', self) /\ SameClients(self', self)
    BY <1>1, <1>2 DEF TcpRec, SameHandle, SameClients
  <1>7. Waits(self') /\ Connects(self') /\ Clients(self')
    BY <1>2, <1>6 DEF Waits, WaitsFor, Connects, Clients, Resting, Line, SameHandle,
                      SameClients
  <1>8. Owed(self', cbs') /\ cbs' \in SUBSET CbRec
    BY <1>2, <1>3, <1>4, <1>6 DEF Owed, OnlyOwes, Requests, Answers
  <1>. QED  BY <1>5, <1>7, <1>8 DEF Sound

LEMMA CloseKeeps ==
  ASSUME TcpInv, close \/ settimeout
  PROVE  Sound(self', cbs')
  <1>1. Sound(self, cbs) /\ self \in TcpRec /\ cbs' = cbs
    BY DEF TcpInv, Sound, close, settimeout
  <1>2. CASE close
    <2>1. self' = [self EXCEPT !.sock = 0, !.timer = "nil"]
      BY <1>2 DEF close
    <2>2. self' \in TcpRec
      BY <1>1, <2>1 DEF TcpRec
    <2>3. /\ self'.co = self.co /\ self'.wait = self.wait /\ self'.timer # "on"
          /\ self'.use = self.use /\ self'.sock = 0 /\ SameClients(self', self)
      BY <1>1, <2>1 DEF TcpRec, SameClients
    <2>. QED  BY <1>1, <2>2, <2>3, StaySound
  <1>3. CASE settimeout
    <2>1. PICK o \in Timeouts : self' = [self EXCEPT !.timeout = o]
      BY <1>3 DEF settimeout
    <2>2. self' \in TcpRec
      BY <1>1, <2>1 DEF TcpRec
    <2>3. /\ self'.co = self.co /\ self'.wait = self.wait /\ self'.timer = self.timer
          /\ SameHandle(self', self) /\ SameClients(self', self)
      BY <1>1, <2>1 DEF TcpRec, SameHandle, SameClients
    <2>. QED  BY <1>1, <2>2, <2>3, StaySound DEF SameHandle
  <1>. QED  BY <1>2, <1>3

(***************************************************************************)
(* Resuming: the invariant, and who may be resumed.                        *)
(***************************************************************************)
LEMMA ResumeKeeps ==
  ASSUME NEW s, NEW c, Sound(s, c), NEW x, NEW ok \in BOOLEAN, NEW err,
         ok /\ s.co = "conn" => s.sock = 0 \/ s.up = s.sock,
         s.co # "dead" => s.co \in Answers(x.k) /\ ~x.terminated,
         Resume(s, c, x, ok, err)
  PROVE  TcpInv'
  <1>1. /\ Sound(self', cbs')
        /\ woke' = [by |-> x.k, at |-> s.co, terminated |-> x.terminated]
    BY ResumeSound
  <1>2. WakesItsOwn'
    BY <1>1, OwnWoke
  <1>3. Sound(self, cbs)'
    BY <1>1
  <1>. QED  BY <1>2, <1>3 DEF TcpInv

LEMMA QuietKeeps ==
  ASSUME Sound(self', cbs'), woke' = Nobody
  PROVE  TcpInv'
  <1>1. Sound(self, cbs)'
    OBVIOUS
  <1>. QED  BY <1>1, NobodyWoke DEF TcpInv

(* The calls of the program.                                               *)
LEMMA ProgramKeeps ==
  ASSUME TcpInv,
         \/ receive \/ send \/ connect \/ bind \/ accept \/ ClosedCall
         \/ shutdown \/ close \/ settimeout
  PROVE  TcpInv'
  <1>1. woke' = Nobody
    BY DEF receive, send, connect, bind, accept, ClosedCall, ReturnsClosed, shutdown,
           close, settimeout, Quiet
  <1>2. CASE ClosedCall
    <2>1. self' = self /\ cbs' = cbs
      BY <1>2 DEF ClosedCall, ReturnsClosed
    <2>. QED  BY <1>1, <2>1, QuietKeeps DEF TcpInv
  <1>. QED  BY <1>1, <1>2, QuietKeeps, ReceiveKeeps, SendKeeps, ConnectKeeps, BindKeeps,
               AcceptKeeps, ShutdownKeeps, CloseKeeps

(***************************************************************************)
(* What resumes the coroutine.                                             *)
(***************************************************************************)

(* An event that resumes whoever waits.                                    *)
LEMMA AnybodyAnswers ==
  ASSUME NEW p \in Waiting, NEW k \in {"interrupt", "timer", "close"}
  PROVE  p \in Answers(k)
  BY DEF Waiting, Answers

LEMMA InterruptKeeps ==
  ASSUME TcpInv, interrupt
  PROVE  TcpInv'
  <1>1. Sound(self, cbs) /\ self.wait # {}
    BY DEF TcpInv, interrupt
  <1>2. PICK x : x = Event("interrupt") /\ x.k = "interrupt" /\ ~x.terminated
    BY EventFacts
  <1>3. self.co # "dead" => self.co \in Answers(x.k)
    BY <1>1, <1>2, WaitFacts, AnybodyAnswers
  <1>4. Resume(self, cbs, x, FALSE, "interrupted")
    BY <1>2 DEF interrupt
  <1>. QED  BY <1>1, <1>2, <1>3, <1>4, ResumeKeeps

LEMMA TimerKeeps ==
  ASSUME TcpInv, on_timer
  PROVE  TcpInv'
  <1>1. Sound(self, cbs) /\ self \in TcpRec /\ self.timer = "on"
    BY DEF TcpInv, Sound, on_timer
  <1>2. self.wait # {}
    BY <1>1 DEF Sound, Waits
  <1>3. PICK t : t = [self EXCEPT !.timer = "stopped"]
    OBVIOUS
  <1>4. t \in TcpRec
    BY <1>1, <1>3 DEF TcpRec
  <1>5. /\ t.co = self.co /\ t.wait = self.wait /\ t.timer # "on"
        /\ SameHandle(t, self) /\ SameClients(t, self)
    BY <1>1, <1>3 DEF TcpRec, SameHandle, SameClients
  <1>6. Sound(t, cbs)
    BY <1>1, <1>4, <1>5, StaySound DEF SameHandle
  <1>7. PICK x : x = Event("timer") /\ x.k = "timer" /\ ~x.terminated
    BY EventFacts
  <1>8. t.co # "dead" => t.co \in Answers(x.k)
    BY <1>2, <1>5, <1>6, <1>7, WaitFacts, AnybodyAnswers
  <1>9. Resume(t, cbs, x, FALSE, "timeout")
    BY <1>3, <1>7 DEF on_timer
  <1>. QED  BY <1>6, <1>7, <1>8, <1>9, ResumeKeeps

LEMMA ReadKeeps ==
  ASSUME TcpInv, on_read
  PROVE  TcpInv'
  <1>1. Sound(self, cbs) /\ self \in TcpRec
    BY DEF TcpInv, Sound
  <1>2. CASE _on_io_error(self, cbs)
    BY <1>1, <1>2, IoErrorSound, QuietKeeps
  <1>3. CASE ~_on_io_error(self, cbs)
    <2>1. PICK t : t = [self EXCEPT !.buf = @ + 1]
      OBVIOUS
    <2>2. PICK n \in Nat : n = self.buf + 1
      <3>1. self.buf \in Nat
        BY <1>1 DEF TcpRec
      <3>. QED  BY <3>1
    <2>3. t = [self EXCEPT !.buf = n]
      BY <2>1, <2>2
    <2>4. t \in TcpRec
      BY <1>1, <2>3 DEF TcpRec
    <2>5. /\ t.co = self.co /\ t.wait = self.wait /\ t.timer = self.timer
          /\ SameHandle(t, self) /\ SameClients(t, self)
      BY <1>1, <2>3 DEF TcpRec, SameHandle, SameClients
    <2>6. Sound(t, cbs)
      BY <1>1, <2>4, <2>5, StaySound DEF SameHandle
    <2>7. CASE self' = t /\ cbs' = cbs /\ Quiet
      BY <2>6, <2>7, QuietKeeps DEF Quiet
    <2>8. CASE "read" \in t.wait /\ Resume(t, cbs, Event("read"), TRUE, Nil)
      <3>1. PICK x : x = Event("read") /\ x.k = "read" /\ ~x.terminated
        BY EventFacts
      <3>2. t.co \in {"recv", "recvall", "dead"}
        BY <2>6, <2>8, WaitFacts
      <3>3. t.co # "dead" => t.co \in Answers(x.k)
        BY <3>1, <3>2 DEF Answers
      <3>4. Resume(t, cbs, x, TRUE, Nil)
        BY <2>8, <3>1
      <3>. QED  BY <2>6, <3>1, <3>2, <3>3, <3>4, ResumeKeeps
    <2>. QED  BY <1>3, <2>1, <2>7, <2>8 DEF on_read
  <1>. QED  BY <1>2, <1>3

(* Clients in the order in which they came: a new one is the last, and the *)
(* oldest may go.                                                          *)
LEMMA LastClient ==
  ASSUME NEW g \in Nat, NEW l \in Seq(Nat), NEW n \in Nat, Ordered(g, l, n)
  PROVE  /\ Append(l, n + 1) \in Seq(Nat) /\ Len(Append(l, n + 1)) = Len(l) + 1
         /\ Ordered(g, Append(l, n + 1), n + 1)
  <1>1. PICK q \in Seq(Nat) : q = Append(l, n + 1)
    <2>1. Append(l, n + 1) \in Seq(Nat)
      OBVIOUS
    <2>. QED  BY <2>1
  <1>2. /\ Len(q) = Len(l) + 1 /\ Len(l) \in Nat /\ q[Len(l) + 1] = n + 1
        /\ \A i \in 1..Len(l) : q[i] = l[i] /\ l[i] \in Nat
    BY <1>1
  <1>3. \A i \in 1..Len(q) : i \in 1..Len(l) \/ i = Len(l) + 1
    BY <1>2
  <1>4. \A i \in 1..Len(l) : g < q[i] /\ q[i] <= n
    BY <1>2 DEF Ordered
  <1>5. g <= n
    BY DEF Ordered
  <1>6. \A i \in 1..Len(q) : g < q[i] /\ q[i] <= n + 1
    BY <1>2, <1>3, <1>4, <1>5
  <1>7. ASSUME NEW i \in 1..Len(q), NEW j \in 1..Len(q), i < j
        PROVE  q[i] < q[j]
    <2>1. i \in 1..Len(l)
      BY <1>2, <1>7
    <2>2. CASE j \in 1..Len(l)
      BY <1>2, <1>7, <2>1, <2>2 DEF Ordered
    <2>3. CASE j = Len(l) + 1
      BY <1>2, <1>4, <2>1, <2>3
    <2>. QED  BY <1>3, <2>2, <2>3
  <1>8. g <= n + 1
    BY <1>5
  <1>. QED  BY <1>1, <1>2, <1>6, <1>7, <1>8 DEF Ordered

LEMMA OldestGo ==
  ASSUME NEW g \in Nat, NEW l \in Seq(Nat), NEW n \in Nat, Ordered(g, l, n),
         NEW e \in Nat, e <= Len(l)
  PROVE  LET q == SubSeq(l, e + 1, Len(l))
         IN  q \in Seq(Nat) /\ Len(q) = Len(l) - e /\ Ordered(g, q, n)
  <1>0. Len(l) \in Nat /\ \A i \in 1..Len(l) : l[i] \in Nat
    OBVIOUS
  <1>1. PICK m \in Nat : m = Len(l) - e
    BY <1>0
  <1>2. PICK q : q = SubSeq(l, e + 1, Len(l))
    OBVIOUS
  <1>3. q \in Seq(Nat)
    <2>1. \A i \in (e + 1)..Len(l) : i \in 1..Len(l)
      BY <1>0
    <2>. QED  BY <1>0, <1>2, <2>1
  <1>4. Len(q) = m /\ \A i \in 1..m : q[i] = l[i + e]
    BY <1>0, <1>1, <1>2
  <1>5. \A i \in 1..m : i + e \in 1..Len(l)
    BY <1>0, <1>1
  <1>6. \A i \in 1..Len(q) : g < q[i] /\ q[i] <= n
    BY <1>4, <1>5 DEF Ordered
  <1>7. ASSUME NEW i \in 1..Len(q), NEW j \in 1..Len(q), i < j
        PROVE  q[i] < q[j]
    <2>1. PICK a \in 1..Len(l) : a = i + e /\ q[i] = l[a]
      BY <1>4, <1>5
    <2>2. PICK b \in 1..Len(l) : b = j + e /\ q[j] = l[b]
      BY <1>4, <1>5
    <2>3. a < b
      BY <1>4, <1>7, <2>1, <2>2
    <2>. QED  BY <2>1, <2>2, <2>3 DEF Ordered
  <1>8. g <= n
    BY DEF Ordered
  <1>. QED  BY <1>1, <1>2, <1>3, <1>4, <1>6, <1>7, <1>8 DEF Ordered

(* The queue of the callback of listen.                                    *)
LEMMA QueuedFacts ==
  ASSUME NEW g \in Nat, NEW l \in Seq(Nat), NEW n \in Nat, Ordered(g, l, n)
  PROVE  LET q == Queued(l, n + 1)
         IN  /\ q \in Seq(Nat) /\ q # << >> /\ Len(q) <= MAX_ACCEPT_COUNT + 1
             /\ Ordered(g, q, n + 1)
             /\ l = << >> => Len(q) = 1
  <1>1. Len(l) \in Nat /\ MAX_ACCEPT_COUNT \in Nat
    BY TcpAssumption
  <1>2. PICK q : q = Queued(l, n + 1)
    OBVIOUS
  <1>3. CASE Len(l) > MAX_ACCEPT_COUNT
    <2>0. PICK e \in Nat : e = Len(l) - MAX_ACCEPT_COUNT
      BY <1>1, <1>3
    <2>1. e <= Len(l) /\ e > 0 /\ e = Len(l) - MAX_ACCEPT_COUNT
      BY <1>1, <1>3, <2>0
    <2>2. PICK r : r = SubSeq(l, e + 1, Len(l))
      OBVIOUS
    <2>3. r \in Seq(Nat) /\ Len(r) = Len(l) - e /\ Ordered(g, r, n)
      BY <2>1, <2>2, OldestGo
    <2>4. q = Append(r, n + 1)
      BY <1>2, <2>1, <2>2 DEF Queued
    <2>5. q \in Seq(Nat) /\ Len(q) = Len(r) + 1 /\ Ordered(g, q, n + 1)
      BY <2>3, <2>4, LastClient
    <2>6. Len(q) = MAX_ACCEPT_COUNT + 1 /\ l # << >>
      BY <1>1, <1>3, <2>1, <2>3, <2>5
    <2>7. q # << >>
      BY <1>1, <2>5, <2>6
    <2>. QED  BY <1>1, <1>2, <2>5, <2>6, <2>7
  <1>4. CASE ~(Len(l) > MAX_ACCEPT_COUNT)
    <2>1. q = Append(l, n + 1)
      BY <1>1, <1>2, <1>4 DEF Queued
    <2>2. q \in Seq(Nat) /\ Len(q) = Len(l) + 1 /\ Ordered(g, q, n + 1)
      BY <2>1, LastClient
    <2>3. q # << >> /\ Len(q) <= MAX_ACCEPT_COUNT + 1 /\ (l = << >> => Len(q) = 1)
      BY <1>1, <1>4, <2>2
    <2>. QED  BY <1>2, <2>2, <2>3
  <1>. QED  BY <1>3, <1>4

(* A client comes: the queue and the last accepted change.                 *)
LEMMA ClientsSound ==
  ASSUME NEW s, NEW c, Sound(s, c), NEW g \in Nat, NEW l \in Seq(Nat), NEW n \in Nat,
         Ordered(g, l, n), Len(l) <= MAX_ACCEPT_COUNT + 1,
         s.co = "accept" => l = << >>
  PROVE  LET t == [s EXCEPT !.clients = n, !.list = l, !.given = g]
         IN  Sound(t, c) /\ t.co = s.co
  <1>0. s \in TcpRec
    BY DEF Sound
  <1>1. PICK t : t = [s EXCEPT !.clients = n, !.list = l, !.given = g]
    OBVIOUS
  <1>2. t \in TcpRec
    <2>1. PICK q \in TcpRec : q = [s EXCEPT !.clients = n]
      BY <1>0 DEF TcpRec
    <2>2. PICK r \in TcpRec : r = [q EXCEPT !.list = l]
      BY DEF TcpRec
    <2>3. [r EXCEPT !.given = g] \in TcpRec
      BY DEF TcpRec
    <2>. QED  BY <1>1, <2>1, <2>2, <2>3
  <1>3. /\ t.co = s.co /\ t.wait = s.wait /\ t.timer = s.timer /\ SameHandle(t, s)
        /\ t.list = l /\ t.given = g /\ t.clients = n
    BY <1>0, <1>1 DEF TcpRec, SameHandle
  <1>4. Waits(t) /\ Connects(t) /\ Owed(t, c) /\ c \in SUBSET CbRec
    BY <1>3 DEF Sound, Waits, Connects, Owed, SameHandle
  <1>5. Clients(t)
    BY <1>3 DEF Clients, Line
  <1>. QED  BY <1>1, <1>2, <1>3, <1>4, <1>5 DEF Sound

LEMMA ConnectionKeeps ==
  ASSUME TcpInv, on_connection
  PROVE  TcpInv'
  <1>1. Sound(self, cbs) /\ self \in TcpRec
    BY DEF TcpInv, Sound
  <1>2. CASE _on_io_error(self, cbs)
    BY <1>1, <1>2, IoErrorSound, QuietKeeps
  <1>3. CASE ~_on_io_error(self, cbs)
    <2>1. /\ self.given \in Nat /\ self.list \in Seq(Nat) /\ self.clients \in Nat
          /\ Ordered(self.given, self.list, self.clients)
      BY <1>1 DEF TcpRec, Sound, Clients, Line
    <2>2. PICK n \in Nat : n = self.clients + 1
      BY <2>1
    <2>3. PICK g \in Nat : g = self.given
      BY <2>1
    <2>4. PICK l \in Seq(Nat) : l = Queued(self.list, n)
      <3>1. Queued(self.list, self.clients + 1) \in Seq(Nat)
        BY <2>1, QueuedFacts
      <3>. QED  BY <2>2, <3>1
    <2>5. /\ l # << >> /\ Len(l) <= MAX_ACCEPT_COUNT + 1 /\ Ordered(g, l, n)
          /\ self.list = << >> => Len(l) = 1
      BY <2>1, <2>2, <2>3, <2>4, QueuedFacts
    <2>6. CASE /\ "accept" \notin self.wait
               /\ self' = [[self EXCEPT !.clients = n] EXCEPT !.list = l]
               /\ cbs' = cbs /\ Quiet
      <3>1. self' = [self EXCEPT !.clients = n, !.list = l, !.given = g]
        BY <1>1, <2>3, <2>6 DEF TcpRec
      <3>2. self.co # "accept"
        BY <1>1, <2>6 DEF Sound, Waits, WaitsFor
      <3>3. Sound(self', cbs)
        BY <1>1, <2>5, <3>1, <3>2, ClientsSound
      <3>. QED  BY <2>6, <3>3, QuietKeeps DEF Quiet
    <2>7. CASE /\ "accept" \in self.wait
               /\ Resume([[self EXCEPT !.clients = n] EXCEPT !.list = Tail(l),
                                                              !.given = Head(l)],
                         cbs, Event("connection"), TRUE, Nil)
      <3>1. PICK q \in Seq(Nat) : q = Tail(l)
        <4>1. Tail(l) \in Seq(Nat)
          BY <2>5, NextClient
        <4>. QED  BY <4>1
      <3>2. PICK h \in Nat : h = Head(l)
        BY <2>5, NextClient
      <3>3. Ordered(h, q, n) /\ Len(q) = Len(l) - 1
        BY <2>5, <3>1, <3>2, NextClient
      <3>4. Len(q) <= MAX_ACCEPT_COUNT + 1
        BY <2>5, <3>3, TcpAssumption
      <3>5. self.co = "accept" => q = << >>
        <4>1. self.co = "accept" => self.list = << >>
          BY <1>1 DEF Sound, Clients
        <4>2. self.co = "accept" => Len(q) = 0
          BY <2>5, <3>3, <4>1
        <4>3. Len(q) = 0 => q = << >>
          OBVIOUS
        <4>. QED  BY <4>2, <4>3
      <3>6. PICK t : t = [self EXCEPT !.clients = n, !.list = q, !.given = h]
        OBVIOUS
      <3>7. Sound(t, cbs) /\ t.co = self.co
        BY <1>1, <3>3, <3>4, <3>5, <3>6, ClientsSound
      <3>8. PICK x : x = Event("connection") /\ x.k = "connection" /\ ~x.terminated
        BY EventFacts
      <3>9. self.co \in {"accept", "dead"}
        BY <1>1, <2>7, WaitFacts
      <3>10. t.co # "dead" => t.co \in Answers(x.k)
        BY <3>7, <3>8, <3>9 DEF Answers
      <3>11. Resume(t, cbs, x, TRUE, Nil)
        BY <2>7, <3>1, <3>2, <3>6, <3>8
      <3>. QED  BY <3>7, <3>8, <3>9, <3>10, <3>11, ResumeKeeps
    <2>8. [self EXCEPT !.clients = n].wait = self.wait
      BY <1>1 DEF TcpRec
    <2>. QED  BY <1>3, <2>2, <2>4, <2>6, <2>7, <2>8 DEF on_connection
  <1>. QED  BY <1>2, <1>3

(***************************************************************************)
(* The callbacks that lluv owes.                                           *)
(***************************************************************************)
LEMMA RequestKeeps ==
  ASSUME TcpInv, NEW x \in cbs, on_request(x)
  PROVE  TcpInv'
  <1>1. PICK c : c = cbs \ {x}
    OBVIOUS
  <1>2. Sound(self, cbs) /\ Sound(self, c) /\ x.k \in {"write", "shutdown"}
    BY <1>1, FewerSound DEF TcpInv, on_request
  <1>3. CASE cbs' = c /\ self' = self /\ Quiet
    BY <1>2, <1>3, QuietKeeps DEF Quiet
  <1>4. CASE _on_io_error(self, c)
    BY <1>2, <1>4, IoErrorSound, QuietKeeps
  <1>5. CASE ~x.terminated /\ Resume(self, c, x, TRUE, Nil)
    <2>1. self.co \in Answers(x.k) \cup {"dead"}
      BY <1>2, <1>5 DEF Sound, Owed, Requests
    <2>2. self.co # "conn"
      BY <1>2, <2>1 DEF Answers
    <2>. QED  BY <1>2, <1>5, <2>1, <2>2, ResumeKeeps
  <1>. QED  BY <1>1, <1>3, <1>4, <1>5 DEF on_request

(* connect: the handle that is connected is the one there is.              *)
LEMMA AnswerKeeps ==
  ASSUME TcpInv, NEW x \in cbs, on_answer(x)
  PROVE  TcpInv'
  <1>1. PICK c : c = cbs \ {x}
    OBVIOUS
  <1>2. Sound(self, cbs) /\ Sound(self, c) /\ x.k \in {"conn", "dns"} /\ ~Dropped(x)
    BY <1>1, FewerSound DEF TcpInv, on_answer
  <1>3. CASE cbs' = c /\ self' = self /\ Quiet
    BY <1>2, <1>3, QuietKeeps DEF Quiet
  <1>. SUFFICES ASSUME ~x.terminated
                PROVE  TcpInv'
    BY <1>1, <1>3 DEF on_answer
  <1>4. self.co \in Answers(x.k) \cup {"dead"}
    BY <1>2 DEF Sound, Owed, Requests
  <1>5. CASE Resume(self, c, x, FALSE, "error")
    BY <1>2, <1>4, <1>5, ResumeKeeps
  <1>6. CASE x.k = "dns" /\ Resume(self, c, x, TRUE, Nil)
    <2>1. self.co # "conn"
      BY <1>4, <1>6 DEF Answers
    <2>. QED  BY <1>2, <1>4, <1>6, <2>1, ResumeKeeps
  <1>7. CASE x.k = "conn" /\ ~x.deferred /\ Resume([self EXCEPT !.up = x.h], c, x, TRUE, Nil)
    <2>1. x.h = self.sock /\ self \in TcpRec /\ self.sock \in Nat
      BY <1>2, <1>7 DEF Dropped, Sound, TcpRec
    <2>2. PICK t : t = [self EXCEPT !.up = x.h]
      OBVIOUS
    <2>3. t \in TcpRec
      BY <2>1, <2>2 DEF TcpRec
    <2>4. /\ t.co = self.co /\ t.wait = self.wait /\ t.timer = self.timer
          /\ t.use = self.use /\ t.sock = self.sock /\ t.up = self.sock
          /\ SameClients(t, self)
      BY <2>1, <2>2 DEF TcpRec, SameClients
    <2>5. Sound(t, c)
      BY <1>2, <2>3, <2>4, StaySound
    <2>6. Resume(t, c, x, TRUE, Nil)
      BY <1>7, <2>2
    <2>. QED  BY <1>4, <2>4, <2>5, <2>6, ResumeKeeps
  <1>. QED  BY <1>1, <1>2, <1>5, <1>6, <1>7 DEF on_answer

LEMMA CloseCallbackKeeps ==
  ASSUME TcpInv, NEW x \in cbs, on_close(x) \/ LluvDrops(x)
  PROVE  TcpInv'
  <1>1. PICK c : c = cbs \ {x}
    OBVIOUS
  <1>2. Sound(self, c) /\ x \in CbRec
    BY <1>1, FewerSound DEF TcpInv, Sound
  <1>3. CASE cbs' = c /\ self' = self /\ Quiet
    BY <1>2, <1>3, QuietKeeps DEF Quiet
  <1>4. CASE x.k = "close" /\ self.wait # {} /\ Resume(self, c, x, FALSE, "closed")
    <2>1. ~x.terminated
      BY <1>2, <1>4 DEF CbRec
    <2>2. self.co # "dead" => self.co \in Answers(x.k)
      BY <1>2, <1>4, WaitFacts, AnybodyAnswers
    <2>. QED  BY <1>2, <1>4, <2>1, <2>2, ResumeKeeps
  <1>. QED  BY <1>1, <1>3, <1>4 DEF on_close, LluvDrops

(***************************************************************************)
(* The theorems.                                                           *)
(***************************************************************************)
LEMMA TcpStep ==
  ASSUME TcpInv, [Next]_vars
  PROVE  TcpInv'
  <1>1. CASE Next
    <2>1. ASSUME NEW x \in cbs, Deliver(x)
          PROVE  TcpInv'
      BY <2>1, RequestKeeps, AnswerKeeps, CloseCallbackKeeps DEF Deliver
    <2>. QED  BY <1>1, <2>1, ProgramKeeps, InterruptKeeps, TimerKeeps, ReadKeeps,
                 ConnectionKeeps DEF Next
  <1>2. CASE UNCHANGED vars
    BY <1>2 DEF TcpInv, WakesItsOwn, vars
  <1>. QED  BY <1>1, <1>2

(* The inductive invariant: whatever resumes the coroutine of a TCP        *)
(* socket, in whatever order, _wait, the handle, the queue of clients and  *)
(* the callbacks still to come fit the place where the coroutine is.       *)
THEOREM TcpInvariant == Spec => []TcpInv
  <1>1. Init => TcpInv
    BY InitTcpInv
  <1>2. TcpInv /\ [Next]_vars => TcpInv'
    BY TcpStep
  <1>. QED  BY <1>1, <1>2, PTL DEF Spec

(* The asserts of _start and attach hold whenever a call comes to them:    *)
(* the coroutine that runs has nothing in _wait and no timer on.           *)
THEOREM NothingIsLeftWaiting == Spec => []WaitingIsExact
  <1>1. TcpInv => WaitingIsExact
    BY DEF TcpInv, Sound, Waits, WaitingIsExact
  <1>. QED  BY <1>1, TcpInvariant, PTL

(* The answer to a call that timed out or was interrupted is never taken   *)
(* for the answer to a later one: a callback of write, shutdown, connect   *)
(* or getaddrinfo resumes only the call that asked for it.                 *)
THEOREM AnswersGoToTheirCalls == Spec => []WakesItsOwn
  <1>1. TcpInv => WakesItsOwn
    BY DEF TcpInv
  <1>. QED  BY <1>1, TcpInvariant, PTL

(* A socket that connect has left as a stream holds the handle that lluv   *)
(* reported as connected, however many addresses were tried and timed out. *)
THEOREM StreamIsConnected == Spec => []ConnectedIsConnected
  <1>1. TcpInv => ConnectedIsConnected
    BY DEF TcpInv, Sound, Connects, ConnectedIsConnected
  <1>. QED  BY <1>1, TcpInvariant, PTL

(* The queue of the listening socket never grows beyond its limit, and     *)
(* accept hands out the clients in the order in which they came.           *)
THEOREM ClientsAreInOrder == Spec => []AcceptQueue
  <1>1. TcpInv => AcceptQueue
    <2>. SUFFICES ASSUME TcpInv
                  PROVE  AcceptQueue
      OBVIOUS
    <2>1. self \in TcpRec /\ Clients(self)
      BY DEF TcpInv, Sound
    <2>2. PICK l \in Seq(Nat) : l = self.list
      BY <2>1 DEF TcpRec
    <2>3. PICK g \in Nat : g = self.given
      BY <2>1 DEF TcpRec
    <2>4. Len(l) \in Nat /\ Ordered(g, l, self.clients)
      BY <2>1, <2>2, <2>3 DEF Clients, Line
    <2>5. PICK line : line = <<g>> \o l
      OBVIOUS
    <2>6. line[1] = g /\ \A i \in 1..Len(l) : line[i + 1] = l[i]
      BY <2>4, <2>5
    <2>7. ASSUME NEW i \in 1..Len(l)
          PROVE  line[i] < line[i + 1]
      <3>1. CASE i = 1
        BY <2>4, <2>6, <3>1 DEF Ordered
      <3>2. CASE i # 1
        <4>1. PICK j \in 1..Len(l) : j = i - 1
          BY <2>4, <3>2
        <4>2. line[i] = l[j] /\ line[i + 1] = l[i] /\ j < i
          BY <2>4, <2>6, <4>1
        <4>. QED  BY <2>4, <4>2 DEF Ordered
      <3>. QED  BY <3>1, <3>2
    <2>. QED  BY <2>1, <2>2, <2>3, <2>5, <2>7 DEF Clients, Line, AcceptQueue
  <1>. QED  BY <1>1, TcpInvariant, PTL
=============================================================================
