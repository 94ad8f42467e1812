-------------------------- MODULE LuaUdpSockProofs --------------------------
(***************************************************************************)
(* Proofs about LuaUdpSock, for any set of senders and any length of the   *)
(* queue.  That receivefrom returns a datagram of the peer and of nobody   *)
(* else depends on two things: a queue that may hold datagrams of an       *)
(* earlier peer is searched before the coroutine waits, and while it waits *)
(* the queue is empty and the peer stays the same (Drained).               *)
(***************************************************************************)
EXTENDS LuaUdpSock, TLAPS

UdpRec ==
  [class : {"UdpSock"}, co : {"run", "dead", "recv", "send"}, sock : Nat,
   timer : {"nil", "stopped", "on"}, wait : SUBSET {"read", "write"},
   timeout : Timeouts, rawErr : BOOLEAN, kind : {"udp", "tcp"},
   peer : Peers \cup {None}, reading : BOOLEAN, active : BOOLEAN,
   buf : Seq(Peers), got : Peers \cup {None}]

CbRec == [k : {"write"}, h : Nat, terminated : BOOLEAN, deferred : BOOLEAN]

(* _wait and the timer.                                                    *)
Waits(s) ==
  /\ s.co # "dead" => s.wait = WaitsFor(s.co)
  /\ s.timer = "on" => s.wait # {}

(* Who waits for a datagram has looked through the queue.                  *)
Drained(s) == s.co = "recv" => s.buf = << >>

(* The callbacks that may still come.                                      *)
Owed(s, c) == \A x \in c : ~x.terminated => s.co \in {"send", "dead"}

Sound(s, c) == s \in UdpRec /\ c \in SUBSET CbRec /\ Waits(s) /\ Owed(s, c)

UdpInv == Sound(self, cbs) /\ Drained(self) /\ WakesItsOwn /\ OnlyFromPeer

LEMMA InitUdpInv ==
  ASSUME Init
  PROVE  UdpInv
  <1>1. /\ BaseInit.co = "run" /\ BaseInit.sock = 1 /\ BaseInit.timer = "stopped"
        /\ BaseInit.wait = {} /\ BaseInit.timeout = "none" /\ BaseInit.rawErr = FALSE
    BY DEF BaseInit
  <1>2. PICK w \in SUBSET {"read", "write"} : w = {}
    OBVIOUS
  <1>3. PICK l \in Seq(Peers) : l = << >>
    <2>1. << >> \in Seq(Peers)
      OBVIOUS
    <2>. QED  BY <2>1
  <1>4. self = [class |-> "UdpSock", co |-> "run", sock |-> 1, timer |-> "stopped",
                wait |-> w, timeout |-> "none", rawErr |-> FALSE, kind |-> "udp",
                peer |-> None, reading |-> FALSE, active |-> FALSE, buf |-> l,
                got |-> None]
    BY <1>1, <1>2, <1>3 DEF Init, UdpNew
  <1>5. self \in UdpRec
    BY <1>4 DEF UdpRec, Timeouts
  <1>6. self.co = "run" /\ self.wait = {} /\ self.timer = "stopped"
    BY <1>2, <1>4
  <1>7. cbs = {} /\ woke.by = "nobody" /\ ret = << >>
    BY DEF Init, Nobody, Nothing
  <1>8. ret # <<"receive", "ok">>
    BY <1>7
  <1>9. Waits(self) /\ Drained(self) /\ Owed(self, cbs)
    BY <1>6, <1>7 DEF Waits, WaitsFor, Drained, Owed
  <1>. QED  BY <1>5, <1>7, <1>8, <1>9 DEF UdpInv, Sound, WakesItsOwn, OnlyFromPeer

(***************************************************************************)
(* The coroutine between two calls.                                        *)
(***************************************************************************)
Resting(s) == s \in UdpRec /\ s.wait = {} /\ s.timer # "on"

(* No callback can come.                                                   *)
OwesNothing(c) == c \in SUBSET CbRec /\ \A x \in c : x.terminated

LEMMA StopFacts ==
  ASSUME NEW s \in UdpRec
  PROVE  /\ Resting(Stop(s)) /\ Stop(s).buf = s.buf /\ Stop(s).peer = s.peer
         /\ Stop(s).co = s.co
  BY DEF Stop, UdpRec, Resting

(* The coroutine runs, or an error was raised in it.                       *)
LEMMA RunSound ==
  ASSUME NEW s, Resting(s), NEW c, OwesNothing(c), s.co = "run"
  PROVE  Sound(s, c) /\ Drained(s)
  <1>1. Waits(s) /\ Drained(s)
    BY DEF Resting, Waits, WaitsFor, Drained
  <1>2. Owed(s, c)
    BY DEF Owed, OwesNothing
  <1>. QED  BY <1>1, <1>2 DEF Sound, Resting, OwesNothing

LEMMA DeadSound ==
  ASSUME NEW s \in UdpRec, NEW c \in SUBSET CbRec, s.timer = "on" => s.wait # {}
  PROVE  Sound(Raise(s), c) /\ Drained(Raise(s))
  <1>1. PICK t : t = Raise(s)
    OBVIOUS
  <1>2. t \in UdpRec
    BY <1>1 DEF Raise, UdpRec
  <1>3. t.co = "dead" /\ t.wait = s.wait /\ t.timer = s.timer
    BY <1>1 DEF Raise, UdpRec
  <1>. QED  BY <1>1, <1>2, <1>3 DEF Sound, Waits, Drained, Owed

LEMMA RunFacts ==
  ASSUME NEW s, NEW c, Sound(s, c), s.co = "run"
  PROVE  Resting(s) /\ OwesNothing(c)
  <1>1. s.wait = {} /\ s.timer # "on"
    BY DEF Sound, Waits, WaitsFor
  <1>2. \A x \in c : x.terminated \in BOOLEAN
    BY DEF Sound, CbRec
  <1>3. \A x \in c : x.terminated
    BY <1>2 DEF Sound, Owed
  <1>. QED  BY <1>1, <1>3 DEF Sound, Resting, OwesNothing

(* _start and the yield after it.                                          *)
LEMMA StartFacts ==
  ASSUME NEW s, Resting(s), NEW p \in {"recv", "send"}
  PROVE  LET t == Start(s, p)
         IN  /\ t \in UdpRec /\ (t.timer = "on" => t.wait # {})
             /\ t.co \in {p, "dead"} /\ t.buf = s.buf
             /\ t.co # "dead" => t.wait = WaitsFor(p)
             /\ StartRaises(s) => t.co = "dead"
  <1>1. PICK t : t = Start(s, p)
    OBVIOUS
  <1>2. s \in UdpRec /\ s.wait = {} /\ s.timer # "on"
    BY DEF Resting
  <1>3. PICK w \in SUBSET {"read", "write"} : w = WaitsFor(p) /\ w # {}
    BY DEF WaitsFor
  <1>4. CASE StartRaises(s)
    <2>1. t = [s EXCEPT !.co = "dead"]
      BY <1>1, <1>4 DEF Start
    <2>2. t \in UdpRec
      BY <1>2, <2>1 DEF UdpRec
    <2>3. t.co = "dead" /\ t.timer = s.timer /\ t.buf = s.buf
      BY <1>2, <2>1 DEF UdpRec
    <2>. QED  BY <1>1, <1>2, <2>2, <2>3
  <1>5. CASE ~StartRaises(s)
    <2>1. t = [s EXCEPT !.timer = IF s.timeout = "whole" THEN "on" ELSE s.timer, !.wait = w, !.co = p]
      BY <1>1, <1>2, <1>3, <1>5 DEF Start
    <2>2. t \in UdpRec
      BY <1>2, <2>1 DEF UdpRec
    <2>3. t.co = p /\ t.wait = w /\ t.buf = s.buf
      BY <1>2, <2>1 DEF UdpRec
    <2>. QED  BY <1>1, <1>3, <1>5, <2>2, <2>3
  <1>. QED  BY <1>4, <1>5

LEMMA StartSound ==
  ASSUME NEW s, Resting(s), NEW p \in {"recv", "send"}, NEW c \in SUBSET CbRec,
         p = "send" \/ StartRaises(s) \/ (OwesNothing(c) /\ s.buf = << >>)
  PROVE  Sound(Start(s, p), c) /\ Drained(Start(s, p))
  <1>1. PICK t : t = Start(s, p)
    OBVIOUS
  <1>2. /\ t \in UdpRec /\ (t.timer = "on" => t.wait # {})
        /\ t.co \in {p, "dead"} /\ t.buf = s.buf
        /\ t.co # "dead" => t.wait = WaitsFor(p)
        /\ StartRaises(s) => t.co = "dead"
    BY <1>1, StartFacts
  <1>3. Waits(t) /\ Drained(t)
    BY <1>2 DEF Waits, Drained
  <1>4. Owed(t, c)
    BY <1>2 DEF Owed, OwesNothing
  <1>. QED  BY <1>1, <1>2, <1>3, <1>4 DEF Sound

(***************************************************************************)
(* Resuming.                                                               *)
(***************************************************************************)
LEMMA TerminatedFacts ==
  ASSUME NEW c \in SUBSET CbRec
  PROVE  OwesNothing(Terminated(c, "write"))
  <1>1. ASSUME NEW y \in Terminated(c, "write")
        PROVE  y \in CbRec /\ y.terminated
    <2>1. PICK x \in c : y = IF x.k = "write" THEN [x EXCEPT !.terminated = TRUE] ELSE x
      BY DEF Terminated
    <2>2. x \in CbRec /\ x.k = "write"
      BY DEF CbRec
    <2>3. y = [x EXCEPT !.terminated = TRUE]
      BY <2>1, <2>2
    <2>. QED  BY <2>2, <2>3 DEF CbRec
  <1>. QED  BY <1>1 DEF OwesNothing

(* A call returns.                                                         *)
LEMMA ReturnSound ==
  ASSUME NEW s, Resting(s), NEW c, OwesNothing(c)
  PROVE  Sound(Return(s), c) /\ Drained(Return(s))
  <1>1. PICK t : t = Return(s)
    OBVIOUS
  <1>2. t \in UdpRec
    BY <1>1 DEF Return, Resting, UdpRec
  <1>3. t.co = "run" /\ t.wait = s.wait /\ t.timer = s.timer
    BY <1>1 DEF Return, Resting, UdpRec
  <1>4. Resting(t)
    BY <1>2, <1>3 DEF Resting
  <1>. QED  BY <1>1, <1>3, <1>4, RunSound

LEMMA NotReceived ==
  ASSUME ret' # <<"receive", "ok">>
  PROVE  OnlyFromPeer'
  BY DEF OnlyFromPeer

LEMMA ResumeKeeps ==
  ASSUME NEW s, NEW c, Sound(s, c), NEW x, NEW ok \in BOOLEAN, NEW err,
         ~ok => err # "ok",
         ok /\ s.co = "recv" /\ s.buf # << >> => _is_peer(s, Head(s.buf)),
         s.co # "dead" => s.co \in Answers(x.k) /\ ~x.terminated,
         Resume(s, c, x, ok, err)
  PROVE  UdpInv'
  <1>1. woke' = [by |-> x.k, at |-> s.co, terminated |-> x.terminated]
    BY DEF Resume
  <1>2. WakesItsOwn'
    BY <1>1 DEF WakesItsOwn
  <1>. SUFFICES Sound(self', cbs') /\ Drained(self') /\ OnlyFromPeer'
    BY <1>2 DEF UdpInv, Sound, Drained, Waits, Owed
  <1>3. s \in UdpRec /\ c \in SUBSET CbRec
    BY DEF Sound
  <1>4. PICK t : t = Stop(s)
    OBVIOUS
  <1>5. Resting(t) /\ t.buf = s.buf /\ t.peer = s.peer
    BY <1>3, <1>4, StopFacts
  <1>6. CASE s.co = "recv" /\ cbs' = c /\ GoOnReceiving(s, c, ok, err)
    <2>0. OwesNothing(c)
      <3>1. \A y \in c : y.terminated \in BOOLEAN
        BY <1>3 DEF CbRec
      <3>. QED  BY <1>3, <1>6, <3>1 DEF Sound, Owed, OwesNothing
    <2>1. CASE /\ ok /\ s.buf # << >>
               /\ self' = Return([t EXCEPT !.buf = Tail(@), !.got = Head(s.buf)])
      <3>1. PICK l \in Seq(Peers) : l = s.buf
        BY <1>3 DEF UdpRec
      <3>2. PICK q \in Seq(Peers) : q = Tail(l)
        <4>1. Tail(l) \in Seq(Peers)
          BY <2>1, <3>1
        <4>. QED  BY <4>1
      <3>3. PICK g \in Peers : g = Head(l)
        BY <2>1, <3>1
      <3>4. PICK u : u = [t EXCEPT !.buf = q, !.got = g]
        OBVIOUS
      <3>5. self' = Return(u)
        BY <1>5, <2>1, <3>1, <3>2, <3>3, <3>4
      <3>6. u \in UdpRec
        BY <1>5, <3>4 DEF Resting, UdpRec
      <3>7. u.got = g /\ u.peer = s.peer /\ u.wait = t.wait /\ u.timer = t.timer
        BY <1>5, <3>4 DEF Resting, UdpRec
      <3>8. Resting(u)
        BY <1>5, <3>6, <3>7 DEF Resting
      <3>9. Return(u).got = g /\ Return(u).peer = s.peer
        BY <3>6, <3>7 DEF Return, UdpRec
      <3>10. _is_peer(s, g)
        BY <1>6, <2>1, <3>1, <3>3
      <3>11. self'.got \in Peers /\ _is_peer(self', self'.got)
        BY <3>5, <3>9, <3>10 DEF _is_peer
      <3>. QED  BY <1>6, <2>0, <3>5, <3>8, <3>11, ReturnSound DEF OnlyFromPeer, _is_peer
    <2>2. CASE self' = Raise(t) /\ ret' = <<"receive", "assertion failed">>
      <3>1. Sound(self', cbs') /\ Drained(self')
        BY <1>3, <1>5, <1>6, <2>2, DeadSound DEF Resting
      <3>2. ret' # <<"receive", "ok">>
        BY <2>2
      <3>. QED  BY <3>1, <3>2, NotReceived
    <2>3. CASE ~ok /\ self' = Return(t) /\ ret' = <<"receive", err>>
      <3>1. Sound(self', cbs') /\ Drained(self')
        BY <1>5, <1>6, <2>0, <2>3, ReturnSound
      <3>2. ret' # <<"receive", "ok">>
        BY <2>3
      <3>. QED  BY <3>1, <3>2, NotReceived
    <2>. QED  BY <1>4, <1>6, <2>1, <2>2, <2>3 DEF GoOnReceiving
  <1>7. CASE GoOnSending(s, c, ok)
    <2>1. self' = Return(t) /\ cbs' = Terminated(c, "write")
      BY <1>4, <1>7 DEF GoOnSending
    <2>2. Sound(self', cbs') /\ Drained(self')
      BY <1>3, <1>5, <2>1, TerminatedFacts, ReturnSound
    <2>3. ret' # <<"receive", "ok">>
      BY <1>7 DEF GoOnSending
    <2>. QED  BY <2>2, <2>3, NotReceived
  <1>8. CASE s.co \in {"run", "dead"} /\ self' = s /\ cbs' = c /\ ret' = Nothing
    <2>1. Sound(self', cbs') /\ Drained(self')
      BY <1>8 DEF Drained
    <2>2. ret' # <<"receive", "ok">>
      BY <1>8 DEF Nothing
    <2>. QED  BY <2>1, <2>2, NotReceived
  <1>9. GoOnReceiving(s, c, ok, err) => s.co = "recv" /\ cbs' = c
    BY DEF GoOnReceiving
  <1>. QED  BY <1>6, <1>7, <1>8, <1>9 DEF Resume

(***************************************************************************)
(* Steps that leave the coroutine where it is, or start a call.            *)
(***************************************************************************)
LEMMA QuietKeeps ==
  ASSUME Sound(self', cbs'), Drained(self'), woke' = Nobody, ret' # <<"receive", "ok">>
  PROVE  UdpInv'
  <1>1. WakesItsOwn'
    BY DEF Nobody, WakesItsOwn
  <1>2. OnlyFromPeer'
    BY NotReceived
  <1>3. Sound(self, cbs)' /\ Drained(self)'
    OBVIOUS
  <1>. QED  BY <1>1, <1>2, <1>3 DEF UdpInv

LEMMA QuietFacts ==
  ASSUME Quiet
  PROVE  woke' = Nobody /\ ret' # <<"receive", "ok">>
  BY DEF Quiet, Nothing

LEMMA StaySound ==
  ASSUME NEW s, NEW c, Sound(s, c), NEW t \in UdpRec, t.co = s.co, t.wait = s.wait,
         t.timer = s.timer \/ t.timer # "on"
  PROVE  Sound(t, c)
  BY DEF Sound, Waits, Owed

LEMMA FewerSound ==
  ASSUME NEW s, NEW c, Sound(s, c), NEW d \in SUBSET c
  PROVE  Sound(s, d)
  BY DEF Sound, Owed

(* receivefrom takes a datagram of the peer out of the queue, or empties   *)
(* the queue and waits.                                                    *)
LEMMA ReceiveKeeps ==
  ASSUME UdpInv, receivefrom
  PROVE  UdpInv'
  <1>1. Sound(self, cbs) /\ self.co = "run" /\ cbs' = cbs /\ woke' = Nobody
    BY DEF UdpInv, receivefrom
  <1>2. Resting(self) /\ OwesNothing(cbs) /\ self \in UdpRec /\ cbs \in SUBSET CbRec
    BY <1>1, RunFacts DEF Sound
  <1>3. PICK b \in Seq(Peers) : b = self.buf
    BY <1>2 DEF UdpRec
  <1>4. ASSUME NEW i \in FromPeer(self),
               self' = [self EXCEPT !.buf = SubSeq(@, i + 1, Len(@)), !.got = self.buf[i]]
        PROVE  UdpInv'
    <2>1. Len(b) \in Nat /\ i \in 1..Len(b) /\ _is_peer(self, b[i])
      BY <1>3 DEF FromPeer
    <2>2. PICK q \in Seq(Peers) : q = SubSeq(b, i + 1, Len(b))
      <3>1. \A j \in (i + 1)..Len(b) : j \in 1..Len(b)
        BY <2>1
      <3>2. SubSeq(b, i + 1, Len(b)) \in Seq(Peers)
        BY <2>1, <3>1
      <3>. QED  BY <3>2
    <2>3. PICK g \in Peers : g = b[i]
      BY <2>1
    <2>4. self' = [self EXCEPT !.buf = q, !.got = g]
      BY <1>3, <1>4, <2>2, <2>3
    <2>5. self' \in UdpRec
      BY <1>2, <2>4 DEF UdpRec
    <2>6. /\ self'.co = self.co /\ self'.wait = self.wait /\ self'.timer = self.timer
          /\ self'.got = g /\ self'.peer = self.peer
      BY <1>2, <2>4 DEF UdpRec
    <2>7. Sound(self', cbs') /\ Drained(self')
      BY <1>1, <2>5, <2>6, StaySound DEF Drained
    <2>8. self'.got \in Peers /\ _is_peer(self', self'.got)
      BY <2>1, <2>3, <2>6 DEF _is_peer
    <2>9. WakesItsOwn' /\ OnlyFromPeer'
      BY <1>1, <2>8 DEF Nobody, WakesItsOwn, OnlyFromPeer, _is_peer
    <2>10. Sound(self, cbs)' /\ Drained(self)'
      BY <2>7
    <2>. QED  BY <2>9, <2>10 DEF UdpInv
  <1>5. ASSUME NEW t, t = [self EXCEPT !.buf = << >>], ret' = Nothing,
               self' = IF ~t.reading /\ t.kind # "udp"
                       THEN Raise([t EXCEPT !.reading = TRUE])
                       ELSE Start([t EXCEPT !.reading = TRUE,
                                            !.active = @ \/ ~t.reading], "recv")
        PROVE  UdpInv'
    <2>1. t \in UdpRec
      <3>1. PICK e \in Seq(Peers) : e = << >>
        <4>1. << >> \in Seq(Peers)
          OBVIOUS
        <4>. QED  BY <4>1
      <3>. QED  BY <1>2, <1>5, <3>1 DEF UdpRec
    <2>2. t.wait = {} /\ t.timer # "on" /\ t.buf = << >>
      BY <1>2, <1>5 DEF Resting, UdpRec
    <2>3. ret' # <<"receive", "ok">>
      BY <1>5 DEF Nothing
    <2>4. CASE self' = Raise([t EXCEPT !.reading = TRUE])
      <3>1. PICK u : u = [t EXCEPT !.reading = TRUE]
        OBVIOUS
      <3>2. u \in UdpRec
        BY <2>1, <3>1 DEF UdpRec
      <3>3. u.timer # "on"
        BY <2>1, <2>2, <3>1 DEF UdpRec
      <3>4. Sound(Raise(u), cbs) /\ Drained(Raise(u))
        BY <1>2, <3>2, <3>3, DeadSound
      <3>. QED  BY <1>1, <2>3, <2>4, <3>1, <3>4, QuietKeeps
    <2>5. CASE self' = Start([t EXCEPT !.reading = TRUE, !.active = @ \/ ~t.reading], "recv")
      <3>1. PICK d \in BOOLEAN : d = (t.active \/ ~t.reading)
        OBVIOUS
      <3>2. PICK u : u = [t EXCEPT !.reading = TRUE, !.active = d]
        OBVIOUS
      <3>3. u \in UdpRec
        BY <2>1, <3>2 DEF UdpRec
      <3>4. u.wait = {} /\ u.timer # "on" /\ u.buf = << >>
        BY <2>1, <2>2, <3>2 DEF UdpRec
      <3>5. Resting(u)
        BY <3>3, <3>4 DEF Resting
      <3>6. PICK p \in {"recv", "send"} : p = "recv"
        OBVIOUS
      <3>7. Sound(Start(u, p), cbs) /\ Drained(Start(u, p))
        BY <1>2, <3>4, <3>5, StartSound
      <3>8. self' = Start(u, p)
        BY <2>5, <3>1, <3>2, <3>6
      <3>. QED  BY <1>1, <2>3, <3>7, <3>8, QuietKeeps
    <2>. QED  BY <1>5, <2>4, <2>5
  <1>. QED  BY <1>4, <1>5 DEF receivefrom

LEMMA SendKeeps ==
  ASSUME UdpInv, sendto
  PROVE  UdpInv'
  <1>1. Sound(self, cbs) /\ self.co = "run" /\ Quiet
    BY DEF UdpInv, sendto
  <1>2. Resting(self) /\ self \in UdpRec /\ cbs \in SUBSET CbRec
    BY <1>1, RunFacts DEF Sound
  <1>3. PICK p \in {"recv", "send"} : p = "send"
    OBVIOUS
  <1>4. PICK t : t = Start(self, p)
    OBVIOUS
  <1>5. CASE self.kind = "udp" /\ ~StartRaises(self)
    <2>1. PICK failed \in BOOLEAN : cbs' = cbs \cup {Callback("write", self.sock, failed)}
      BY <1>5 DEF sendto
    <2>2. Callback("write", self.sock, failed) \in CbRec
      BY <1>2 DEF Callback, CbRec, UdpRec
    <2>3. PICK d \in SUBSET CbRec : d = cbs'
      BY <1>2, <2>1, <2>2
    <2>4. Sound(t, d) /\ Drained(t)
      BY <1>2, <1>3, <1>4, StartSound
    <2>5. self' = t
      BY <1>3, <1>4, <1>5 DEF sendto
    <2>. QED  BY <1>1, <2>3, <2>4, <2>5, QuietFacts, QuietKeeps
  <1>6. CASE ~(self.kind = "udp" /\ ~StartRaises(self))
    <2>1. self' = Raise(t) /\ cbs' = cbs
      BY <1>3, <1>4, <1>6 DEF sendto
    <2>2. t \in UdpRec /\ (t.timer = "on" => t.wait # {})
      BY <1>2, <1>4, StartFacts
    <2>3. Sound(Raise(t), cbs) /\ Drained(Raise(t))
      BY <1>2, <2>2, DeadSound
    <2>. QED  BY <1>1, <2>1, <2>3, QuietFacts, QuietKeeps
  <1>. QED  BY <1>5, <1>6

(* Calls that neither wait nor receive.                                    *)
LEMMA SettingsKeep ==
  ASSUME UdpInv, setsockname \/ setpeername \/ ClosedCall \/ close \/ settimeout
  PROVE  UdpInv'
  <1>1. Sound(self, cbs) /\ Drained(self) /\ self \in UdpRec
    BY DEF UdpInv, Sound
  <1>2. woke' = Nobody /\ cbs' = cbs
    BY DEF setsockname, setpeername, ClosedCall, ReturnsClosed, close, settimeout, Quiet
  <1>3. ret' # <<"receive", "ok">>
    BY DEF setsockname, setpeername, ClosedCall, ReturnsClosed, close, settimeout, Quiet,
           Nothing
  <1>4. \/ self' = self
        \/ self' = [self EXCEPT !.sock = @ + 1, !.kind = "tcp", !.active = FALSE]
        \/ \E p \in Peers \cup {None} : self.co = "run" /\ self' = [self EXCEPT !.peer = p]
        \/ self' = [self EXCEPT !.sock = 0, !.timer = "nil"]
        \/ \E o \in Timeouts : self' = [self EXCEPT !.timeout = o]
    BY DEF setsockname, setpeername, ClosedCall, ReturnsClosed, close, settimeout
  <1>5. self' \in UdpRec
    <2>1. CASE self' = [self EXCEPT !.sock = @ + 1, !.kind = "tcp", !.active = FALSE]
      <3>1. PICK n \in Nat : n = self.sock + 1
        <4>1. self.sock \in Nat
          BY <1>1 DEF UdpRec
        <4>. QED  BY <4>1
      <3>2. self' = [self EXCEPT !.sock = n, !.kind = "tcp", !.active = FALSE]
        BY <2>1, <3>1
      <3>. QED  BY <1>1, <3>2 DEF UdpRec
    <2>2. CASE \E p \in Peers \cup {None} : self' = [self EXCEPT !.peer = p]
      BY <1>1, <2>2 DEF UdpRec
    <2>3. CASE self' = [self EXCEPT !.sock = 0, !.timer = "nil"]
      BY <1>1, <2>3 DEF UdpRec
    <2>4. CASE \E o \in Timeouts : self' = [self EXCEPT !.timeout = o]
      BY <1>1, <2>4 DEF UdpRec
    <2>. QED  BY <1>1, <1>4, <2>1, <2>2, <2>3, <2>4
  <1>6. /\ self'.co = self.co /\ self'.wait = self.wait /\ self'.buf = self.buf
        /\ self'.timer = self.timer \/ self'.timer # "on"
    BY <1>1, <1>4 DEF UdpRec
  <1>7. Sound(self', cbs') /\ Drained(self')
    BY <1>1, <1>2, <1>5, <1>6, StaySound DEF Drained
  <1>. QED  BY <1>2, <1>3, <1>7, QuietKeeps

(***************************************************************************)
(* What resumes the coroutine.                                             *)
(***************************************************************************)

(* Who waits, by what _wait says.                                          *)
LEMMA WaitFacts ==
  ASSUME NEW s, NEW c, Sound(s, c), s.wait # {}, s.co # "dead"
  PROVE  s.co \in {"recv", "send"} /\ ("read" \in s.wait => s.co = "recv")
  <1>1. s.wait = WaitsFor(s.co) /\ s.co \in {"run", "dead", "recv", "send"}
    BY DEF Sound, Waits, UdpRec
  <1>. QED  BY <1>1 DEF WaitsFor

LEMMA EventFacts ==
  ASSUME NEW k
  PROVE  Event(k).k = k /\ ~Event(k).terminated
  BY DEF Event, Callback

LEMMA TimerKeeps ==
  ASSUME UdpInv, interrupt \/ on_timer
  PROVE  UdpInv'
  <1>1. Sound(self, cbs) /\ self \in UdpRec
    BY DEF UdpInv, Sound
  <1>2. CASE interrupt
    <2>1. PICK x : x = Event("interrupt") /\ x.k = "interrupt" /\ ~x.terminated
      BY EventFacts
    <2>2. Resume(self, cbs, x, FALSE, "interrupted") /\ self.wait # {}
      BY <1>2, <2>1 DEF interrupt
    <2>3. self.co # "dead" => self.co \in Answers(x.k)
      BY <1>1, <2>1, <2>2, WaitFacts DEF Answers
    <2>. QED  BY <1>1, <2>1, <2>2, <2>3, ResumeKeeps
  <1>3. CASE on_timer
    <2>1. PICK x : x = Event("timer") /\ x.k = "timer" /\ ~x.terminated
      BY EventFacts
    <2>2. PICK t : t = [self EXCEPT !.timer = "stopped"]
      OBVIOUS
    <2>3. Resume(t, cbs, x, FALSE, "timeout") /\ self.timer = "on"
      BY <1>3, <2>1, <2>2 DEF on_timer
    <2>4. t \in UdpRec
      BY <1>1, <2>2 DEF UdpRec
    <2>5. t.co = self.co /\ t.wait = self.wait /\ t.timer # "on"
      BY <1>1, <2>2 DEF UdpRec
    <2>6. Sound(t, cbs) /\ t.wait # {}
      BY <1>1, <2>3, <2>4, <2>5, StaySound DEF Sound, Waits
    <2>7. t.co # "dead" => t.co \in Answers(x.k)
      BY <2>1, <2>6, WaitFacts DEF Answers
    <2>. QED  BY <2>1, <2>3, <2>6, <2>7, ResumeKeeps
  <1>. QED  BY <1>2, <1>3

(* A datagram from somebody else is not queued, but resumes.               *)
LEMMA RecvKeeps ==
  ASSUME UdpInv, on_recv
  PROVE  UdpInv'
  <1>1. Sound(self, cbs) /\ Drained(self) /\ self \in UdpRec
    BY DEF UdpInv, Sound
  <1>2. PICK p \in Peers :
          LET s == [self EXCEPT !.buf = Arrived(self, p)]
          IN  \/ "read" \in s.wait /\ Resume(s, cbs, Event("read"), TRUE, "nil")
              \/ "read" \notin s.wait /\ self' = s /\ UNCHANGED cbs /\ Quiet
    BY DEF on_recv
  <1>3. PICK b \in Seq(Peers) : b = self.buf
    BY <1>1 DEF UdpRec
  <1>4. PICK l \in Seq(Peers) : l = Arrived(self, p)
    <2>1. Append(b, p) \in Seq(Peers)
      OBVIOUS
    <2>. QED  BY <1>3, <2>1 DEF Arrived
  <1>5. PICK t : t = [self EXCEPT !.buf = l]
    OBVIOUS
  <1>6. t \in UdpRec
    BY <1>1, <1>5 DEF UdpRec
  <1>7. /\ t.co = self.co /\ t.wait = self.wait /\ t.timer = self.timer
        /\ t.buf = l /\ t.peer = self.peer
    BY <1>1, <1>5 DEF UdpRec
  <1>8. Sound(t, cbs)
    BY <1>1, <1>6, <1>7, StaySound
  <1>9. CASE "read" \in t.wait /\ Resume(t, cbs, Event("read"), TRUE, "nil")
    <2>1. PICK x : x = Event("read") /\ x.k = "read" /\ ~x.terminated
      BY EventFacts
    <2>2. t.co \in {"recv", "dead"}
      BY <1>8, <1>9, WaitFacts
    <2>3. t.co # "dead" => t.co \in Answers(x.k)
      BY <2>1, <2>2 DEF Answers
    <2>4. Resume(t, cbs, x, TRUE, "nil")
      BY <1>9, <2>1
    <2>5. CASE t.co = "recv"
      <3>1. b = << >>
        BY <1>1, <1>3, <1>7, <2>5 DEF Drained
      <3>2. _is_peer(self, p) => l = <<p>>
        BY <1>3, <1>4, <3>1 DEF Arrived
      <3>3. ~_is_peer(self, p) => l = << >>
        BY <1>3, <1>4, <3>1 DEF Arrived
      <3>4. t.buf # << >> => _is_peer(t, Head(t.buf))
        BY <1>7, <3>2, <3>3 DEF _is_peer
      <3>. QED  BY <1>8, <2>1, <2>3, <2>4, <3>4, ResumeKeeps
    <2>6. CASE t.co = "dead"
      BY <1>8, <2>1, <2>4, <2>6, ResumeKeeps
    <2>. QED  BY <2>2, <2>5, <2>6
  <1>10. CASE "read" \notin t.wait /\ self' = t /\ cbs' = cbs /\ Quiet
    <2>1. Drained(t)
      BY <1>8, <1>10 DEF Drained, Sound, Waits, WaitsFor
    <2>. QED  BY <1>8, <1>10, <2>1, QuietFacts, QuietKeeps
  <1>. QED  BY <1>2, <1>4, <1>5, <1>9, <1>10

LEMMA SentKeeps ==
  ASSUME UdpInv, NEW x \in cbs, on_send(x) \/ LluvDrops(x)
  PROVE  UdpInv'
  <1>1. PICK c : c = cbs \ {x}
    OBVIOUS
  <1>2. Sound(self, c) /\ Drained(self) /\ self \in UdpRec
    BY <1>1, FewerSound DEF UdpInv, Sound
  <1>3. CASE self' = self /\ cbs' = c /\ Quiet
    BY <1>2, <1>3, QuietFacts, QuietKeeps
  <1>4. CASE OnUdpError(self, c)
    <2>1. PICK e \in BOOLEAN : e = (self.rawErr \/ self.sock # 0)
      OBVIOUS
    <2>2. self' = [self EXCEPT !.rawErr = e] /\ cbs' = c /\ Quiet
      BY <1>4, <2>1 DEF OnUdpError
    <2>3. self' \in UdpRec
      BY <1>2, <2>2 DEF UdpRec
    <2>4. /\ self'.co = self.co /\ self'.wait = self.wait /\ self'.timer = self.timer
          /\ self'.buf = self.buf
      BY <1>2, <2>2 DEF UdpRec
    <2>5. Sound(self', cbs') /\ Drained(self')
      BY <1>2, <2>2, <2>3, <2>4, StaySound DEF Drained
    <2>. QED  BY <2>2, <2>5, QuietFacts, QuietKeeps
  <1>5. CASE x.k = "write" /\ ~x.terminated /\ Resume(self, c, x, TRUE, "nil")
    <2>1. self.co \in {"send", "dead"}
      BY <1>5 DEF UdpInv, Sound, Owed
    <2>2. self.co # "dead" => self.co \in Answers(x.k)
      BY <1>5, <2>1 DEF Answers
    <2>. QED  BY <1>2, <1>5, <2>1, <2>2, ResumeKeeps
  <1>. QED  BY <1>1, <1>3, <1>4, <1>5 DEF on_send, LluvDrops

(***************************************************************************)
(* The theorems.                                                           *)
(***************************************************************************)
LEMMA UdpStep ==
  ASSUME UdpInv, [Next]_vars
  PROVE  UdpInv'
  <1>1. CASE Next
    BY <1>1, ReceiveKeeps, SendKeeps, SettingsKeep, TimerKeeps, RecvKeeps, SentKeeps DEF Next
  <1>2. CASE UNCHANGED vars
    BY <1>2 DEF UdpInv, WakesItsOwn, OnlyFromPeer, _is_peer, vars
  <1>. QED  BY <1>1, <1>2

(* The inductive invariant: _wait, the queue and the callbacks still to    *)
(* come fit the place where the coroutine of a UDP socket is.              *)
THEOREM UdpInvariant == Spec => []UdpInv
  <1>1. Init => UdpInv
    BY InitUdpInv
  <1>2. UdpInv /\ [Next]_vars => UdpInv'
    BY UdpStep
  <1>. QED  BY <1>1, <1>2, PTL DEF Spec

(* receivefrom on a socket with a peer returns a datagram that this peer   *)
(* sent, whoever else sends and whatever peers were set before.            *)
THEOREM PeersAreFiltered == Spec => []OnlyFromPeer
  <1>1. UdpInv => OnlyFromPeer
    BY DEF UdpInv
  <1>. QED  BY <1>1, UdpInvariant, PTL

(* The asserts of _start hold for UDP sockets, also when an error in a     *)
(* callback has left the socket open.                                      *)
THEOREM UdpWaitsExactly == Spec => []WaitingIsExact
  <1>1. UdpInv => WaitingIsExact
    BY DEF UdpInv, Sound, Waits, WaitingIsExact
  <1>. QED  BY <1>1, UdpInvariant, PTL

(* The callback of a sendto that timed out resumes no later call.          *)
THEOREM UdpWakesItsOwn == Spec => []WakesItsOwn
  <1>1. UdpInv => WakesItsOwn
    BY DEF UdpInv
  <1>. QED  BY <1>1, UdpInvariant, PTL
=============================================================================
