---------------------------- MODULE LuaDatagrams ----------------------------
(***************************************************************************)
(* What a program is promised about the datagrams that a UdpSock of        *)
(* lluv/luasocket.lua returns to it.  self has the fields of a UdpSock, if *)
(* it is one: see LuaUdpSock.                                              *)
(***************************************************************************)
EXTENDS LuaBaseSock

CONSTANTS
  Peers,   (* those who send to the socket                                 *)
  None     (* _peer is nil                                                 *)

_is_peer(s, p) == s.peer \in {None, p}

(* A socket with a peer returns datagrams from this peer alone, also where *)
(* others came in before the peer was set or changed.                      *)
OnlyFromPeer ==
  self.class = "UdpSock" /\ ret = <<"receive", "ok">> =>
    self.got \in Peers /\ _is_peer(self, self.got)

(* "assert(self._buf:size() > 0)" (luasocket.lua:496): a receiver that is  *)
(* resumed finds a datagram.                                               *)
ReceiverFindsDatagram == ret # <<"receive", "assertion failed">>
=============================================================================
