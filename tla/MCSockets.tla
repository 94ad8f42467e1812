------------------------------ MODULE MCSockets -----------------------------
(***************************************************************************)
(* A socket of either class, chosen in the initial state: TcpSock with     *)
(* names of up to two addresses, receives of up to two chunks and a queue  *)
(* of clients that overflows; UdpSock with two senders.                    *)
(***************************************************************************)
EXTENDS LuaTcpSock, LuaDatagrams

CONSTANT MaxHandles   (* bound: UDP handles made                           *)

ASSUME UdpAssumption == None \notin Peers /\ MaxHandles \in Nat \ {0}

U == INSTANCE LuaUdpSock

SockNext == \/ self.class = "TcpSock" /\ Next
            \/ self.class = "UdpSock" /\ U!Next

SockSpec == (Init \/ U!Init) /\ [][SockNext]_vars

(* libuv completes requests, closes handles and runs timers.  Nothing      *)
(* makes a peer send, nor the program call.                                *)
Ticks == \/ self.class = "TcpSock" /\ on_timer
         \/ self.class = "UdpSock" /\ U!on_timer

Completes(k) == \/ self.class = "TcpSock" /\ Pending(k)
                \/ self.class = "UdpSock" /\ k = "write" /\ U!Pending

Fairness ==
  /\ WF_vars(Ticks)
  /\ \A k \in {"write", "shutdown", "conn", "dns", "close"} : WF_vars(Completes(k))

FairSockSpec == SockSpec /\ Fairness

UdpSpec == U!Spec
=============================================================================
