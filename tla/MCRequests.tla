------------------------------ MODULE MCRequests ----------------------------
(***************************************************************************)
(* TLC instance of the requests: those of files (LluvFs) and those of      *)
(* handles and name lookups (LluvReq).  They have nothing in common but    *)
(* the registry, in which file requests use addresses as keys and the      *)
(* others numbers, so that a behaviour of the instance is one of either    *)
(* module; the other, in which nothing has been called, stands still.      *)
(***************************************************************************)
EXTENDS LluvFs, LluvReq

VARIABLE about

RequestsInit ==
  /\ about \in {"files", "handles"}
  /\ Init
  /\ RefInit

RequestsNext ==
  \/ about = "files" /\ Next /\ UNCHANGED <<refVars, about>>
  \/ about = "handles" /\ RefNext /\ UNCHANGED <<vars, about>>

RequestsSpec ==
  /\ RequestsInit
  /\ [][RequestsNext]_<<vars, refVars, about>>
  /\ Fairness
  /\ RefFairness
=============================================================================
