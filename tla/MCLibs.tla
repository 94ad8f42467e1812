------------------------------- MODULE MCLibs -------------------------------
(***************************************************************************)
(* TLC instance of the parts that others build upon: the list of           *)
(* lluv_list.c, List and Queue of utils.lua, Buffer of utils.lua, and the  *)
(* files of cofs.lua.  The two lists have the same representation: one     *)
(* instance takes the steps of both, and has the behaviours of each.  The  *)
(* parts know nothing of each other; a behaviour uses one, and the others  *)
(* are never called.                                                       *)
(***************************************************************************)
EXTENDS LuaList, LuaBuffer, LuaCofs

VARIABLE used

LibsInit ==
  /\ used \in {"list", "buffer", "file"}
  /\ Init
  /\ BufferInit
  /\ FileInit

LibsNext ==
  \/ /\ used = "list" /\ (Next \/ LuaNext)
     /\ UNCHANGED <<bufferVars, fileVars, used>>
  \/ /\ used = "buffer" /\ BufferNext
     /\ UNCHANGED <<vars, fileVars, used>>
  \/ /\ used = "file" /\ FileNext
     /\ UNCHANGED <<vars, bufferVars, used>>

LibsSpec ==
  /\ LibsInit
  /\ [][LibsNext]_<<vars, bufferVars, fileVars, used>>
  /\ FileFairness

(* Strings of at most three of the bytes "a", "r" and "n".                 *)
LongPieces == UNION {[1..n -> {"a", "r", "n"}] : n \in 0..3}

(* "rn" falls across two chunks of the file; writes put "n" inside one.    *)
OneText   == {<<"a", "r", "n">>}
OneString == {<<"n", "a">>}
BackOne   == {-1}
=============================================================================
