------------------------------- MODULE LuaCofs ------------------------------
(***************************************************************************)
(* Files for coroutines (lluv/cofs.lua).  A method of File starts a        *)
(* request of lluv_fs.c and yields; the callback resumes the coroutine     *)
(* with the answer.  Another coroutine may interrupt() the call: it        *)
(* returns at once, while its request stays in libuv and calls back later, *)
(* when the next call, or the next file, is already under way.  The        *)
(* upvalue terminated of the callback tells them apart.  All reads of a    *)
(* File share the one buffer _buf.                                         *)
(*                                                                         *)
(* There is one path, whose bytes are disk, and one coroutine, which opens *)
(* it again and again, each time as a new File.                            *)
(***************************************************************************)
EXTENDS LuaString, FiniteSets, SequencesExt

CONSTANTS
  BUFFER_SIZE,
  Texts,     (* what the file may hold to begin with                       *)
  Strings,   (* strings that are written, not empty                        *)
  Lengths,   (* lengths that are read                                      *)
  FileEols,  (* TEXT_EOL and BINARY_EOL, names of LuaString                *)
  Cuts,      (* lengths to which a file is truncated                       *)
  Offsets,   (* arguments of seek                                          *)
  Full,      (* bound: the bytes for which the disk has room               *)
  MaxReqs,   (* bound: requests in libuv                                   *)
  Nothing

(* "0" is the byte that fills the gaps of a file.                          *)
ASSUME CofsAssumption ==
  /\ BUFFER_SIZE \in Nat \ {0} /\ Full \in Nat /\ MaxReqs \in Nat \ {0}
  /\ "0" \in Byte /\ Texts \subseteq Seq(Byte)
  /\ Strings \subseteq Seq(Byte) /\ << >> \notin Strings
  /\ Nothing \notin Seq(Byte) /\ Nothing \notin BOOLEAN
  /\ Nothing \notin {"error", "interrupted"}
  /\ FileEols \subseteq Eols
  /\ Lengths \subseteq Nat /\ Cuts \subseteq Nat /\ Offsets \subseteq Int

VARIABLES
  disk,   (* the bytes of the file                                         *)
  fds,    (* descriptors that are open in the kernel                       *)
  reqs,   (* requests in libuv, in the order in which they came            *)
  self,   (* the File                                                      *)
  call,   (* the call in which the coroutine is                            *)
  got     (* what the last call returned                                   *)

fileVars == <<disk, fds, reqs, self, call, got>>

(* _fd is there or not; _pos, _eol, _wait.  To begin with there is none.   *)
NewSelf(eol) == [fd |-> FALSE, pos |-> 0, eol |-> eol, wait |-> FALSE]

(***************************************************************************)
(* A call: its name and arguments, what it has read so far (res), and, for *)
(* the properties, where it began (from) and whether no abandoned request  *)
(* was in libuv then (clean).                                              *)
(***************************************************************************)
NoCall == [op |-> "none", n |-> 0, arg |-> << >>, keep |-> FALSE,
           res |-> << >>, from |-> 0, clean |-> TRUE]

(* Values, error, and what read_n returns after the error; by is what      *)
(* resumed the coroutine for the last time.                                *)
Answered(op, val, err, part, by) ==
  [op |-> op, val |-> val, err |-> err, part |-> part, by |-> by]

NoAnswer == Answered("none", Nothing, Nothing, << >>, "self")

FileInit ==
  /\ disk \in Texts
  /\ fds = 0
  /\ reqs = << >>
  /\ self = NewSelf("none")
  /\ call = NoCall
  /\ got = NoAnswer

(***************************************************************************)
(* Requests.  live is ~terminated; mine tells whether the request reads    *)
(* into the buffer of the present File; size is the answer to stat.  str   *)
(* is what a write writes, and, once a read is done, what _buf holds of    *)
(* its bytes.  Bytes of _buf that no such read has put there, or that the  *)
(* next one will overwrite, are left out.                                  *)
(***************************************************************************)
NewRequest(op, off, n, str) ==
  [op |-> op, off |-> off, n |-> n, str |-> str, live |-> TRUE, mine |-> TRUE,
   at |-> "queued", ok |-> FALSE, size |-> 0]

(* A method hands its request to lluv and yields.                          *)
Yield(s, c, rs, rq) ==
  /\ self' = [s EXCEPT !.wait = TRUE]
  /\ call' = c
  /\ reqs' = Append(rs, rq)
  /\ got' = NoAnswer

_read_some(s, c, rs, n) ==
  Yield(s, c, rs, NewRequest("read", s.pos, n, << >>))

Return(s, rs, val, err, part, by) ==
  /\ self' = s
  /\ call' = NoCall
  /\ reqs' = rs
  /\ got' = Answered(call.op, val, err, part, by)

(***************************************************************************)
(* The calls.                                                              *)
(***************************************************************************)
Begins(op) == [NoCall EXCEPT !.op = op, !.from = self.pos, !.clean = reqs = << >>]

Idle   == call.op = "none" /\ Len(reqs) < MaxReqs
IsOpen == Idle /\ self.fd

Least(m, n) == IF m <= n THEN m ELSE n

(* cofs.open(path, mode): a new File with a buffer of its own.             *)
open ==
  /\ Idle /\ ~self.fd
  /\ \E eol \in FileEols :
       LET old == [i \in DOMAIN reqs |-> [reqs[i] EXCEPT !.mine = FALSE]]
       IN  Yield(NewSelf(eol), Begins("open"), old,
                 NewRequest("open", 0, 0, << >>))
  /\ UNCHANGED <<disk, fds>>

close ==
  /\ IsOpen
  /\ Yield(self, Begins("close"), reqs, NewRequest("close", 0, 0, << >>))
  /\ UNCHANGED <<disk, fds>>

(* read_all is read_n(math.huge); Huge is never read to its end.           *)
Huge == Full + BUFFER_SIZE + 1

read_n ==
  /\ IsOpen
  /\ \E n \in Lengths \cup {Huge} :
       _read_some(self, [Begins("read_n") EXCEPT !.n = n], reqs,
                  Least(BUFFER_SIZE, n))
  /\ UNCHANGED <<disk, fds>>

read_line ==
  /\ IsOpen
  /\ \E keep \in BOOLEAN :
       _read_some(self, [Begins("read_line") EXCEPT !.keep = keep], reqs,
                  BUFFER_SIZE)
  /\ UNCHANGED <<disk, fds>>

write_string ==
  /\ IsOpen
  /\ \E str \in Strings :
       Yield(self, [Begins("write") EXCEPT !.arg = str], reqs,
             NewRequest("write", self.pos, 0, str))
  /\ UNCHANGED <<disk, fds>>

MaxPos == Full + 1

(* seek("set" or "cur", offset) asks nobody.                               *)
seek ==
  /\ IsOpen
  /\ \E o \in Offsets, base \in {0, self.pos} :
       LET p == IF base + o < 0 THEN 0 ELSE base + o
       IN  /\ p <= MaxPos
           /\ self' = [self EXCEPT !.pos = p]
           /\ got' = Answered("seek", p, Nothing, << >>, "self")
  /\ UNCHANGED <<disk, fds, reqs, call>>

(* seek("end", offset) asks for the size.                                  *)
seek_end ==
  /\ IsOpen
  /\ \E o \in Offsets :
       Yield(self, [Begins("seek_end") EXCEPT !.n = o], reqs,
             NewRequest("stat", 0, 0, << >>))
  /\ UNCHANGED <<disk, fds>>

(* call_fs: truncate.  stat is part of seek_end, and the others ask in the *)
(* same way and change nothing here.                                       *)
call_fs ==
  /\ IsOpen
  /\ \E n \in Cuts : Yield(self, [Begins("truncate") EXCEPT !.n = n], reqs,
                           NewRequest("truncate", n, 0, << >>))
  /\ UNCHANGED <<disk, fds>>

(***************************************************************************)
(* What the call does when the coroutine is resumed with ok and err, in    *)
(* state s and with the requests rs.                                       *)
(***************************************************************************)
(* Mutant: the loop does not end at the end of the file.                   *)
ResumeReadN_GoesOn(s, rs, ok, err, by) ==
  \/ /\ call.n <= BUFFER_SIZE
     /\ Return(s, rs, ok, err, << >>, by)
  \/ /\ call.n > BUFFER_SIZE
     /\ LET res  == IF ok = Nothing THEN call.res ELSE call.res \o ok
            left == call.n - Len(res)
        IN  IF err = Nothing /\ left > 0
            THEN _read_some(s, [call EXCEPT !.res = res], rs,
                            Least(BUFFER_SIZE, left))
            ELSE Return(s, rs,
                        IF err # Nothing \/ res = << >> THEN Nothing ELSE res, err,
                        IF err # Nothing THEN res ELSE << >>, by)

ResumeReadN(s, rs, ok, err, by) ==
  \/ /\ call.n <= BUFFER_SIZE
     /\ Return(s, rs, ok, err, << >>, by)
  \/ /\ call.n > BUFFER_SIZE
     /\ LET res  == IF ok = Nothing THEN call.res ELSE call.res \o ok
            left == call.n - Len(res)
        IN  IF ok # Nothing /\ left > 0
            THEN _read_some(s, [call EXCEPT !.res = res], rs,
                            Least(BUFFER_SIZE, left))
            ELSE Return(s, rs,
                        IF err # Nothing \/ res = << >> THEN Nothing ELSE res, err,
                        IF err # Nothing THEN res ELSE << >>, by)

(* Mutant: the bytes after the line are not given back.                    *)
ResumeReadLine_KeepsRest(s, rs, ok, err, by) ==
  LET res == IF ok = Nothing THEN call.res ELSE call.res \o ok
  IN  IF ok # Nothing /\ ~Has(res, s.eol)
      THEN _read_some(s, [call EXCEPT !.res = res], rs, BUFFER_SIZE)
      ELSE IF ok = Nothing
      THEN Return(s, rs, IF err # Nothing \/ res = << >> THEN Nothing ELSE res, err,
                  << >>, by)
      ELSE LET m == Find(res, s.eol)
           IN  Return(s, rs, Upto(res, IF call.keep THEN m[2] ELSE m[1] - 1),
                      Nothing, << >>, by)

ResumeReadLine(s, rs, ok, err, by) ==
  LET res == IF ok = Nothing THEN call.res ELSE call.res \o ok
  IN  IF ok # Nothing /\ ~Has(res, s.eol)
      THEN _read_some(s, [call EXCEPT !.res = res], rs, BUFFER_SIZE)
      ELSE IF ok = Nothing
      THEN Return(s, rs, IF err # Nothing \/ res = << >> THEN Nothing ELSE res, err,
                  << >>, by)
      ELSE LET m    == Find(res, s.eol)
               rest == Len(res) - m[2]
           IN  Return([s EXCEPT !.pos = @ - rest], rs,
                      Upto(res, IF call.keep THEN m[2] ELSE m[1] - 1),
                      Nothing, << >>, by)

ResumeSeekEnd(s, rs, ok, err, by) ==
  LET p == IF ok + call.n < 0 THEN 0 ELSE ok + call.n
  IN  IF ok = Nothing THEN Return(s, rs, Nothing, err, << >>, by)
      ELSE Return([s EXCEPT !.pos = p], rs, p, Nothing, << >>, by)

Resume(s0, rs, ok, err, by) ==
  LET s == [s0 EXCEPT !.wait = FALSE]
  IN  CASE call.op = "read_n"    -> ResumeReadN(s, rs, ok, err, by)
        [] call.op = "read_line" -> ResumeReadLine(s, rs, ok, err, by)
        [] call.op = "seek_end"  -> ResumeSeekEnd(s, rs, ok, err, by)
        [] call.op = "open"      ->
             Return([s EXCEPT !.fd = ok # Nothing], rs, ok, err, << >>, by)
        [] call.op = "close"     ->
             Return([s EXCEPT !.fd = FALSE, !.pos = 0], rs, ok, err, << >>, by)
        [] OTHER                 -> Return(s, rs, ok, err, << >>, by)

(* Of a request that is done when its call is over the callback looks at   *)
(* nothing but the file that was opened.                                   *)
Spent(r) ==
  IF r.live \/ r.at = "queued" THEN r
  ELSE [r EXCEPT !.off = 0, !.n = 0, !.str = << >>, !.size = 0, !.mine = FALSE]

(* Mutant: the callback is not told that its call is over.                 *)
Terminated_Never(rs) == rs

(* terminated = true, once the call has been resumed.                      *)
Terminated(rs) == [i \in DOMAIN rs |-> Spent([rs[i] EXCEPT !.live = FALSE])]

(* file:interrupt(...) by another coroutine, with or without an error.     *)
interrupt ==
  /\ self.wait
  /\ \E err \in {Nothing, "interrupted"} :
       Resume(self, Terminated(reqs), Nothing, err, "interrupt")
  /\ UNCHANGED <<disk, fds>>

(***************************************************************************)
(* libuv and the kernel (external).  A worker carries out a request; if    *)
(* the file was closed before, only a descriptor that was opened since can *)
(* have taken its number.  A disk without room cuts a write short.         *)
(***************************************************************************)
Zeros(n) == [i \in 1..n |-> "0"]

(* The bytes d with s at offset off, as far as there is room.              *)
Put(d, off, s) ==
  LET room == IF off >= Full THEN << >> ELSE Upto(s, Least(Len(s), Full - off))
      gap  == IF off > Len(d) THEN Zeros(off - Len(d)) ELSE << >>
      head == Upto(d, Least(off, Len(d))) \o gap
  IN  IF room = << >> THEN d ELSE head \o room \o From(d, Len(head) + Len(room) + 1)

(* The n bytes of the file at offset off, or as many as there are.         *)
ReadAt(off, n) == SubSeq(disk, off + 1, Least(off + n, Len(disk)))

Done(r, ok, size) == Spent([r EXCEPT !.at = "done", !.ok = ok, !.size = size])

Finished(i, ok, size) == reqs' = [reqs EXCEPT ![i] = Done(@, ok, size)]

(* The bytes that a done request has in _buf when another puts data there. *)
Overlaid(str, data) ==
  Upto(data, Least(Len(data), Len(str))) \o From(str, Len(data) + 1)

(* Request i has read data into _buf.                                      *)
Filled(i, data) ==
  reqs' = [j \in DOMAIN reqs |->
             IF j = i THEN Done([reqs[i] EXCEPT !.str = data], TRUE, 0)
             ELSE IF reqs[i].mine /\ reqs[j].op = "read" /\ reqs[j].at = "done"
             THEN [reqs[j] EXCEPT !.str = Overlaid(@, data)]
             ELSE reqs[j]]

Worker(i) == LET r == reqs[i] IN
  /\ r.at = "queued"
  /\ \/ /\ r.op # "close" /\ Finished(i, FALSE, 0)
        /\ UNCHANGED <<disk, fds>>
     \/ /\ r.op = "open" /\ Finished(i, TRUE, 0)
        /\ fds' = fds + 1
        /\ UNCHANGED disk
     \/ /\ r.op = "close" /\ \E ok \in BOOLEAN : Finished(i, ok, 0)
        /\ fds' = fds - 1
        /\ UNCHANGED disk
     \/ /\ r.op = "read" /\ fds > 0
        /\ Filled(i, ReadAt(r.off, r.n))
        /\ UNCHANGED <<disk, fds>>
     \/ /\ r.op = "write" /\ fds > 0 /\ r.off < Full
        /\ disk' = Put(disk, r.off, r.str)
        /\ Finished(i, TRUE, 0)
        /\ UNCHANGED fds
     \/ /\ r.op = "truncate" /\ fds > 0
        /\ disk' = Upto(disk \o Zeros(r.off), r.off)
        /\ Finished(i, TRUE, 0)
        /\ UNCHANGED fds
     \/ /\ r.op = "stat" /\ fds > 0
        /\ Finished(i, TRUE, Len(disk))
        /\ UNCHANGED <<disk, fds>>
  /\ UNCHANGED <<self, call, got>>

(***************************************************************************)
(* The callbacks.                                                          *)
(***************************************************************************)

(* The callback of a call that is over: of a file opened too late it       *)
(* closes the descriptor.                                                  *)
Late(i) ==
  /\ fds' = IF reqs[i].op = "open" /\ reqs[i].ok THEN fds - 1 ELSE fds
  /\ reqs' = RemoveAt(reqs, i)
  /\ UNCHANGED <<disk, self, call, got>>

(* What the callback resumes the coroutine with; a read that is at the end *)
(* of the file has no value and no error.                                  *)
Value(r) ==
  CASE r.op = "read" -> IF r.str = << >> THEN Nothing ELSE r.str
    [] r.op = "stat" -> r.size
    [] OTHER         -> TRUE

(* Mutant: _pos moves by what was asked for.                               *)
Moved_Asked(s, r) ==
  IF r.op = "read" THEN [s EXCEPT !.pos = @ + r.n]
  ELSE [s EXCEPT !.pos = @ + Len(r.str)]

(* _pos after a transfer: by what was read, or what was to be written.     *)
Moved(s, r) == [s EXCEPT !.pos = @ + Len(r.str)]

Answer(i) ==
  /\ LET r == reqs[i]
     IN  IF r.ok
         THEN Resume(Moved(self, r), RemoveAt(reqs, i), Value(r), Nothing, "self")
         ELSE Resume(self, RemoveAt(reqs, i), Nothing, "error", "self")
  /\ UNCHANGED <<disk, fds>>

(* Mutant: the file that was opened too late is forgotten.                 *)
callback_Forgets(i) ==
  /\ reqs[i].at = "done"
  /\ \/ reqs[i].live /\ Answer(i)
     \/ ~reqs[i].live /\ reqs' = RemoveAt(reqs, i)
                      /\ UNCHANGED <<disk, fds, self, call, got>>

callback(i) ==
  /\ reqs[i].at = "done"
  /\ \/ reqs[i].live /\ Answer(i)
     \/ ~reqs[i].live /\ Late(i)

(***************************************************************************)
(* The specification.  Workers finish and the loop calls back.             *)
(***************************************************************************)
FileCalls == open \/ close \/ read_n \/ read_line \/ write_string \/ seek
               \/ seek_end \/ call_fs

FileNext ==
  \/ FileCalls
  \/ interrupt
  \/ \E i \in DOMAIN reqs : Worker(i) \/ callback(i)

Awaited == {i \in DOMAIN reqs : reqs[i].live}

FileFairness ==
  /\ WF_fileVars(\E i \in Awaited : Worker(i))
  /\ WF_fileVars(\E i \in Awaited : callback(i))

FileSpec == FileInit /\ [][FileNext]_fileVars /\ FileFairness

(***************************************************************************)
(* Correctness.                                                            *)
(***************************************************************************)

(* A coroutine in a call waits, for exactly one request, the one that this *)
(* call started last; every other request in libuv belongs to a call that  *)
(* is over and will not wake it.  So a call is never answered by the late  *)
(* request of an earlier one.                                              *)
OneAnswer ==
  /\ self.wait <=> call.op # "none"
  /\ Cardinality(Awaited) = (IF self.wait THEN 1 ELSE 0)
  /\ \A i \in Awaited : /\ i = Len(reqs)
                        /\ reqs[i].op \in {"read", "write"} => reqs[i].off = self.pos

(* Every descriptor that is open in the kernel belongs to the File, to an  *)
(* open that has not called back, or to a close that is not done: none is  *)
(* lost when open or close is interrupted.                                 *)
Holds(r) == \/ r.op = "close" /\ r.at = "queued"
            \/ r.op = "open" /\ r.at = "done" /\ r.ok

NoDescriptorLost ==
  fds = Cardinality({i \in DOMAIN reqs : Holds(reqs[i])})
          + (IF self.fd /\ call.op # "close" THEN 1 ELSE 0)

(* What is at the position of a call, and what it should take from there.  *)
Ahead == From(disk, call.from + 1)

Wanted ==
  IF call.op = "read_line" /\ Has(Ahead, self.eol)
  THEN Upto(Ahead, Find(Ahead, self.eol)[2])
  ELSE IF call.op = "read_line" THEN Ahead
  ELSE Upto(Ahead, Least(call.n, Len(Ahead)))

Shown ==
  IF call.op = "read_line" /\ ~call.keep /\ Has(Ahead, self.eol)
  THEN Upto(Ahead, Find(Ahead, self.eol)[1] - 1)
  ELSE Wanted

Returns == call.op # "none" /\ call'.op = "none"
Succeeds == Returns /\ got'.by = "self" /\ got'.err = Nothing

(* However the bytes fall into chunks, a call that finds no request of an  *)
(* interrupted one in libuv and succeeds is exact.  A read returns the     *)
(* line, or the bytes, at its position and leaves the position behind      *)
(* them, or returns nil at the end of the file; a write has put its string *)
(* at its position, as far as the disk had room, and is behind it.         *)
TransfersAreExact ==
  [][Succeeds /\ call.clean =>
       /\ call.op \in {"read_n", "read_line"} =>
            /\ self'.pos = call.from + Len(Wanted)
            /\ got'.val = IF Wanted = << >> THEN Nothing ELSE Shown
       /\ call.op = "write" =>
            /\ disk' = Put(disk, call.from, call.arg)
            /\ self'.pos = call.from + Len(call.arg)]_fileVars

(* Whatever ends a read_n, an error and an interruption included, the      *)
(* bytes that it has moved past are returned, after the error if there is  *)
(* one.                                                                    *)
NothingIsSkipped ==
  [][Returns /\ call.op = "read_n" =>
       self'.pos = call.from + Len(IF got'.val = Nothing THEN got'.part
                                                     ELSE got'.val)]_fileVars

(* Every call returns, also read_all and a read_line without an end of     *)
(* line, whatever late requests do to the file meanwhile.                  *)
CallReturns == call.op # "none" ~> call.op = "none"
=============================================================================
