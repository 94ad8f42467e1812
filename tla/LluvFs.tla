------------------------------- MODULE LluvFs -------------------------------
(***************************************************************************)
(* File system requests and file objects (lluv_fs.c).                      *)
(*                                                                         *)
(* A call without a callback runs to its end in the calling thread.  With  *)
(* a callback the request is handed to libuv, whose worker threads carry   *)
(* it out at some time (Work) before the loop calls back (lluv_on_fs).     *)
(* While it is in flight, libuv has raw pointers into a Lua buffer or      *)
(* string; what keeps that alive is an entry of LLUV_LUA_REGISTRY whose    *)
(* key is the address of the request, and addresses are used again.  A     *)
(* file object owns a descriptor, and its __gc closes it.                  *)
(***************************************************************************)
EXTENDS Integers, FiniteSets

CONSTANTS
  Files,    (* file objects the program may come to have                   *)
  Reqs,     (* addresses of lluv_fs_request_t                              *)
  Bufs,     (* buffers and strings read into or written from               *)
  Fds,      (* descriptors the kernel hands out                            *)
  Given,    (* descriptors the program opened by other means               *)
  None

ASSUME FsAssumption == /\ Given \subseteq Fds
                       /\ None \notin Files \cup Bufs \cup Fds

VARIABLES
  loop,    (* the loop object: open, closed, or freed by the collector     *)
  file,
  req,
  reg,     (* LLUV_LUA_REGISTRY at the addresses of requests               *)
  buf,     (* the memory of buffers, and whether the program refers to it  *)
  fdtab    (* the kernel: closed, open, or open and not lluv's to close    *)

vars == <<loop, file, req, reg, buf, fdtab>>

(***************************************************************************)
(* A file object: whether its memory is in use; LLUV_FLAG_OPEN and         *)
(* LLUV_FLAG_NOCLOSE; its descriptor; whether the program refers to it.    *)
(***************************************************************************)
NoFile == [mem |-> "none", open |-> FALSE, noclose |-> FALSE, fd |-> None,
           user |-> FALSE]

(***************************************************************************)
(* A request.  at is where it is: unused, queued in libuv, or done by the  *)
(* worker.  op is path, open, close, file for an operation on an open      *)
(* file, or rw for a transfer, which also has a buffer.  file is the file  *)
(* it is about, ref tells whether file_ref refers to it, fd is what open   *)
(* has opened or close will close, ok the result of an open or a transfer. *)
(***************************************************************************)
NoReq  == [at |-> "unused", op |-> "none", file |-> None, ref |-> FALSE,
           buf |-> None, fd |-> None, ok |-> FALSE]

Init ==
  /\ loop = "open"
  /\ file = [f \in Files |-> NoFile]
  /\ req = [r \in Reqs |-> NoReq]
  /\ reg = [r \in Reqs |-> None]
  /\ buf = [b \in Bufs |-> [mem |-> "none", user |-> FALSE]]
  /\ fdtab = [d \in Fds |-> IF d \in Given THEN "given" ELSE "closed"]

(***************************************************************************)
(* The parts of a call.                                                    *)
(***************************************************************************)

(* lluv_check_file(L, i, LLUV_FLAG_OPEN) lets the call go on: the file is  *)
(* open and so is its loop.  What it does otherwise is in CloseNow.       *)
Checked(f) == /\ file[f].mem = "live" /\ file[f].user
              /\ loop = "open" /\ file[f].open

(* Mutant: open_fd's flag is lost.                                         *)
NewFile_Owns(d, noclose) ==
  [mem |-> "live", open |-> TRUE, noclose |-> FALSE, fd |-> d, user |-> TRUE]

(* lluv_file_create: the new object is the program's.                      *)
NewFile(d, noclose) ==
  [mem |-> "live", open |-> TRUE, noclose |-> noclose, fd |-> d, user |-> TRUE]

(* lluv_fs_request_new and a libuv call that accepts it; close, alone of   *)
(* the calls on a file, does not set file_ref.                             *)
Request(op, f, b, d) ==
  [at |-> "queued", op |-> op, file |-> f, ref |-> op \in {"file", "rw"},
   buf |-> b, fd |-> d, ok |-> FALSE]

Submit(r, q) == req[r].at = "unused" /\ req' = [req EXCEPT ![r] = q]

(* The kernel opens some closed descriptor, and closes one.                *)
Opened(d) == fdtab[d] = "closed" /\ fdtab' = [fdtab EXCEPT ![d] = "open"]
Closed(d) == fdtab' = [fdtab EXCEPT ![d] = "closed"]

(***************************************************************************)
(* Calls of the program.                                                   *)
(***************************************************************************)

(* uv.fs_unlink(path, ...) and the other functions on paths.  Without a    *)
(* callback, and on an error at once, nothing is left behind.              *)
lluv_fs_path(r) ==
  /\ loop = "open"
  /\ Submit(r, Request("path", None, None, None))
  /\ UNCHANGED <<loop, file, reg, buf, fdtab>>

(* uv.fs_open(path, flags, callback)                                       *)
lluv_fs_open(r) ==
  /\ loop = "open"
  /\ Submit(r, Request("open", None, None, None))
  /\ UNCHANGED <<loop, file, reg, buf, fdtab>>

(* uv.fs_open(path, flags); an error creates nothing.                      *)
lluv_fs_open_sync(f) ==
  /\ loop = "open"
  /\ file[f].mem = "none"
  /\ \E d \in Fds : Opened(d) /\ file' = [file EXCEPT ![f] = NewFile(d, FALSE)]
  /\ UNCHANGED <<loop, req, reg, buf>>

(* uv.fs_open_fd(fd, noclose): with noclose the descriptor stays the       *)
(* program's, without it is the file's from now on.                        *)
lluv_fs_open_fd(f) ==
  /\ loop = "open"
  /\ file[f].mem = "none"
  /\ \E d \in Fds, noclose \in BOOLEAN :
       /\ fdtab[d] = "given"
       /\ \A g \in Files : file[g].open => file[g].fd # d
       /\ file' = [file EXCEPT ![f] = NewFile(d, noclose)]
       /\ fdtab' = [fdtab EXCEPT ![d] = IF noclose THEN "given" ELSE "open"]
  /\ UNCHANGED <<loop, req, reg, buf>>

(* file:stat, sync, datasync, truncate, chown, chmod and utime             *)
lluv_file_op(f, r) ==
  /\ Checked(f)
  /\ Submit(r, Request("file", f, None, None))
  /\ UNCHANGED <<loop, file, reg, buf, fdtab>>

(* Mutant: an entry that is there already is not replaced.                 *)
Registered_Once(r, b) ==
  IF reg[r] = None THEN [reg EXCEPT ![r] = b] ELSE reg

(* lua_rawsetp(L, LLUV_LUA_REGISTRY, &req->req)                            *)
Registered(r, b) == [reg EXCEPT ![r] = b]

(* file:read and file:write with a callback.  read(length) allocates a     *)
(* buffer that the program never sees before the callback.                 *)
lluv_file_rw(f, r, b) ==
  /\ Checked(f)
  /\ \/ buf[b].user /\ UNCHANGED buf
     \/ buf[b].mem = "none"
        /\ buf' = [buf EXCEPT ![b] = [mem |-> "live", user |-> FALSE]]
  /\ Submit(r, Request("rw", f, b, None))
  /\ reg' = Registered(r, b)
  /\ UNCHANGED <<loop, file, fdtab>>

(* Without a callback the entry is removed when the call succeeds and left *)
(* behind, at the address of the freed request, when it fails.             *)
lluv_file_rw_sync(f, r, b) ==
  /\ Checked(f)
  /\ buf[b].user
  /\ req[r].at = "unused"
  /\ \E ok \in BOOLEAN : reg' = Registered(r, IF ok THEN None ELSE b)
  /\ UNCHANGED <<loop, file, req, buf, fdtab>>

(* Mutant: the file stays open until the callback.                         *)
lluv_file_close_StaysOpen(f, r) ==
  /\ Checked(f)
  /\ IF file[f].noclose THEN UNCHANGED req
     ELSE Submit(r, Request("close", f, None, file[f].fd))
  /\ UNCHANGED <<loop, file, reg, buf, fdtab>>

(* file:close(callback): closed for the program at once, for the kernel    *)
(* when libuv gets to it.  With NOCLOSE nothing is asked of libuv.         *)
lluv_file_close(f, r) ==
  /\ Checked(f)
  /\ file' = [file EXCEPT ![f].open = FALSE]
  /\ IF file[f].noclose THEN UNCHANGED req
     ELSE Submit(r, Request("close", f, None, file[f].fd))
  /\ UNCHANGED <<loop, reg, buf, fdtab>>

(* file:close() and __gc.  Every call, this one included, begins with      *)
(* lluv_check_file, which closes the descriptor of an open file whose loop *)
(* is closed, NOCLOSE or not.  If the loop is freed, its flag may read     *)
(* either way.                                                             *)
CloseNow(f) ==
  /\ file[f].mem = "live" /\ file[f].open
  /\ \/ loop # "closed" /\ file[f].noclose /\ UNCHANGED fdtab
     \/ ~(loop = "open" /\ file[f].noclose) /\ Closed(file[f].fd)

lluv_file_close_sync(f) ==
  /\ file[f].user
  /\ CloseNow(f)
  /\ file' = [file EXCEPT ![f].open = FALSE]
  /\ UNCHANGED <<loop, req, reg, buf>>

(* file:pipe(): the descriptor becomes that of a pipe handle.              *)
lluv_file_pipe(f) ==
  /\ Checked(f)
  /\ fdtab' = [fdtab EXCEPT ![file[f].fd] = "given"]
  /\ file' = [file EXCEPT ![f].open = FALSE]
  /\ UNCHANGED <<loop, req, reg, buf>>

(* loop:close(): libuv refuses while requests are in flight.               *)
lluv_loop_close ==
  /\ loop = "open"
  /\ \A r \in Reqs : req[r].at = "unused"
  /\ loop' = "closed"
  /\ UNCHANGED <<file, req, reg, buf, fdtab>>

(***************************************************************************)
(* libuv: a worker carries out the request; the loop calls back.           *)
(***************************************************************************)
Work(r) ==
  /\ req[r].at = "queued"
  /\ \/ /\ req[r].op = "open"
        /\ \E d \in Fds :
             /\ Opened(d)
             /\ req' = [req EXCEPT ![r].at = "done", ![r].ok = TRUE,
                                   ![r].fd = d]
     \/ /\ req[r].op = "close"
        /\ Closed(req[r].fd)
        /\ req' = [req EXCEPT ![r].at = "done", ![r].fd = None]
     \/ /\ req[r].op # "close"
        /\ \E ok \in (IF req[r].op = "rw" THEN BOOLEAN ELSE {FALSE}) :
             req' = [req EXCEPT ![r].at = "done", ![r].ok = ok]
        /\ UNCHANGED fdtab
  /\ UNCHANGED <<loop, file, reg, buf>>

(* lluv_push_fs_result_object: what the callback gets as its first         *)
(* argument.                                                               *)
Subject(q) ==
  CASE q.op = "path" -> "loop"
    [] q.op = "open" -> IF q.ok THEN "file" ELSE "nil"
    [] OTHER         -> IF q.ref THEN "file" ELSE "nil"

(* lluv_push_fs_result: a transfer that succeeded hands the buffer over    *)
(* and clears the entry; after an error the entry stays.                   *)
Result(r) ==
  IF req[r].op = "rw" /\ req[r].ok
  THEN /\ reg' = [reg EXCEPT ![r] = None]
       /\ buf' = [b \in Bufs |-> IF b = reg[r] THEN [buf[b] EXCEPT !.user = TRUE]
                                               ELSE buf[b]]
  ELSE UNCHANGED <<reg, buf>>

(* Mutant: the opened descriptor is not wrapped.                           *)
lluv_on_fs_NoFile(r) ==
  /\ req[r].at = "done"
  /\ UNCHANGED file
  /\ Result(r)
  /\ req' = [req EXCEPT ![r] = NoReq]
  /\ UNCHANGED <<loop, fdtab>>

(* Mutant: the request, and with it file_ref, is not freed.                *)
lluv_on_fs_KeepsRef(r) ==
  /\ req[r].at = "done"
  /\ IF Subject(req[r]) = "file" /\ req[r].op # "open"
     THEN file' = [file EXCEPT ![req[r].file].user = TRUE] ELSE UNCHANGED file
  /\ Result(r)
  /\ req' = [req EXCEPT ![r].at = "leaked"]
  /\ UNCHANGED <<loop, fdtab>>

(* The callback has what it is given as references of the program.         *)
lluv_on_fs(r) ==
  /\ req[r].at = "done"
  /\ \/ /\ req[r].op = "open" /\ req[r].ok
        /\ \E f \in Files :
             /\ file[f].mem = "none"
             /\ file' = [file EXCEPT ![f] = NewFile(req[r].fd, FALSE)]
     \/ /\ req[r].op # "open" /\ Subject(req[r]) = "file"
        /\ file' = [file EXCEPT ![req[r].file].user = TRUE]
     \/ /\ Subject(req[r]) # "file"
        /\ UNCHANGED file
  /\ Result(r)
  /\ req' = [req EXCEPT ![r] = NoReq]
  /\ UNCHANGED <<loop, fdtab>>

(***************************************************************************)
(* References and the collector.                                           *)
(***************************************************************************)

(* lluv_fbuf_new, or a string of the program's.                            *)
lluv_fbuf_new(b) ==
  /\ buf[b].mem = "none"
  /\ buf' = [buf EXCEPT ![b] = [mem |-> "live", user |-> TRUE]]
  /\ UNCHANGED <<loop, file, req, reg, fdtab>>

DropBuf(b) ==
  /\ buf[b].user
  /\ buf' = [buf EXCEPT ![b].user = FALSE]
  /\ UNCHANGED <<loop, file, req, reg, fdtab>>

DropFile(f) ==
  /\ file[f].user
  /\ file' = [file EXCEPT ![f].user = FALSE]
  /\ UNCHANGED <<loop, req, reg, buf, fdtab>>

BufReachable(b)  == buf[b].user \/ \E r \in Reqs : reg[r] = b
FileReachable(f) ==
  file[f].user \/ \E r \in Reqs : req[r].at # "unused" /\ req[r].ref
                                    /\ req[r].file = f

GcBuf(b) ==
  /\ buf[b].mem = "live" /\ ~BufReachable(b)
  /\ buf' = [buf EXCEPT ![b].mem = "none"]
  /\ UNCHANGED <<loop, file, req, reg, fdtab>>

(* __gc is lluv_file_close; the memory goes after it.                      *)
GcFile(f) ==
  /\ file[f].mem = "live" /\ ~FileReachable(f)
  /\ \/ CloseNow(f)
     \/ ~file[f].open /\ UNCHANGED fdtab
  /\ file' = [file EXCEPT ![f] = NoFile]
  /\ UNCHANGED <<loop, req, reg, buf>>

(* A closed loop is no longer in LLUV_LUA_REGISTRY; files do not refer to  *)
(* it.                                                                     *)
GcLoop ==
  /\ loop = "closed"
  /\ loop' = "freed"
  /\ UNCHANGED <<file, req, reg, buf, fdtab>>

(***************************************************************************)
(* The specification.                                                      *)
(***************************************************************************)
OnReq(r) ==
  \/ lluv_fs_path(r)
  \/ lluv_fs_open(r)
  \/ Work(r)
  \/ lluv_on_fs(r)
  \/ \E f \in Files :
       \/ lluv_file_op(f, r)
       \/ lluv_file_close(f, r)
       \/ \E b \in Bufs : lluv_file_rw(f, r, b) \/ lluv_file_rw_sync(f, r, b)

OnFile(f) ==
  \/ lluv_fs_open_sync(f)
  \/ lluv_fs_open_fd(f)
  \/ lluv_file_close_sync(f)
  \/ lluv_file_pipe(f)
  \/ DropFile(f)
  \/ GcFile(f)

OnBuf(b) == lluv_fbuf_new(b) \/ DropBuf(b) \/ GcBuf(b)

Next ==
  \/ \E r \in Reqs : OnReq(r)
  \/ \E f \in Files : OnFile(f)
  \/ \E b \in Bufs : OnBuf(b)
  \/ lluv_loop_close
  \/ GcLoop

Spec == Init /\ [][Next]_vars

(* Workers finish, the loop calls back, the collector runs again and       *)
(* again.                                                                  *)
Fairness ==
  /\ \A r \in Reqs : WF_vars(Work(r)) /\ WF_vars(lluv_on_fs(r))
  /\ \A f \in Files : WF_vars(GcFile(f))

FairSpec == Spec /\ Fairness

(***************************************************************************)
(* Safety.                                                                 *)
(***************************************************************************)
InFlight(r) == req[r].at # "unused"

(* libuv reads or writes Lua memory only while it is alive: the registry   *)
(* entry at the address of a transfer is the buffer of this transfer,      *)
(* also where an earlier request at the same address left its own behind,  *)
(* so that the callback gets the buffer that the call was given.  A file   *)
(* is neither collected nor, through __gc, closed by lluv itself while an  *)
(* operation on it is in flight.                                           *)
MemoryOutlivesRequest ==
  \A r \in Reqs :
    /\ InFlight(r) /\ req[r].op = "rw" =>
         reg[r] = req[r].buf /\ buf[req[r].buf].mem = "live"
    /\ InFlight(r) /\ req[r].op \in {"file", "rw"} =>
         file[req[r].file].mem = "live"

(* Who is responsible for a descriptor that lluv opened or took over: an   *)
(* open file, an open request about to become one, or a close request.     *)
FileOwners(d) == {f \in Files : file[f].open /\ file[f].fd = d}
ReqOwners(d)  == {r \in Reqs : /\ req[r].fd = d
                               /\ \/ req[r].op = "close" /\ req[r].at = "queued"
                                  \/ req[r].op = "open" /\ req[r].at = "done"}

(* Every descriptor has exactly one owner: none is leaked, and none is     *)
(* closed twice, which after its reuse would close another file's; and no  *)
(* file and no close request works on a descriptor that is closed.         *)
DescriptorsAreOwned ==
  \A d \in Fds :
    LET owners == Cardinality(FileOwners(d)) + Cardinality(ReqOwners(d))
    IN  /\ fdtab[d] = "open" => owners = 1
        /\ fdtab[d] = "closed" => owners = 0

(* A descriptor wrapped with noclose is not closed as long as the loop is  *)
(* open, whoever closes or collects the file.                              *)
NocloseIsKept ==
  [][\A d \in Fds : loop = "open" /\ fdtab[d] = "given" => fdtab'[d] # "closed"]_vars

(***************************************************************************)
(* Liveness.                                                               *)
(***************************************************************************)

(* The descriptor of a file that the program has forgotten is closed, by   *)
(* the finalizer, once the requests on it have called back.                *)
ForgottenFileIsClosed ==
  \A f \in Files :
    file[f].open /\ ~file[f].user ~> ~file[f].open \/ file[f].user
=============================================================================
