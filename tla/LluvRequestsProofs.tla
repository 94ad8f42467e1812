------------------------- MODULE LluvRequestsProofs -------------------------
(***************************************************************************)
(* Proofs about the requests, those of files (LluvFs) and those of handles *)
(* and name lookups (LluvReq), for any sets of files, requests, buffers,   *)
(* descriptors and handles and any number of references.                   *)
(*                                                                         *)
(* LluvFs.  The inductive invariant FsInv has three parts besides the      *)
(* shape of the records: what keeps the memory of a request alive          *)
(* (Anchors), who owns each descriptor (OwnedOnce, which says exactly one  *)
(* owner without counting), and of what kind a file's descriptor is.       *)
(*                                                                         *)
(* LluvReq.  The inductive invariant RefInv says of every number who holds *)
(* it and of every place of the registry who can reach it; a value names   *)
(* its owner and its field, so that no place has two owners.  The argument *)
(* has two layers:                                                         *)
(*   1. what luaL_ref, luaL_unref, lluv_req_new and lluv_req_free do to    *)
(*      the registry, place by place (RefFacts to FreeKept);               *)
(*   2. every action keeps RefInv (NewRequestKeeps to StepKeeps).          *)
(***************************************************************************)
EXTENDS LluvFs, LluvReq, Sequences, FiniteSetTheorems, TLAPS

(***************************************************************************)
(* Requests of files.                                                      *)
(***************************************************************************)

FileRec ==
  [mem : {"none", "live"}, open : BOOLEAN, noclose : BOOLEAN, fd : Fds \cup {None},
   user : BOOLEAN]

ReqRec ==
  [at : {"unused", "queued", "done"}, op : {"none", "path", "open", "close", "file", "rw"},
   file : Files \cup {None}, ref : BOOLEAN, buf : Bufs \cup {None},
   fd : Fds \cup {None}, ok : BOOLEAN]

BufRec == [mem : {"none", "live"}, user : BOOLEAN]

FsTypeOK ==
  /\ loop \in {"open", "closed", "freed"}
  /\ file \in [Files -> FileRec]
  /\ req \in [Reqs -> ReqRec]
  /\ reg \in [Reqs -> Bufs \cup {None}]
  /\ buf \in [Bufs -> BufRec]
  /\ fdtab \in [Fds -> {"closed", "open", "given"}]

(* A file that is open or referred to exists; an open one has a            *)
(* descriptor.                                                             *)
FileShape(f) ==
  /\ file[f].open => file[f].mem = "live" /\ file[f].fd \in Fds
  /\ file[f].user => file[f].mem = "live"

(* What each kind of request has.                                          *)
ReqShape(r) ==
  LET q == req[r]
  IN  /\ q.at = "unused" => q.op = "none"
      /\ q.ref <=> q.op \in {"file", "rw"}
      /\ q.op \in {"file", "rw"} => q.file \in Files
      /\ q.op = "rw" => q.buf \in Bufs
      /\ q.op = "close" /\ q.at = "queued" => q.fd \in Fds
      /\ q.op = "open" /\ q.at = "queued" => ~q.ok
      /\ q.op = "open" => IF q.ok THEN q.fd \in Fds ELSE q.fd = None

(* What a registry entry refers to, and what the program refers to, is     *)
(* alive.  The entry of a transfer is its buffer.                          *)
Anchors ==
  /\ \A b \in Bufs : buf[b].user => buf[b].mem = "live"
  /\ \A r \in Reqs : reg[r] \in Bufs => buf[reg[r]].mem = "live"
  /\ \A r \in Reqs : req[r].op = "rw" => reg[r] = req[r].buf
  /\ \A r \in Reqs : req[r].op \in {"file", "rw"} => file[req[r].file].mem = "live"

FileOwns(f, d) == file[f].open /\ file[f].fd = d
ReqOwns(r, d) ==
  /\ req[r].fd = d
  /\ \/ req[r].op = "close" /\ req[r].at = "queued"
     \/ req[r].op = "open" /\ req[r].at = "done"

(* An open descriptor has an owner, a closed one has none, and none has    *)
(* two.  One that is not lluv's can only be that of a file with NOCLOSE.   *)
OwnedOnce(d) ==
  /\ fdtab[d] = "open" =>
       (\E f \in Files : FileOwns(f, d)) \/ (\E r \in Reqs : ReqOwns(r, d))
  /\ \A f, g \in Files : FileOwns(f, d) /\ FileOwns(g, d) => f = g
  /\ \A r, s \in Reqs : ReqOwns(r, d) /\ ReqOwns(s, d) => r = s
  /\ \A f \in Files, r \in Reqs : ~(FileOwns(f, d) /\ ReqOwns(r, d))
  /\ \A f \in Files : FileOwns(f, d) =>
       fdtab[d] = IF file[f].noclose THEN "given" ELSE "open"
  /\ \A r \in Reqs : ReqOwns(r, d) => fdtab[d] = "open"

FsInv ==
  /\ FsTypeOK
  /\ \A f \in Files : FileShape(f)
  /\ \A r \in Reqs : ReqShape(r)
  /\ Anchors
  /\ \A d \in Fds : OwnedOnce(d)

(***************************************************************************)
(* Shapes.                                                                 *)
(***************************************************************************)

(* Records that the actions make.                                          *)
LEMMA NewRecords ==
  /\ NoFile \in FileRec /\ NoReq \in ReqRec
  /\ \A d \in Fds, n \in BOOLEAN : NewFile(d, n) \in FileRec
  /\ \A op \in {"path", "open", "close", "file", "rw"}, f \in Files \cup {None},
        b \in Bufs \cup {None}, d \in Fds \cup {None} : Request(op, f, b, d) \in ReqRec
  BY DEF NoFile, NoReq, NewFile, Request, FileRec, ReqRec

(* A file whose flag is cleared keeps the rest.                            *)
LEMMA OpenCleared ==
  ASSUME FsTypeOK, NEW f \in Files, file' = [file EXCEPT ![f].open = FALSE]
  PROVE  /\ file' \in [Files -> FileRec]
         /\ ~file'[f].open /\ file'[f].mem = file[f].mem /\ file'[f].user = file[f].user
         /\ file'[f].fd = file[f].fd /\ file'[f].noclose = file[f].noclose
         /\ \A g \in Files \ {f} : file'[g] = file[g]
  <1>. DEFINE s == [file[f] EXCEPT !.open = FALSE]
  <1>1. file' = [file EXCEPT ![f] = s] /\ file[f] \in FileRec /\ file \in [Files -> FileRec]
    BY DEF FsTypeOK
  <1>2. s \in FileRec
    BY <1>1 DEF FileRec
  <1>3. /\ ~s.open /\ s.mem = file[f].mem /\ s.user = file[f].user
        /\ s.fd = file[f].fd /\ s.noclose = file[f].noclose
    BY <1>1 DEF FileRec
  <1>. HIDE DEF s
  <1>. QED  BY <1>1, <1>2, <1>3

(* The same for the program's reference.                                   *)
LEMMA UserSet ==
  ASSUME FsTypeOK, NEW f \in Files, NEW v \in BOOLEAN, file' = [file EXCEPT ![f].user = v]
  PROVE  /\ file' \in [Files -> FileRec]
         /\ file'[f].user = v /\ file'[f].mem = file[f].mem /\ file'[f].open = file[f].open
         /\ file'[f].fd = file[f].fd /\ file'[f].noclose = file[f].noclose
         /\ \A g \in Files \ {f} : file'[g] = file[g]
  <1>. DEFINE s == [file[f] EXCEPT !.user = v]
  <1>1. file' = [file EXCEPT ![f] = s] /\ file[f] \in FileRec /\ file \in [Files -> FileRec]
    BY DEF FsTypeOK
  <1>2. s \in FileRec
    BY <1>1 DEF FileRec
  <1>3. /\ s.user = v /\ s.mem = file[f].mem /\ s.open = file[f].open
        /\ s.fd = file[f].fd /\ s.noclose = file[f].noclose
    BY <1>1 DEF FileRec
  <1>. HIDE DEF s
  <1>. QED  BY <1>1, <1>2, <1>3

(* The kernel's table.                                                     *)
LEMMA FdSet ==
  ASSUME FsTypeOK, NEW d \in Fds, NEW v \in {"closed", "open", "given"},
         fdtab' = [fdtab EXCEPT ![d] = v]
  PROVE  /\ fdtab' \in [Fds -> {"closed", "open", "given"}]
         /\ fdtab'[d] = v
         /\ \A e \in Fds \ {d} : fdtab'[e] = fdtab[e]
  BY DEF FsTypeOK

(***************************************************************************)
(* Steps.  Ownership changes in one of a few ways; each is a lemma.        *)
(***************************************************************************)

(* Nobody's descriptor changes.                                            *)
LEMMA SameOwners ==
  ASSUME FsInv, NEW d \in Fds, fdtab'[d] = fdtab[d],
         \A f \in Files : (FileOwns(f, d)' <=> FileOwns(f, d))
                            /\ (FileOwns(f, d) => file'[f].noclose = file[f].noclose),
         \A r \in Reqs : ReqOwns(r, d)' <=> ReqOwns(r, d)
  PROVE  OwnedOnce(d)'
  <1>1. OwnedOnce(d)
    BY DEF FsInv
  <1>. QED  BY <1>1 DEF OwnedOnce

(* A descriptor without an owner gets the file f.                          *)
LEMMA FileTakes ==
  ASSUME FsInv, NEW d \in Fds, NEW f \in Files,
         \A g \in Files : ~FileOwns(g, d), \A r \in Reqs : ~ReqOwns(r, d),
         FileOwns(f, d)', \A g \in Files \ {f} : ~FileOwns(g, d)',
         \A r \in Reqs : ~ReqOwns(r, d)',
         fdtab'[d] = IF file'[f].noclose THEN "given" ELSE "open"
  PROVE  OwnedOnce(d)'
  BY DEF OwnedOnce

(* A descriptor that is not open has lost its only owner.                  *)
LEMMA NoOwner ==
  ASSUME NEW d \in Fds, fdtab'[d] # "open",
         \A g \in Files : ~FileOwns(g, d)', \A r \in Reqs : ~ReqOwns(r, d)'
  PROVE  OwnedOnce(d)'
  BY DEF OwnedOnce

(* A request is the only owner.                                            *)
LEMMA ReqTakes ==
  ASSUME NEW d \in Fds, NEW r \in Reqs, fdtab'[d] = "open", ReqOwns(r, d)',
         \A g \in Files : ~FileOwns(g, d)', \A s \in Reqs \ {r} : ~ReqOwns(s, d)'
  PROVE  OwnedOnce(d)'
  BY DEF OwnedOnce

(* The only owner of a descriptor: nobody else has it.                     *)
LEMMA OnlyFile ==
  ASSUME FsInv, NEW f \in Files, file[f].open
  PROVE  /\ file[f].fd \in Fds /\ file[f].mem = "live"
         /\ \A g \in Files \ {f} : ~FileOwns(g, file[f].fd)
         /\ \A r \in Reqs : ~ReqOwns(r, file[f].fd)
         /\ fdtab[file[f].fd] = IF file[f].noclose THEN "given" ELSE "open"
  <1>1. file[f].fd \in Fds /\ file[f].mem = "live"
    BY DEF FsInv, FileShape
  <1>2. OwnedOnce(file[f].fd) /\ FileOwns(f, file[f].fd)
    BY <1>1 DEF FsInv, FileOwns
  <1>. QED  BY <1>1, <1>2 DEF OwnedOnce

(* The same for a request.                                                 *)
LEMMA OnlyReq ==
  ASSUME FsInv, NEW r \in Reqs, NEW d \in Fds, ReqOwns(r, d)
  PROVE  /\ \A g \in Files : ~FileOwns(g, d)
         /\ \A s \in Reqs \ {r} : ~ReqOwns(s, d)
         /\ fdtab[d] = "open"
  <1>1. OwnedOnce(d)
    BY DEF FsInv
  <1>. QED  BY <1>1 DEF OwnedOnce

(* A closed descriptor has no owner.                                       *)
LEMMA ClosedIsFree ==
  ASSUME FsInv, NEW d \in Fds, fdtab[d] = "closed"
  PROVE  (\A f \in Files : ~FileOwns(f, d)) /\ (\A r \in Reqs : ~ReqOwns(r, d))
  <1>1. OwnedOnce(d)
    BY DEF FsInv
  <1>. QED  BY <1>1 DEF OwnedOnce

(* Calls that hand a request to libuv which owns no descriptor.            *)
LEMMA SubmitKeeps ==
  ASSUME FsInv, NEW r \in Reqs, NEW op \in {"path", "open", "file", "rw"},
         NEW f \in Files \cup {None}, NEW b \in Bufs \cup {None},
         Submit(r, Request(op, f, b, None)),
         op \in {"file", "rw"} => f \in Files /\ file[f].mem = "live",
         op = "rw" => b \in Bufs /\ buf'[b].mem = "live" /\ reg' = [reg EXCEPT ![r] = b],
         op # "rw" => reg' = reg,
         buf' \in [Bufs -> BufRec],
         \A c \in Bufs : /\ buf[c].mem = "live" => buf'[c].mem = "live"
                         /\ buf'[c].user => buf'[c].mem = "live",
         UNCHANGED <<loop, file, fdtab>>
  PROVE  FsInv'
  <1>. DEFINE q == Request(op, f, b, None)
  <1>1. /\ q \in ReqRec /\ q.at = "queued" /\ q.op = op /\ q.file = f /\ q.buf = b
        /\ q.fd = None /\ ~q.ok /\ (q.ref <=> op \in {"file", "rw"})
    <2>1. q \in ReqRec
      BY NewRecords
    <2>2. q.at = "queued" /\ q.op = op /\ q.file = f /\ q.buf = b /\ q.fd = None
      BY DEF Request
    <2>3. ~q.ok /\ (q.ref <=> op \in {"file", "rw"})
      BY DEF Request
    <2>. QED  BY <2>1, <2>2, <2>3
  <1>2. req[r].at = "unused" /\ req' = [req EXCEPT ![r] = q]
    BY DEF Submit
  <1>. HIDE DEF q
  <1>3. /\ req' \in [Reqs -> ReqRec] /\ req'[r] = q
        /\ \A s \in Reqs \ {r} : req'[s] = req[s]
    BY <1>1, <1>2 DEF FsInv, FsTypeOK
  <1>4. reg' \in [Reqs -> Bufs \cup {None}] /\ \A s \in Reqs \ {r} : reg'[s] = reg[s]
    BY DEF FsInv, FsTypeOK
  <1>5. FsTypeOK'
    BY <1>3, <1>4 DEF FsInv, FsTypeOK
  <1>6. (\A g \in Files : FileShape(g)') /\ (\A s \in Reqs : ReqShape(s)')
    BY <1>1, <1>3, FsAssumption DEF FsInv, FileShape, ReqShape
  <1>7. Anchors'
    <2>1. \A s \in Reqs : reg'[s] \in Bufs => buf'[reg'[s]].mem = "live"
      BY <1>4 DEF FsInv, FsTypeOK, Anchors
    <2>2. \A s \in Reqs : req'[s].op = "rw" => reg'[s] = req'[s].buf
      BY <1>1, <1>3, <1>4 DEF FsInv, FsTypeOK, Anchors
    <2>3. \A s \in Reqs : req'[s].op \in {"file", "rw"} => file'[req'[s].file].mem = "live"
      BY <1>1, <1>3 DEF FsInv, FsTypeOK, Anchors
    <2>. QED  BY <2>1, <2>2, <2>3 DEF Anchors
  <1>8. ASSUME NEW d \in Fds  PROVE OwnedOnce(d)'
    <2>1. ~ReqOwns(r, d) /\ ~ReqOwns(r, d)'
      BY <1>1, <1>2, <1>3, FsAssumption DEF ReqOwns
    <2>2. \A s \in Reqs : ReqOwns(s, d)' <=> ReqOwns(s, d)
      BY <1>3, <2>1 DEF ReqOwns
    <2>. QED  BY <2>2, SameOwners DEF FileOwns
  <1>. QED  BY <1>5, <1>6, <1>7, <1>8 DEF FsInv

(* file:read and file:write with a callback.                               *)
LEMMA RwKeeps ==
  ASSUME FsInv, NEW f \in Files, NEW r \in Reqs, NEW b \in Bufs, lluv_file_rw(f, r, b)
  PROVE  FsInv'
  <1>1. /\ file[f].mem = "live" /\ Submit(r, Request("rw", f, b, None))
        /\ reg' = [reg EXCEPT ![r] = b] /\ UNCHANGED <<loop, file, fdtab>>
    BY DEF lluv_file_rw, Checked, Registered
  <1>2. /\ buf'[b].mem = "live" /\ buf' \in [Bufs -> BufRec]
        /\ \A c \in Bufs : /\ buf[c].mem = "live" => buf'[c].mem = "live"
                           /\ buf'[c].user => buf'[c].mem = "live"
    <2>1. CASE buf[b].user /\ UNCHANGED buf
      BY <2>1 DEF FsInv, FsTypeOK, Anchors
    <2>2. CASE buf' = [buf EXCEPT ![b] = [mem |-> "live", user |-> FALSE]]
      <3>1. [mem |-> "live", user |-> FALSE] \in BufRec
        BY DEF BufRec
      <3>. QED  BY <2>2, <3>1 DEF FsInv, FsTypeOK, Anchors
    <2>. QED  BY <2>1, <2>2 DEF lluv_file_rw
  <1>. QED  BY <1>1, <1>2, SubmitKeeps

(* A transfer without a callback leaves at most an entry behind.           *)
LEMMA RwSyncKeeps ==
  ASSUME FsInv, NEW f \in Files, NEW r \in Reqs, NEW b \in Bufs, lluv_file_rw_sync(f, r, b)
  PROVE  FsInv'
  <1>1. PICK c \in {b, None} : reg' = [reg EXCEPT ![r] = c]
    BY DEF lluv_file_rw_sync, Registered
  <1>2. buf[b].user /\ req[r].at = "unused" /\ UNCHANGED <<loop, file, req, buf, fdtab>>
    BY DEF lluv_file_rw_sync
  <1>3. FsTypeOK'
    BY <1>1, <1>2 DEF FsInv, FsTypeOK
  <1>4. (\A g \in Files : FileShape(g)') /\ (\A s \in Reqs : ReqShape(s)')
    BY <1>2 DEF FsInv, FileShape, ReqShape
  <1>5. Anchors'
    BY <1>1, <1>2, FsAssumption DEF FsInv, FsTypeOK, Anchors, ReqShape
  <1>6. \A d \in Fds : OwnedOnce(d)'
    BY <1>2, SameOwners DEF FileOwns, ReqOwns
  <1>. QED  BY <1>3, <1>4, <1>5, <1>6 DEF FsInv

(* A file object comes to be, with a descriptor that had no owner.         *)
LEMMA NewFileKeeps ==
  ASSUME FsInv, NEW f \in Files, file[f].mem = "none", NEW d \in Fds, NEW n \in BOOLEAN,
         \A g \in Files : ~FileOwns(g, d), \A r \in Reqs : ~ReqOwns(r, d),
         file' = [file EXCEPT ![f] = NewFile(d, n)],
         fdtab' = [fdtab EXCEPT ![d] = IF n THEN "given" ELSE "open"],
         UNCHANGED <<loop, req, reg, buf>>
  PROVE  FsInv'
  <1>. DEFINE s == NewFile(d, n)
  <1>1. s \in FileRec /\ s.open /\ s.fd = d /\ s.mem = "live" /\ s.noclose = n
    BY DEF NewFile, FileRec
  <1>2. file' = [file EXCEPT ![f] = s]
    OBVIOUS
  <1>. HIDE DEF s
  <1>3. /\ file' \in [Files -> FileRec] /\ file'[f] = s
        /\ \A g \in Files \ {f} : file'[g] = file[g]
    BY <1>1, <1>2 DEF FsInv, FsTypeOK
  <1>4. /\ fdtab' \in [Fds -> {"closed", "open", "given"}]
        /\ fdtab'[d] = (IF n THEN "given" ELSE "open")
        /\ \A e \in Fds \ {d} : fdtab'[e] = fdtab[e]
    BY FdSet DEF FsInv
  <1>5. FsTypeOK'
    BY <1>3, <1>4 DEF FsInv, FsTypeOK
  <1>6. (\A g \in Files : FileShape(g)') /\ (\A r \in Reqs : ReqShape(r)')
    BY <1>1, <1>3 DEF FsInv, FileShape, ReqShape
  <1>7. Anchors'
    BY <1>1, <1>3 DEF FsInv, ReqShape, Anchors
  <1>8. ~file[f].open
    BY DEF FsInv, FileShape
  <1>9. ASSUME NEW e \in Fds  PROVE OwnedOnce(e)'
    <2>1. CASE e = d
      <3>1. FileOwns(f, d)' /\ \A g \in Files \ {f} : ~FileOwns(g, d)'
        BY <1>1, <1>3 DEF FileOwns
      <3>2. \A r \in Reqs : ~ReqOwns(r, d)'
        BY DEF ReqOwns
      <3>. QED  BY <1>1, <1>3, <1>4, <2>1, <3>1, <3>2, FileTakes
    <2>2. CASE e # d
      BY <1>1, <1>3, <1>4, <1>8, <2>2, SameOwners DEF FileOwns, ReqOwns
    <2>. QED  BY <2>1, <2>2
  <1>. QED  BY <1>5, <1>6, <1>7, <1>9 DEF FsInv

(* A file gives up its descriptor, which then has no owner.                *)
LEMMA FileEnds ==
  ASSUME FsInv, NEW f \in Files, file' \in [Files -> FileRec],
         \A g \in Files \ {f} : file'[g] = file[g],
         ~file'[f].open, file'[f].user => file'[f].mem = "live",
         \A r \in Reqs : req[r].op \in {"file", "rw"} /\ req[r].file = f =>
                           file'[f].mem = "live",
         file[f].open =>
           \/ UNCHANGED fdtab /\ fdtab[file[f].fd] = "given"
           \/ \E v \in {"closed", "given"} : fdtab' = [fdtab EXCEPT ![file[f].fd] = v],
         ~file[f].open => UNCHANGED fdtab,
         UNCHANGED <<loop, req, reg, buf>>
  PROVE  FsInv'
  <1>1. /\ fdtab' \in [Fds -> {"closed", "open", "given"}]
        /\ \A e \in Fds : file[f].open /\ e = file[f].fd => fdtab'[e] # "open"
        /\ \A e \in Fds : ~(file[f].open /\ e = file[f].fd) => fdtab'[e] = fdtab[e]
    BY OnlyFile DEF FsInv, FsTypeOK
  <1>2. FsTypeOK'
    BY <1>1 DEF FsInv, FsTypeOK
  <1>3. (\A g \in Files : FileShape(g)') /\ (\A r \in Reqs : ReqShape(r)')
    BY DEF FsInv, FileShape, ReqShape
  <1>4. Anchors'
    BY DEF FsInv, Anchors, ReqShape
  <1>5. ASSUME NEW e \in Fds  PROVE OwnedOnce(e)'
    <2>1. CASE file[f].open /\ e = file[f].fd
      <3>1. (\A g \in Files : ~FileOwns(g, e)') /\ (\A r \in Reqs : ~ReqOwns(r, e)')
        BY <2>1, OnlyFile DEF FileOwns, ReqOwns
      <3>. QED  BY <1>1, <2>1, <3>1, NoOwner
    <2>2. CASE ~(file[f].open /\ e = file[f].fd)
      <3>1. \A g \in Files : (FileOwns(g, e)' <=> FileOwns(g, e))
                               /\ (FileOwns(g, e) => file'[g].noclose = file[g].noclose)
        BY <2>2 DEF FileOwns
      <3>2. \A r \in Reqs : ReqOwns(r, e)' <=> ReqOwns(r, e)
        BY DEF ReqOwns
      <3>. QED  BY <1>1, <2>2, <3>1, <3>2, SameOwners
    <2>. QED  BY <2>1, <2>2
  <1>. QED  BY <1>2, <1>3, <1>4, <1>5 DEF FsInv

(* What lluv_check_file or uv_fs_close does to the descriptor.             *)
LEMMA CloseNowFacts ==
  ASSUME FsInv, NEW f \in Files, CloseNow(f)
  PROVE  /\ file[f].open /\ file[f].fd \in Fds
         /\ \/ UNCHANGED fdtab /\ fdtab[file[f].fd] = "given"
            \/ \E v \in {"closed", "given"} : fdtab' = [fdtab EXCEPT ![file[f].fd] = v]
  BY OnlyFile DEF CloseNow, Closed

(* file:close() without a callback, file:pipe() and __gc.                  *)
LEMMA FileEndsKeeps ==
  ASSUME FsInv, NEW f \in Files,
         lluv_file_close_sync(f) \/ lluv_file_pipe(f) \/ GcFile(f)
  PROVE  FsInv'
  <1>1. FsTypeOK /\ FileShape(f)
    BY DEF FsInv
  <1>2. \A r \in Reqs : req[r].op \in {"file", "rw"} /\ req[r].file = f =>
                          file[f].mem = "live" /\ FileReachable(f)
    BY DEF FsInv, Anchors, ReqShape, FileReachable
  <1>3. CASE lluv_file_close_sync(f)
    <2>1. file' = [file EXCEPT ![f].open = FALSE] /\ UNCHANGED <<loop, req, reg, buf>>
      BY <1>3 DEF lluv_file_close_sync
    <2>2. file[f].mem = "live"
      BY <1>3 DEF lluv_file_close_sync, CloseNow
    <2>3. /\ file[f].open
          /\ \/ UNCHANGED fdtab /\ fdtab[file[f].fd] = "given"
             \/ \E v \in {"closed", "given"} : fdtab' = [fdtab EXCEPT ![file[f].fd] = v]
      BY <1>3, CloseNowFacts DEF lluv_file_close_sync
    <2>4. /\ file' \in [Files -> FileRec] /\ ~file'[f].open /\ file'[f].mem = "live"
          /\ \A g \in Files \ {f} : file'[g] = file[g]
      BY <1>1, <2>1, <2>2, OpenCleared
    <2>. QED  BY <2>1, <2>3, <2>4, FileEnds
  <1>4. CASE lluv_file_pipe(f)
    <2>1. file' = [file EXCEPT ![f].open = FALSE] /\ UNCHANGED <<loop, req, reg, buf>>
      BY <1>4 DEF lluv_file_pipe
    <2>2. file[f].mem = "live" /\ file[f].open
          /\ fdtab' = [fdtab EXCEPT ![file[f].fd] = "given"]
      BY <1>4 DEF lluv_file_pipe, Checked
    <2>3. /\ file' \in [Files -> FileRec] /\ ~file'[f].open /\ file'[f].mem = "live"
          /\ \A g \in Files \ {f} : file'[g] = file[g]
      BY <1>1, <2>1, <2>2, OpenCleared
    <2>. QED  BY <2>1, <2>2, <2>3, FileEnds
  <1>5. CASE GcFile(f)
    <2>1. /\ file' = [file EXCEPT ![f] = NoFile] /\ UNCHANGED <<loop, req, reg, buf>>
          /\ ~FileReachable(f)
      BY <1>5 DEF GcFile
    <2>2. NoFile \in FileRec /\ ~NoFile.open /\ ~NoFile.user
      BY NewRecords DEF NoFile
    <2>3. /\ file' \in [Files -> FileRec] /\ file'[f] = NoFile
          /\ \A g \in Files \ {f} : file'[g] = file[g]
      BY <1>1, <2>1, <2>2 DEF FsTypeOK
    <2>4. /\ file[f].open =>
               \/ UNCHANGED fdtab /\ fdtab[file[f].fd] = "given"
               \/ \E v \in {"closed", "given"} : fdtab' = [fdtab EXCEPT ![file[f].fd] = v]
          /\ ~file[f].open => UNCHANGED fdtab
      BY <1>5, CloseNowFacts DEF GcFile
    <2>. QED  BY <1>2, <2>1, <2>2, <2>3, <2>4, FileEnds
  <1>. QED  BY <1>3, <1>4, <1>5

(* file:close(callback): the descriptor passes from the file to the        *)
(* request, unless it is not lluv's.                                       *)
LEMMA CloseAsyncKeeps ==
  ASSUME FsInv, NEW f \in Files, NEW r \in Reqs, lluv_file_close(f, r)
  PROVE  FsInv'
  <1>1. /\ file' = [file EXCEPT ![f].open = FALSE] /\ UNCHANGED <<loop, reg, buf, fdtab>>
        /\ file[f].open
    BY DEF lluv_file_close, Checked
  <1>2. FsTypeOK /\ file[f].fd \in Fds /\ file[f].mem = "live"
    BY <1>1, OnlyFile DEF FsInv
  <1>3. /\ file' \in [Files -> FileRec] /\ ~file'[f].open /\ file'[f].mem = "live"
        /\ \A g \in Files \ {f} : file'[g] = file[g]
    BY <1>1, <1>2, OpenCleared
  <1>4. CASE file[f].noclose
    <2>1. UNCHANGED req
      BY <1>4 DEF lluv_file_close
    <2>2. fdtab[file[f].fd] = "given"
      BY <1>1, <1>4, OnlyFile
    <2>. QED  BY <1>1, <1>3, <2>1, <2>2, FileEnds
  <1>5. CASE ~file[f].noclose
    <2>0. PICK d \in Fds : d = file[f].fd
      BY <1>2
    <2>. DEFINE q == Request("close", f, None, d)
    <2>1. req[r].at = "unused" /\ req' = [req EXCEPT ![r] = q]
      BY <1>5, <2>0 DEF lluv_file_close, Submit
    <2>2. q \in ReqRec
      BY NewRecords
    <2>3. q.at = "queued" /\ q.op = "close" /\ q.fd = d /\ ~q.ref
      BY DEF Request
    <2>4. fdtab[d] = "open"
      BY <1>1, <1>5, <2>0, OnlyFile
    <2>5. \A g \in Files \ {f} : ~FileOwns(g, d)
      BY <1>1, <2>0, OnlyFile
    <2>6. \A s \in Reqs : ~ReqOwns(s, d)
      BY <1>1, <2>0, OnlyFile
    <2>7. FileOwns(f, d)
      BY <1>1, <2>0 DEF FileOwns
    <2>. HIDE DEF q
    <2>8. /\ req' \in [Reqs -> ReqRec] /\ req'[r] = q
          /\ \A s \in Reqs \ {r} : req'[s] = req[s]
      BY <1>2, <2>1, <2>2 DEF FsTypeOK
    <2>9. FsTypeOK'
      BY <1>1, <1>2, <1>3, <2>8 DEF FsTypeOK
    <2>10. (\A g \in Files : FileShape(g)') /\ (\A s \in Reqs : ReqShape(s)')
      BY <1>2, <1>3, <2>3, <2>8 DEF FsInv, FileShape, ReqShape
    <2>11. Anchors'
      BY <1>1, <1>2, <1>3, <2>3, <2>8 DEF FsInv, Anchors, ReqShape
    <2>12. ASSUME NEW e \in Fds  PROVE OwnedOnce(e)'
      <3>1. CASE e = d
        <4>1. ReqOwns(r, d)' /\ fdtab'[d] = "open"
          BY <1>1, <2>3, <2>4, <2>8 DEF ReqOwns
        <4>2. \A g \in Files : ~FileOwns(g, d)'
          BY <1>3, <2>5 DEF FileOwns
        <4>3. \A s \in Reqs \ {r} : ~ReqOwns(s, d)'
          BY <2>6, <2>8 DEF ReqOwns
        <4>. QED  BY <3>1, <4>1, <4>2, <4>3, ReqTakes
      <3>2. CASE e # d
        <4>1. \A g \in Files : (FileOwns(g, e)' <=> FileOwns(g, e))
                                 /\ (FileOwns(g, e) => file'[g].noclose = file[g].noclose)
          BY <1>3, <2>7, <3>2 DEF FileOwns
        <4>2. \A s \in Reqs : ReqOwns(s, e)' <=> ReqOwns(s, e)
          <5>1. ~ReqOwns(r, e) /\ ~ReqOwns(r, e)'
            BY <2>1, <2>3, <2>8, <3>2 DEF ReqOwns, FsInv, ReqShape
          <5>. QED  BY <2>8, <5>1 DEF ReqOwns
        <4>. QED  BY <1>1, <4>1, <4>2, SameOwners
      <3>. QED  BY <3>1, <3>2
    <2>. QED  BY <2>9, <2>10, <2>11, <2>12 DEF FsInv
  <1>. QED  BY <1>4, <1>5

(* A request that is queued becomes one that is done.                      *)
Done(q, p) ==
  /\ p \in ReqRec /\ p.at = "done" /\ p.op = q.op /\ p.file = q.file
  /\ p.ref = q.ref /\ p.buf = q.buf

(* What a worker does: an open gets a closed descriptor, a close gives its *)
(* own back, and the rest leaves the table alone.                          *)
LEMMA WorkFacts ==
  ASSUME FsInv, NEW r \in Reqs, Work(r)
  PROVE  /\ req[r].at = "queued" /\ UNCHANGED <<loop, file, reg, buf>>
         /\ \E p : /\ Done(req[r], p) /\ req' = [req EXCEPT ![r] = p]
                   /\ \/ /\ p.op = "open" /\ p.ok
                         /\ \E d \in Fds : Opened(d) /\ p.fd = d
                      \/ /\ p.op = "close" /\ Closed(req[r].fd)
                      \/ /\ p.op # "close" /\ UNCHANGED fdtab /\ p.fd = req[r].fd
                         /\ p.op = "open" => ~p.ok
  <1>. DEFINE q == req[r]
  <1>1. q \in ReqRec /\ req \in [Reqs -> ReqRec]
    BY DEF FsInv, FsTypeOK
  <1>2. ASSUME NEW d \in Fds, q.op = "open", Opened(d),
               req' = [req EXCEPT ![r].at = "done", ![r].ok = TRUE, ![r].fd = d]
        PROVE  \E p : /\ Done(q, p) /\ req' = [req EXCEPT ![r] = p]
                      /\ p.op = "open" /\ p.ok /\ p.fd = d
    <2>. DEFINE p == [q EXCEPT !.at = "done", !.ok = TRUE, !.fd = d]
    <2>1. p \in ReqRec
      BY <1>1 DEF ReqRec
    <2>2. /\ p.at = "done" /\ p.op = q.op /\ p.file = q.file /\ p.ref = q.ref /\ p.buf = q.buf
          /\ p.ok /\ p.fd = d
      BY <1>1 DEF ReqRec
    <2>3. req' = [req EXCEPT ![r] = p]
      BY <1>1, <1>2
    <2>. HIDE DEF p
    <2>. QED  BY <1>2, <2>1, <2>2, <2>3 DEF Done
  <1>3. ASSUME q.op = "close", req' = [req EXCEPT ![r].at = "done", ![r].fd = None]
        PROVE  \E p : Done(q, p) /\ req' = [req EXCEPT ![r] = p] /\ p.op = "close"
    <2>. DEFINE p == [q EXCEPT !.at = "done", !.fd = None]
    <2>1. p \in ReqRec
      BY <1>1 DEF ReqRec
    <2>2. p.at = "done" /\ p.op = q.op /\ p.file = q.file /\ p.ref = q.ref /\ p.buf = q.buf
      BY <1>1 DEF ReqRec
    <2>3. req' = [req EXCEPT ![r] = p]
      BY <1>1, <1>3
    <2>. HIDE DEF p
    <2>. QED  BY <1>3, <2>1, <2>2, <2>3 DEF Done
  <1>4. ASSUME NEW ok \in BOOLEAN, q.op # "close", q.op = "open" => ~ok,
               req' = [req EXCEPT ![r].at = "done", ![r].ok = ok]
        PROVE  \E p : /\ Done(q, p) /\ req' = [req EXCEPT ![r] = p]
                      /\ p.op # "close" /\ p.fd = q.fd /\ (p.op = "open" => ~p.ok)
    <2>. DEFINE p == [q EXCEPT !.at = "done", !.ok = ok]
    <2>1. p \in ReqRec
      BY <1>1 DEF ReqRec
    <2>2. /\ p.at = "done" /\ p.op = q.op /\ p.file = q.file /\ p.ref = q.ref /\ p.buf = q.buf
          /\ p.ok = ok /\ p.fd = q.fd
      BY <1>1 DEF ReqRec
    <2>3. req' = [req EXCEPT ![r] = p]
      BY <1>1, <1>4
    <2>. HIDE DEF p
    <2>. QED  BY <1>4, <2>1, <2>2, <2>3 DEF Done
  <1>5. q.at = "queued" /\ UNCHANGED <<loop, file, reg, buf>>
    BY DEF Work
  <1>6. CASE q.op = "open" /\ \E d \in Fds :
               /\ Opened(d)
               /\ req' = [req EXCEPT ![r].at = "done", ![r].ok = TRUE, ![r].fd = d]
    <2>1. PICK d \in Fds :
            /\ Opened(d)
            /\ req' = [req EXCEPT ![r].at = "done", ![r].ok = TRUE, ![r].fd = d]
      BY <1>6
    <2>2. PICK p : /\ Done(q, p) /\ req' = [req EXCEPT ![r] = p]
                   /\ p.op = "open" /\ p.ok /\ p.fd = d
      BY <1>2, <1>6, <2>1
    <2>. QED  BY <1>5, <2>1, <2>2
  <1>7. CASE q.op = "close" /\ Closed(q.fd)
             /\ req' = [req EXCEPT ![r].at = "done", ![r].fd = None]
    BY <1>3, <1>5, <1>7
  <1>8. CASE /\ q.op # "close" /\ UNCHANGED fdtab
             /\ \E ok \in (IF q.op = "rw" THEN BOOLEAN ELSE {FALSE}) :
                  req' = [req EXCEPT ![r].at = "done", ![r].ok = ok]
    <2>1. PICK ok \in BOOLEAN : /\ q.op = "open" => ~ok
                                /\ req' = [req EXCEPT ![r].at = "done", ![r].ok = ok]
      BY <1>8
    <2>. QED  BY <1>4, <1>5, <1>8, <2>1
  <1>. QED  BY <1>6, <1>7, <1>8 DEF Work

(* A worker's step.                                                        *)
LEMMA WorkKeeps ==
  ASSUME FsInv, NEW r \in Reqs, Work(r)
  PROVE  FsInv'
  <1>1. req[r].at = "queued" /\ UNCHANGED <<loop, file, reg, buf>>
    BY WorkFacts
  <1>2. PICK p : /\ Done(req[r], p) /\ req' = [req EXCEPT ![r] = p]
                 /\ \/ /\ p.op = "open" /\ p.ok
                       /\ \E d \in Fds : Opened(d) /\ p.fd = d
                    \/ /\ p.op = "close" /\ Closed(req[r].fd)
                    \/ /\ p.op # "close" /\ UNCHANGED fdtab /\ p.fd = req[r].fd
                       /\ p.op = "open" => ~p.ok
    BY WorkFacts
  <1>3. FsTypeOK /\ ReqShape(r)
    BY DEF FsInv
  <1>4. /\ req' \in [Reqs -> ReqRec] /\ req'[r] = p
        /\ \A s \in Reqs \ {r} : req'[s] = req[s]
    BY <1>2, <1>3 DEF FsTypeOK, Done
  <1>5. fdtab' \in [Fds -> {"closed", "open", "given"}]
    BY <1>2, <1>3 DEF FsTypeOK, Opened, Closed
  <1>6. FsTypeOK' /\ \A f \in Files : FileShape(f)'
    BY <1>1, <1>4, <1>5 DEF FsInv, FsTypeOK, FileShape
  <1>7. ReqShape(r)'
    <2>1. p.op = "open" => IF p.ok THEN p.fd \in Fds ELSE p.fd = None
      BY <1>1, <1>2, <1>3 DEF Done, ReqShape, ReqRec, FsTypeOK
    <2>. QED  BY <1>2, <1>3, <1>4, <2>1 DEF Done, ReqShape
  <1>8. \A s \in Reqs : ReqShape(s)'
    BY <1>4, <1>7 DEF FsInv, ReqShape
  <1>9. Anchors'
    BY <1>1, <1>2, <1>4 DEF FsInv, Anchors, Done
  <1>10. ASSUME NEW e \in Fds  PROVE OwnedOnce(e)'
    <2>1. \A f \in Files : (FileOwns(f, e)' <=> FileOwns(f, e))
                             /\ (FileOwns(f, e) => file'[f].noclose = file[f].noclose)
      BY <1>1 DEF FileOwns
    <2>2. \A s \in Reqs \ {r} : ReqOwns(s, e)' <=> ReqOwns(s, e)
      BY <1>4 DEF ReqOwns
    <2>3. ASSUME NEW d \in Fds, p.op = "open", Opened(d), p.fd = d  PROVE OwnedOnce(e)'
      <3>1. /\ fdtab[d] = "closed" /\ fdtab'[d] = "open"
            /\ \A x \in Fds \ {d} : fdtab'[x] = fdtab[x]
        BY <1>3, <2>3 DEF Opened, FsTypeOK
      <3>2. ReqOwns(r, e)' <=> e = d
        BY <1>2, <1>4, <2>3 DEF ReqOwns, Done
      <3>3. ~ReqOwns(r, e)
        BY <1>1, <1>2, <2>3 DEF ReqOwns, Done
      <3>4. CASE e = d
        BY <2>1, <2>2, <3>1, <3>2, <3>4, ClosedIsFree, ReqTakes
      <3>5. CASE e # d
        BY <2>1, <2>2, <3>1, <3>2, <3>3, <3>5, SameOwners
      <3>. QED  BY <3>4, <3>5
    <2>4. ASSUME p.op = "close", Closed(req[r].fd)  PROVE OwnedOnce(e)'
      <3>1. PICK d \in Fds : d = req[r].fd
        BY <1>1, <1>2, <1>3, <2>4 DEF ReqShape, Done
      <3>2. fdtab'[d] = "closed" /\ \A x \in Fds \ {d} : fdtab'[x] = fdtab[x]
        BY <1>3, <2>4, <3>1 DEF Closed, FsTypeOK
      <3>3. ReqOwns(r, d)
        BY <1>1, <1>2, <2>4, <3>1 DEF ReqOwns, Done
      <3>4. ~ReqOwns(r, e)'
        BY <1>2, <1>4, <2>4 DEF ReqOwns, Done
      <3>5. CASE e = d
        BY <2>1, <2>2, <3>2, <3>3, <3>4, <3>5, OnlyReq, NoOwner
      <3>6. CASE e # d
        <4>1. ~ReqOwns(r, e)
          BY <3>1, <3>6 DEF ReqOwns
        <4>. QED  BY <2>1, <2>2, <3>2, <3>4, <3>6, <4>1, SameOwners
      <3>. QED  BY <3>5, <3>6
    <2>5. ASSUME p.op # "close", UNCHANGED fdtab, p.fd = req[r].fd, p.op = "open" => ~p.ok
          PROVE  OwnedOnce(e)'
      <3>1. ~ReqOwns(r, e)
        BY <1>1, <1>2, <2>5 DEF ReqOwns, Done
      <3>2. ~ReqOwns(r, e)'
        BY <1>2, <1>4, <1>7, <2>5, FsAssumption DEF ReqOwns, ReqShape, Done
      <3>. QED  BY <2>1, <2>2, <2>5, <3>1, <3>2, SameOwners
    <2>. QED  BY <1>2, <2>3, <2>4, <2>5
  <1>. QED  BY <1>6, <1>8, <1>9, <1>10 DEF FsInv

(* lluv_push_fs_result leaves the memory of buffers and the entries of     *)
(* other requests alone.                                                   *)
LEMMA ResultFacts ==
  ASSUME FsInv, NEW r \in Reqs, Result(r)
  PROVE  /\ reg' \in [Reqs -> Bufs \cup {None}] /\ buf' \in [Bufs -> BufRec]
         /\ \A s \in Reqs \ {r} : reg'[s] = reg[s]
         /\ reg'[r] \in {reg[r], None}
         /\ \A b \in Bufs : buf'[b].mem = buf[b].mem /\ (buf'[b].user => buf[b].mem = "live")
  <1>1. /\ reg \in [Reqs -> Bufs \cup {None}] /\ buf \in [Bufs -> BufRec] /\ Anchors
    BY DEF FsInv, FsTypeOK
  <1>2. CASE req[r].op = "rw" /\ req[r].ok
    <2>1. /\ reg' = [reg EXCEPT ![r] = None]
          /\ buf' = [b \in Bufs |-> IF b = reg[r] THEN [buf[b] EXCEPT !.user = TRUE]
                                                  ELSE buf[b]]
      BY <1>2 DEF Result
    <2>2. ASSUME NEW b \in Bufs
          PROVE  /\ [buf[b] EXCEPT !.user = TRUE] \in BufRec
                 /\ [buf[b] EXCEPT !.user = TRUE].mem = buf[b].mem
      BY <1>1 DEF BufRec
    <2>3. buf' \in [Bufs -> BufRec] /\ \A b \in Bufs : buf'[b].mem = buf[b].mem
      BY <1>1, <2>1, <2>2
    <2>4. \A b \in Bufs : buf'[b].user => buf[b].mem = "live"
      BY <1>1, <2>1 DEF Anchors
    <2>. QED  BY <1>1, <2>1, <2>3, <2>4
  <1>3. CASE ~(req[r].op = "rw" /\ req[r].ok)
    <2>1. UNCHANGED <<reg, buf>>
      BY <1>3 DEF Result
    <2>. QED  BY <1>1, <2>1 DEF Anchors
  <1>. QED  BY <1>2, <1>3

(* The callback: an opened descriptor passes from the request to the new   *)
(* file; otherwise the request had none.                                   *)
LEMMA OnFsKeeps ==
  ASSUME FsInv, NEW r \in Reqs, lluv_on_fs(r)
  PROVE  FsInv'
  <1>1. /\ req[r].at = "done" /\ Result(r)
        /\ req' = [req EXCEPT ![r] = NoReq] /\ UNCHANGED <<loop, fdtab>>
    BY DEF lluv_on_fs
  <1>2. NoReq \in ReqRec /\ NoReq.at = "unused" /\ NoReq.op = "none" /\ ~NoReq.ref
    BY NewRecords DEF NoReq
  <1>3. FsTypeOK /\ ReqShape(r) /\ Anchors
    BY DEF FsInv
  <1>4. /\ req' \in [Reqs -> ReqRec] /\ req'[r] = NoReq
        /\ \A s \in Reqs \ {r} : req'[s] = req[s]
    BY <1>1, <1>2, <1>3 DEF FsTypeOK
  <1>5. \A s \in Reqs : ReqShape(s)'
    BY <1>2, <1>4 DEF FsInv, ReqShape
  <1>6. /\ reg' \in [Reqs -> Bufs \cup {None}] /\ buf' \in [Bufs -> BufRec]
        /\ \A s \in Reqs \ {r} : reg'[s] = reg[s]
        /\ reg'[r] \in {reg[r], None}
        /\ \A b \in Bufs : buf'[b].mem = buf[b].mem /\ (buf'[b].user => buf[b].mem = "live")
    BY <1>1, ResultFacts
  <1>7. \A e \in Fds : ~ReqOwns(r, e)' /\ \A s \in Reqs \ {r} : ReqOwns(s, e)' <=> ReqOwns(s, e)
    BY <1>2, <1>4 DEF ReqOwns
  <1>8. ASSUME file' \in [Files -> FileRec], \A f \in Files : FileShape(f)',
               \A f \in Files : file[f].mem = "live" => file'[f].mem = "live",
               \A e \in Fds : OwnedOnce(e)'
        PROVE  FsInv'
    <2>1. FsTypeOK'
      BY <1>1, <1>3, <1>4, <1>6, <1>8 DEF FsTypeOK
    <2>2. \A s \in Reqs : reg'[s] \in Bufs => buf'[reg'[s]].mem = "live"
      BY <1>3, <1>6, FsAssumption DEF Anchors
    <2>3. \A s \in Reqs : req'[s].op = "rw" => reg'[s] = req'[s].buf
      BY <1>2, <1>3, <1>4, <1>6 DEF Anchors
    <2>4. \A s \in Reqs : req'[s].op \in {"file", "rw"} => file'[req'[s].file].mem = "live"
      BY <1>2, <1>3, <1>4, <1>5, <1>8 DEF Anchors, ReqShape
    <2>5. Anchors'
      BY <1>6, <2>2, <2>3, <2>4 DEF Anchors
    <2>. QED  BY <1>5, <1>8, <2>1, <2>5 DEF FsInv
  <1>9. ASSUME req[r].op = "open", req[r].ok, NEW f \in Files, file[f].mem = "none",
               file' = [file EXCEPT ![f] = NewFile(req[r].fd, FALSE)]
        PROVE  FsInv'
    <2>1. PICK d \in Fds : d = req[r].fd
      BY <1>3, <1>9 DEF ReqShape
    <2>. DEFINE s == NewFile(d, FALSE)
    <2>2. s \in FileRec /\ s.open /\ s.fd = d /\ s.mem = "live" /\ ~s.noclose
      BY DEF NewFile, FileRec
    <2>3. file' = [file EXCEPT ![f] = s]
      BY <1>9, <2>1
    <2>. HIDE DEF s
    <2>4. /\ file' \in [Files -> FileRec] /\ file'[f] = s
          /\ \A g \in Files \ {f} : file'[g] = file[g]
      BY <1>3, <2>2, <2>3 DEF FsTypeOK
    <2>5. \A g \in Files : FileShape(g)' /\ (file[g].mem = "live" => file'[g].mem = "live")
      BY <2>2, <2>4 DEF FsInv, FileShape
    <2>6. ~file[f].open
      BY <1>9 DEF FsInv, FileShape
    <2>7. ReqOwns(r, d)
      BY <1>1, <1>9, <2>1 DEF ReqOwns
    <2>8. ASSUME NEW e \in Fds  PROVE OwnedOnce(e)'
      <3>1. CASE e = d
        <4>1. FileOwns(f, d)' /\ \A g \in Files \ {f} : FileOwns(g, d)' <=> FileOwns(g, d)
          BY <2>2, <2>4 DEF FileOwns
        <4>2. \A g \in Files \ {f} : ~FileOwns(g, d)'
          BY <2>7, <4>1, OnlyReq
        <4>3. \A x \in Reqs : ~ReqOwns(x, d)'
          BY <1>7, <2>7, OnlyReq
        <4>4. fdtab'[d] = "open"
          BY <1>1, <2>7, OnlyReq
        <4>. QED  BY <2>2, <2>4, <3>1, <4>1, <4>2, <4>3, <4>4 DEF OwnedOnce
      <3>2. CASE e # d
        <4>1. \A g \in Files : (FileOwns(g, e)' <=> FileOwns(g, e))
                                 /\ (FileOwns(g, e) => file'[g].noclose = file[g].noclose)
          BY <2>2, <2>4, <2>6, <3>2 DEF FileOwns
        <4>2. ~ReqOwns(r, e)
          BY <2>1, <3>2 DEF ReqOwns
        <4>. QED  BY <1>1, <1>7, <4>1, <4>2, SameOwners
      <3>. QED  BY <3>1, <3>2
    <2>. QED  BY <1>8, <2>4, <2>5, <2>8
  <1>10. ASSUME ~(req[r].op = "open" /\ req[r].ok), file' \in [Files -> FileRec],
                \A f \in Files : /\ file'[f].open = file[f].open /\ file'[f].fd = file[f].fd
                                 /\ file'[f].noclose = file[f].noclose
                                 /\ file'[f].mem = file[f].mem,
                \A f \in Files : file'[f].user => file[f].mem = "live"
         PROVE  FsInv'
    <2>1. \A e \in Fds : ~ReqOwns(r, e)
      BY <1>1, <1>3, <1>10, FsAssumption DEF ReqOwns, ReqShape
    <2>2. \A e \in Fds : OwnedOnce(e)'
      BY <1>1, <1>7, <1>10, <2>1, SameOwners DEF FileOwns
    <2>3. \A f \in Files : FileShape(f)'
      BY <1>10 DEF FsInv, FileShape
    <2>. QED  BY <1>8, <1>10, <2>2, <2>3
  <1>11. CASE req[r].op # "open" /\ Subject(req[r]) = "file"
              /\ file' = [file EXCEPT ![req[r].file].user = TRUE]
    <2>1. req[r].op \in {"file", "rw"} /\ req[r].file \in Files
      BY <1>3, <1>11 DEF Subject, ReqShape
    <2>2. file[req[r].file].mem = "live"
      BY <1>3, <2>1 DEF Anchors
    <2>3. PICK f \in Files : f = req[r].file
      BY <2>1
    <2>4. /\ file' \in [Files -> FileRec]
          /\ file'[f].user = TRUE /\ file'[f].mem = file[f].mem /\ file'[f].open = file[f].open
          /\ file'[f].fd = file[f].fd /\ file'[f].noclose = file[f].noclose
          /\ \A g \in Files \ {f} : file'[g] = file[g]
      BY <1>3, <1>11, <2>3, UserSet
    <2>5. \A g \in Files : file'[g].user => file[g].mem = "live"
      BY <2>2, <2>3, <2>4 DEF FsInv, FileShape
    <2>. QED  BY <1>10, <1>11, <2>4, <2>5
  <1>12. CASE Subject(req[r]) # "file" /\ UNCHANGED file
    <2>1. ~(req[r].op = "open" /\ req[r].ok)
      BY <1>12 DEF Subject
    <2>2. file' \in [Files -> FileRec] /\ \A f \in Files : file'[f].user => file[f].mem = "live"
      BY <1>3, <1>12 DEF FsInv, FsTypeOK, FileShape
    <2>. QED  BY <1>10, <1>12, <2>1, <2>2
  <1>. QED  BY <1>9, <1>11, <1>12 DEF lluv_on_fs

(* References and the collector of buffers; the loop.                      *)
LEMMA OthersKeep ==
  ASSUME FsInv,
         \/ \E f \in Files : DropFile(f)
         \/ \E b \in Bufs : OnBuf(b)
         \/ lluv_loop_close \/ GcLoop \/ UNCHANGED vars
  PROVE  FsInv'
  <1>1. FsTypeOK
    BY DEF FsInv
  <1>2. ASSUME UNCHANGED <<file, req, reg, fdtab>>, loop' \in {"open", "closed", "freed"},
               buf' \in [Bufs -> BufRec],
               \A b \in Bufs : buf'[b].user => buf'[b].mem = "live",
               \A r \in Reqs : reg[r] \in Bufs => buf'[reg[r]].mem = "live"
        PROVE  FsInv'
    <2>1. FsTypeOK' /\ (\A f \in Files : FileShape(f)') /\ (\A r \in Reqs : ReqShape(r)')
      BY <1>2 DEF FsInv, FsTypeOK, FileShape, ReqShape
    <2>2. Anchors'
      BY <1>2 DEF FsInv, Anchors
    <2>3. \A d \in Fds : OwnedOnce(d)'
      BY <1>2, SameOwners DEF FileOwns, ReqOwns
    <2>. QED  BY <2>1, <2>2, <2>3 DEF FsInv
  <1>3. ASSUME NEW f \in Files, DropFile(f)  PROVE FsInv'
    <2>1. file' = [file EXCEPT ![f].user = FALSE] /\ UNCHANGED <<loop, req, reg, buf, fdtab>>
      BY <1>3 DEF DropFile
    <2>2. /\ file' \in [Files -> FileRec]
          /\ ~file'[f].user /\ file'[f].mem = file[f].mem /\ file'[f].open = file[f].open
          /\ file'[f].fd = file[f].fd /\ file'[f].noclose = file[f].noclose
          /\ \A g \in Files \ {f} : file'[g] = file[g]
      BY <1>1, <2>1, UserSet
    <2>3. FsTypeOK' /\ (\A g \in Files : FileShape(g)') /\ (\A r \in Reqs : ReqShape(r)')
      BY <2>1, <2>2 DEF FsInv, FsTypeOK, FileShape, ReqShape
    <2>4. Anchors'
      BY <2>1, <2>2 DEF FsInv, Anchors, ReqShape
    <2>5. \A d \in Fds : OwnedOnce(d)'
      BY <2>1, <2>2, SameOwners DEF FileOwns, ReqOwns
    <2>. QED  BY <2>3, <2>4, <2>5 DEF FsInv
  <1>4. ASSUME NEW b \in Bufs, NEW s \in BufRec, buf' = [buf EXCEPT ![b] = s],
               s.user => s.mem = "live",
               s.mem # "live" => \A r \in Reqs : reg[r] # b,
               UNCHANGED <<loop, file, req, reg, fdtab>>
        PROVE  FsInv'
    <2>1. buf' \in [Bufs -> BufRec] /\ buf'[b] = s /\ \A c \in Bufs \ {b} : buf'[c] = buf[c]
      BY <1>1, <1>4 DEF FsTypeOK
    <2>2. \A c \in Bufs : buf'[c].user => buf'[c].mem = "live"
      BY <1>4, <2>1 DEF FsInv, Anchors
    <2>3. \A r \in Reqs : reg[r] \in Bufs => buf'[reg[r]].mem = "live"
      BY <1>4, <2>1 DEF FsInv, Anchors, BufRec
    <2>. QED  BY <1>1, <1>2, <1>4, <2>1, <2>2, <2>3 DEF FsTypeOK
  <1>5. ASSUME NEW b \in Bufs, lluv_fbuf_new(b)  PROVE FsInv'
    <2>. DEFINE s == [mem |-> "live", user |-> TRUE]
    <2>1. s \in BufRec /\ s.mem = "live"
      BY DEF BufRec
    <2>2. buf' = [buf EXCEPT ![b] = s] /\ UNCHANGED <<loop, file, req, reg, fdtab>>
      BY <1>5 DEF lluv_fbuf_new
    <2>. HIDE DEF s
    <2>. QED  BY <1>4, <2>1, <2>2
  <1>6. ASSUME NEW b \in Bufs, DropBuf(b)  PROVE FsInv'
    <2>. DEFINE s == [buf[b] EXCEPT !.user = FALSE]
    <2>1. buf[b] \in BufRec /\ buf[b].mem = "live"
      BY <1>1, <1>6 DEF FsTypeOK, FsInv, Anchors, DropBuf
    <2>2. s \in BufRec /\ s.mem = "live"
      BY <2>1 DEF BufRec
    <2>3. buf' = [buf EXCEPT ![b] = s] /\ UNCHANGED <<loop, file, req, reg, fdtab>>
      BY <1>6 DEF DropBuf
    <2>. HIDE DEF s
    <2>. QED  BY <1>4, <2>2, <2>3
  <1>7. ASSUME NEW b \in Bufs, GcBuf(b)  PROVE FsInv'
    <2>. DEFINE s == [buf[b] EXCEPT !.mem = "none"]
    <2>1. buf[b] \in BufRec /\ ~buf[b].user /\ \A r \in Reqs : reg[r] # b
      BY <1>1, <1>7 DEF FsTypeOK, GcBuf, BufReachable
    <2>2. s \in BufRec /\ ~s.user
      BY <2>1 DEF BufRec
    <2>3. buf' = [buf EXCEPT ![b] = s] /\ UNCHANGED <<loop, file, req, reg, fdtab>>
      BY <1>7 DEF GcBuf
    <2>. HIDE DEF s
    <2>. QED  BY <1>4, <2>1, <2>2, <2>3
  <1>8. ASSUME lluv_loop_close \/ GcLoop \/ UNCHANGED vars  PROVE FsInv'
    BY <1>1, <1>2, <1>8 DEF lluv_loop_close, GcLoop, vars, FsTypeOK, FsInv, Anchors
  <1>. QED  BY <1>3, <1>5, <1>6, <1>7, <1>8 DEF OnBuf

(* Every step of the specification.                                        *)
LEMMA FsStepKeeps == FsInv /\ [Next]_vars => FsInv'
  <1>. SUFFICES ASSUME FsInv, [Next]_vars  PROVE FsInv'
    OBVIOUS
  <1>1. buf \in [Bufs -> BufRec] /\ \A c \in Bufs : buf[c].user => buf[c].mem = "live"
    BY DEF FsInv, FsTypeOK, Anchors
  <1>2. ASSUME NEW r \in Reqs, lluv_fs_path(r)  PROVE FsInv'
    BY <1>1, <1>2, SubmitKeeps DEF lluv_fs_path
  <1>3. ASSUME NEW r \in Reqs, lluv_fs_open(r)  PROVE FsInv'
    BY <1>1, <1>3, SubmitKeeps DEF lluv_fs_open
  <1>4. ASSUME NEW r \in Reqs, NEW f \in Files, lluv_file_op(f, r)  PROVE FsInv'
    BY <1>1, <1>4, SubmitKeeps DEF lluv_file_op, Checked
  <1>5. ASSUME NEW r \in Reqs, OnReq(r)  PROVE FsInv'
    BY <1>2, <1>3, <1>4, <1>5, WorkKeeps, OnFsKeeps, CloseAsyncKeeps, RwKeeps, RwSyncKeeps
    DEF OnReq
  <1>6. ASSUME NEW f \in Files, lluv_fs_open_sync(f)  PROVE FsInv'
    <2>1. PICK d \in Fds : Opened(d) /\ file' = [file EXCEPT ![f] = NewFile(d, FALSE)]
      BY <1>6 DEF lluv_fs_open_sync
    <2>2. /\ file[f].mem = "none" /\ fdtab[d] = "closed" /\ UNCHANGED <<loop, req, reg, buf>>
          /\ fdtab' = [fdtab EXCEPT ![d] = IF FALSE THEN "given" ELSE "open"]
      BY <1>6, <2>1 DEF lluv_fs_open_sync, Opened
    <2>3. (\A g \in Files : ~FileOwns(g, d)) /\ (\A r \in Reqs : ~ReqOwns(r, d))
      BY <2>2, ClosedIsFree
    <2>. QED  BY <2>1, <2>2, <2>3, NewFileKeeps
  <1>7. ASSUME NEW f \in Files, lluv_fs_open_fd(f)  PROVE FsInv'
    <2>1. PICK d \in Fds, n \in BOOLEAN :
            /\ fdtab[d] = "given"
            /\ \A g \in Files : file[g].open => file[g].fd # d
            /\ file' = [file EXCEPT ![f] = NewFile(d, n)]
            /\ fdtab' = [fdtab EXCEPT ![d] = IF n THEN "given" ELSE "open"]
      BY <1>7 DEF lluv_fs_open_fd
    <2>2. file[f].mem = "none" /\ UNCHANGED <<loop, req, reg, buf>>
      BY <1>7 DEF lluv_fs_open_fd
    <2>3. \A g \in Files : ~FileOwns(g, d)
      BY <2>1 DEF FileOwns
    <2>4. \A r \in Reqs : ~ReqOwns(r, d)
      BY <2>1 DEF FsInv, OwnedOnce
    <2>. QED  BY <2>1, <2>2, <2>3, <2>4, NewFileKeeps
  <1>8. ASSUME NEW f \in Files, OnFile(f)  PROVE FsInv'
    BY <1>6, <1>7, <1>8, FileEndsKeeps, OthersKeep DEF OnFile
  <1>. QED  BY <1>5, <1>8, OthersKeep DEF Next

(* The initial state.                                                      *)
LEMMA FsInitInv == Init => FsInv
  <1>. SUFFICES ASSUME Init  PROVE FsInv
    OBVIOUS
  <1>1. /\ \A f \in Files : file[f] = NoFile
        /\ \A r \in Reqs : req[r] = NoReq /\ reg[r] = None
        /\ \A b \in Bufs : buf[b] = [mem |-> "none", user |-> FALSE]
        /\ \A d \in Fds : fdtab[d] # "open"
    BY DEF Init
  <1>2. ~NoFile.open /\ ~NoFile.user /\ NoReq.op = "none" /\ ~NoReq.ref
    BY DEF NoFile, NoReq
  <1>3. FsTypeOK
    <2>1. [mem |-> "none", user |-> FALSE] \in BufRec
      BY DEF BufRec
    <2>. QED  BY <2>1, NewRecords DEF Init, FsTypeOK
  <1>4. (\A f \in Files : FileShape(f)) /\ (\A r \in Reqs : ReqShape(r))
    BY <1>1, <1>2 DEF FileShape, ReqShape
  <1>5. Anchors
    BY <1>1, <1>2, FsAssumption DEF Anchors
  <1>6. \A d \in Fds : OwnedOnce(d)
    BY <1>1, <1>2 DEF OwnedOnce, FileOwns, ReqOwns
  <1>. QED  BY <1>3, <1>4, <1>5, <1>6 DEF FsInv

(***************************************************************************)
(* The results.                                                            *)
(***************************************************************************)

(* In every reachable state the records have their shape, memory that      *)
(* libuv uses is anchored and descriptors have one owner.                  *)
THEOREM FsInvariant == Spec => []FsInv
  <1>1. Init => FsInv
    BY FsInitInv
  <1>2. FsInv /\ [Next]_vars => FsInv'
    BY FsStepKeeps
  <1>. QED  BY <1>1, <1>2, PTL DEF Spec

(* No buffer and no file is collected under a request that libuv works on, *)
(* and the entry of a transfer is its own buffer, whatever an earlier      *)
(* request at the same address has left behind (lluv_fs.c).                *)
THEOREM MemoryIsAnchored == Spec => []MemoryOutlivesRequest
  <1>1. ASSUME FsInv  PROVE MemoryOutlivesRequest
    <2>1. Anchors /\ \A r \in Reqs : ReqShape(r)
      BY <1>1 DEF FsInv
    <2>. QED  BY <2>1 DEF MemoryOutlivesRequest, Anchors, ReqShape
  <1>. QED  BY <1>1, FsInvariant, PTL

(* No descriptor that lluv has opened or taken over is leaked or closed    *)
(* twice, through all orders of close, callback, worker and collector.     *)
THEOREM DescriptorsHaveOneOwner == Spec => []DescriptorsAreOwned
  <1>1. ASSUME FsInv, NEW d \in Fds
        PROVE  LET owners == Cardinality(FileOwners(d)) + Cardinality(ReqOwners(d))
               IN  /\ fdtab[d] = "open" => owners = 1
                   /\ fdtab[d] = "closed" => owners = 0
    <2>1. OwnedOnce(d)
      BY <1>1 DEF FsInv
    <2>2. /\ \A f : f \in FileOwners(d) <=> f \in Files /\ FileOwns(f, d)
          /\ \A r : r \in ReqOwners(d) <=> r \in Reqs /\ ReqOwns(r, d)
      BY DEF FileOwners, FileOwns, ReqOwners, ReqOwns
    <2>3. CASE \E f \in Files : FileOwns(f, d)
      <3>1. PICK f \in Files : FileOwns(f, d)
        BY <2>3
      <3>2. FileOwners(d) = {f} /\ ReqOwners(d) = {} /\ fdtab[d] # "closed"
        BY <2>1, <2>2, <3>1 DEF OwnedOnce
      <3>3. Cardinality(FileOwners(d)) = 1 /\ Cardinality(ReqOwners(d)) = 0
        BY <3>2, FS_Singleton, FS_EmptySet
      <3>. QED  BY <3>2, <3>3
    <2>4. CASE \E r \in Reqs : ReqOwns(r, d)
      <3>1. PICK r \in Reqs : ReqOwns(r, d)
        BY <2>4
      <3>2. ReqOwners(d) = {r} /\ FileOwners(d) = {} /\ fdtab[d] # "closed"
        BY <2>1, <2>2, <3>1 DEF OwnedOnce
      <3>3. Cardinality(FileOwners(d)) = 0 /\ Cardinality(ReqOwners(d)) = 1
        BY <3>2, FS_Singleton, FS_EmptySet
      <3>. QED  BY <3>2, <3>3
    <2>5. CASE (\A f \in Files : ~FileOwns(f, d)) /\ (\A r \in Reqs : ~ReqOwns(r, d))
      <3>1. ReqOwners(d) = {} /\ FileOwners(d) = {} /\ fdtab[d] # "open"
        BY <2>1, <2>2, <2>5 DEF OwnedOnce
      <3>2. Cardinality(FileOwners(d)) = 0 /\ Cardinality(ReqOwners(d)) = 0
        BY <3>1, FS_EmptySet
      <3>. QED  BY <3>1, <3>2
    <2>. QED  BY <2>3, <2>4, <2>5
  <1>2. FsInv => DescriptorsAreOwned
    BY <1>1 DEF DescriptorsAreOwned
  <1>. QED  BY <1>2, FsInvariant, PTL

(* Nobody closes a descriptor that is not lluv's while the loop is open:   *)
(* not file:close, not the collector, not a worker that is late.           *)
THEOREM NocloseHolds == Spec => NocloseIsKept
  <1>1. ASSUME FsInv, [Next]_vars, NEW d \in Fds, loop = "open", fdtab[d] = "given"
        PROVE  fdtab'[d] # "closed"
    <2>1. fdtab \in [Fds -> {"closed", "open", "given"}]
      BY <1>1 DEF FsInv, FsTypeOK
    <2>2. ASSUME NEW e \in Fds, fdtab[e] = "open", Closed(e)  PROVE fdtab'[d] # "closed"
      BY <1>1, <2>1, <2>2 DEF Closed
    <2>3. ASSUME NEW f \in Files, CloseNow(f)  PROVE fdtab'[d] # "closed"
      <3>1. file[f].open /\ (UNCHANGED fdtab \/ (~file[f].noclose /\ Closed(file[f].fd)))
        BY <1>1, <2>3 DEF CloseNow
      <3>. QED  BY <1>1, <2>2, <3>1, OnlyFile
    <2>4. ASSUME NEW r \in Reqs, Work(r)  PROVE fdtab'[d] # "closed"
      <3>1. CASE req[r].op = "close" /\ Closed(req[r].fd)
        <4>1. req[r].fd \in Fds /\ ReqOwns(r, req[r].fd)
          BY <1>1, <2>4, <3>1 DEF Work, FsInv, ReqShape, ReqOwns
        <4>. QED  BY <1>1, <2>2, <3>1, <4>1, OnlyReq
      <3>2. CASE \E e \in Fds : Opened(e)
        BY <1>1, <2>1, <3>2 DEF Opened
      <3>3. CASE UNCHANGED fdtab
        BY <1>1, <3>3
      <3>. QED  BY <2>4, <3>1, <3>2, <3>3 DEF Work
    <2>5. ASSUME NEW r \in Reqs, OnReq(r)  PROVE fdtab'[d] # "closed"
      BY <1>1, <2>4, <2>5
      DEF OnReq, lluv_fs_path, lluv_fs_open, lluv_on_fs, lluv_file_op, lluv_file_close,
          lluv_file_rw, lluv_file_rw_sync
    <2>6. ASSUME NEW f \in Files, OnFile(f)  PROVE fdtab'[d] # "closed"
      <3>1. CASE lluv_fs_open_sync(f)
        BY <1>1, <2>1, <3>1 DEF lluv_fs_open_sync, Opened
      <3>2. CASE lluv_fs_open_fd(f)
        BY <1>1, <2>1, <3>2 DEF lluv_fs_open_fd
      <3>3. CASE lluv_file_close_sync(f) \/ GcFile(f)
        BY <1>1, <2>3, <3>3 DEF lluv_file_close_sync, GcFile
      <3>4. CASE lluv_file_pipe(f)
        BY <1>1, <2>1, <3>4 DEF lluv_file_pipe
      <3>5. CASE DropFile(f)
        BY <1>1, <3>5 DEF DropFile
      <3>. QED  BY <2>6, <3>1, <3>2, <3>3, <3>4, <3>5 DEF OnFile
    <2>7. ASSUME \/ \E b \in Bufs : OnBuf(b)
                 \/ lluv_loop_close \/ GcLoop \/ UNCHANGED vars
          PROVE  fdtab'[d] # "closed"
      BY <1>1, <2>7 DEF OnBuf, lluv_fbuf_new, DropBuf, GcBuf, lluv_loop_close, GcLoop, vars
    <2>. QED  BY <1>1, <2>5, <2>6, <2>7 DEF Next
  <1>2. FsInv /\ [Next]_vars =>
          [\A d \in Fds : loop = "open" /\ fdtab[d] = "given" => fdtab'[d] # "closed"]_vars
    BY <1>1
  <1>. QED  BY <1>2, FsInvariant, PTL DEF Spec, NocloseIsKept

(***************************************************************************)
(* Requests of handles and name lookups.                                   *)
(***************************************************************************)

Fields == {"cb", "arg", "ctx"}
Kinds  == {"none", "write", "shutdown", "send", "addrinfo", "nameinfo"}
Refs   == Slots \cup {LUA_NOREF, LUA_REFNIL}

Values ==
  {nil} \cup {Value(r, f) : r \in Addrs, f \in Fields}
        \cup {Value(h, f) : h \in Sockets, f \in {"read", "close"}}

Registry == [Slots -> Values]

RqRec ==
  [at : {"none", "libuv"}, kind : Kinds, h : Sockets \cup {NoHandle},
   cb : Refs, arg : Refs, ctx : Refs]

SockRec == [closing : BOOLEAN, reading : BOOLEAN, read : Refs, close : Refs]

RefTypeOK ==
  /\ slot \in Registry
  /\ sock \in [Sockets -> SockRec]
  /\ rq \in [Addrs -> RqRec]
  /\ defers \in 0..MaxDefers
  /\ pool = [busy |-> FALSE, own |-> 0]
  /\ crashed \in BOOLEAN

(* A request that is not in libuv has no references.                       *)
IdleHoldsNothing == \A r \in Addrs : rq[r].at = "none" => rq[r] = NoRq

(* The close callback is set by close only; a reader has its callback.     *)
SockOwn(h) ==
  /\ Owned(sock[h].read, h, "read") /\ Owned(sock[h].close, h, "close")
  /\ sock[h].reading => sock[h].read \in Slots
  /\ ~sock[h].closing => sock[h].close = LUA_NOREF

RqOwn(r) ==
  /\ Owned(rq[r].cb, r, "cb") /\ Owned(rq[r].arg, r, "arg")
  /\ Owned(rq[r].ctx, r, "ctx")
  /\ rq[r].kind \in {"write", "send"} => rq[r].arg \in Slots
  /\ rq[r].kind \in {"addrinfo", "nameinfo"} => rq[r].cb \in Slots

(* Who can reach the value at place i.                                     *)
Accounted(i) ==
  \/ slot[i] = nil
  \/ \E r \in Addrs :
       \/ slot[i] = Value(r, "cb") /\ rq[r].cb = i
       \/ slot[i] = Value(r, "arg") /\ rq[r].arg = i
       \/ slot[i] = Value(r, "ctx") /\ rq[r].ctx = i
  \/ \E h \in Sockets :
       \/ slot[i] = Value(h, "close") /\ sock[h].close = i
       \/ slot[i] = Value(h, "read")

RefInv ==
  /\ RefTypeOK
  /\ IdleHoldsNothing
  /\ \A r \in Addrs : RqOwn(r)
  /\ \A h \in Sockets : SockOwn(h)
  /\ \A i \in Slots : Accounted(i)

(***************************************************************************)
(* The registry.                                                           *)
(***************************************************************************)

(* Values name their owner and their field, and none of them is nil.       *)
LEMMA ValueFacts ==
  /\ \A o, f : Value(o, f) # nil
  /\ \A o, f, p, e : Value(o, f) = Value(p, e) <=> o = p /\ f = e
  <1>1. ASSUME NEW o, NEW f  PROVE Value(o, f) # nil
    <2>1. Len(Value(o, f)) = 2 /\ Len(nil) = 1
      BY DEF Value, nil
    <2>. QED  BY <2>1
  <1>2. \A o, f, p, e : Value(o, f) = Value(p, e) <=> o = p /\ f = e
    BY DEF Value
  <1>. QED  BY <1>1, <1>2

(* The special numbers name no place.                                      *)
LEMMA SpecialNumbers ==
  /\ LUA_NOREF \notin Slots /\ LUA_REFNIL \notin Slots
  /\ LUA_NOREF \in Refs /\ LUA_REFNIL \in Refs /\ Slots \subseteq Refs
  BY ReqAssumption DEF Slots, LUA_NOREF, LUA_REFNIL, Refs

(* luaL_ref takes a free place and leaves the others alone.                *)
LEMMA RefFacts ==
  ASSUME NEW g \in Registry, NEW v \in Values, v # nil, Free(g) # {}
  PROVE  /\ Number(g) \in Slots /\ g[Number(g)] = nil
         /\ Ref(g, v) \in Registry
         /\ \A i \in Slots :
              Ref(g, v)[i] = IF i = Number(g) THEN v ELSE g[i]
         /\ Free(Ref(g, v)) = Free(g) \ {Number(g)}
  <1>1. Number(g) \in Free(g)
    BY DEF Number
  <1>2. Number(g) \in Slots /\ g[Number(g)] = nil
    BY <1>1 DEF Free
  <1>3. /\ Ref(g, v) \in Registry
        /\ \A i \in Slots : Ref(g, v)[i] = IF i = Number(g) THEN v ELSE g[i]
    BY <1>2 DEF Ref, Registry
  <1>4. Free(Ref(g, v)) = Free(g) \ {Number(g)}
    BY <1>2, <1>3 DEF Free
  <1>. QED  BY <1>2, <1>3, <1>4

(* luaL_unref empties one place, or none.                                  *)
LEMMA UnrefFacts ==
  ASSUME NEW g \in Registry, NEW n
  PROVE  /\ Unref(g, n) \in Registry
         /\ \A i \in Slots : Unref(g, n)[i] = IF i = n THEN nil ELSE g[i]
  BY DEF Unref, Registry, Values

(* lluv_req_free empties the places of the request.                        *)
LEMMA FreeFacts ==
  ASSUME NEW g \in Registry, NEW q
  PROVE  /\ lluv_req_free(g, q) \in Registry
         /\ \A i \in Slots :
              lluv_req_free(g, q)[i] =
                IF i \in {q.cb, q.arg, q.ctx} THEN nil ELSE g[i]
  <1>. DEFINE g1 == Unref(g, q.cb)
              g2 == Unref(g1, q.arg)
  <1>1. /\ g1 \in Registry
        /\ \A i \in Slots : g1[i] = IF i = q.cb THEN nil ELSE g[i]
    BY UnrefFacts
  <1>2. /\ g2 \in Registry
        /\ \A i \in Slots : g2[i] = IF i = q.arg THEN nil ELSE g1[i]
    <2>. HIDE DEF g1
    <2>. QED  BY <1>1, UnrefFacts
  <1>3. /\ Unref(g2, q.ctx) \in Registry
        /\ \A i \in Slots : Unref(g2, q.ctx)[i] = IF i = q.ctx THEN nil ELSE g2[i]
    <2>. HIDE DEF g2
    <2>. QED  BY <1>2, UnrefFacts
  <1>4. lluv_req_free(g, q) = Unref(g2, q.ctx)
    BY DEF lluv_req_free
  <1>. HIDE DEF g1, g2
  <1>. QED  BY <1>1, <1>2, <1>3, <1>4

(* A reference leaves enough free places for the others of the request.    *)
LEMMA RoomLeft ==
  ASSUME NEW g \in Registry, NEW c, IsFiniteSet(c),
         Cardinality(Free(g)) >= Cardinality(c), NEW f \in c,
         NEW v \in Values, v # nil
  PROVE  /\ Free(g) # {}
         /\ Cardinality(Free(Ref(g, v))) >= Cardinality(c \ {f})
  <1>1. IsFiniteSet(Slots)
    BY FS_Interval, ReqAssumption DEF Slots
  <1>2. IsFiniteSet(Free(g))
    BY <1>1, FS_Subset DEF Free
  <1>3. Cardinality(c) \in Nat /\ Cardinality(Free(g)) \in Nat
    BY <1>2, FS_CardinalityType
  <1>4. Cardinality(c \ {f}) = Cardinality(c) - 1
    BY FS_RemoveElement
  <1>5. Cardinality(c) # 0
    BY FS_EmptySet
  <1>6. Free(g) # {}
    BY <1>3, <1>5, FS_EmptySet
  <1>7. Number(g) \in Free(g) /\ Free(Ref(g, v)) = Free(g) \ {Number(g)}
    BY <1>6, RefFacts DEF Free
  <1>8. Cardinality(Free(Ref(g, v))) = Cardinality(Free(g)) - 1
    BY <1>2, <1>7, FS_RemoveElement
  <1>. QED  BY <1>3, <1>4, <1>6, <1>8

(* What lluv_req_new keeps: free places, one for each of c, that hold the  *)
(* values of the request; the other places stay as they are.               *)
KeptFor(g, r, c, k) ==
  /\ k.slot \in Registry
  /\ k.cb \in Refs /\ k.arg \in Refs /\ k.ctx \in Refs
  /\ k.cb \in Slots <=> "cb" \in c
  /\ k.arg \in Slots <=> "arg" \in c
  /\ k.ctx \in Slots <=> "ctx" \in c
  /\ k.cb \in Slots => g[k.cb] = nil /\ k.slot[k.cb] = Value(r, "cb")
  /\ k.arg \in Slots => g[k.arg] = nil /\ k.slot[k.arg] = Value(r, "arg")
  /\ k.ctx \in Slots => g[k.ctx] = nil /\ k.slot[k.ctx] = Value(r, "ctx")
  /\ \A i \in Slots : i \notin {k.cb, k.arg, k.ctx} => k.slot[i] = g[i]

(* There is a place for each reference.                                    *)
Room(g, c) ==
  /\ g \in Registry /\ IsFiniteSet(c)
  /\ Cardinality(Free(g)) >= Cardinality(c)

(* One optional reference: what is done, and what that means.              *)
Takes(g, f, c, v, h) == h = IF f \in c THEN Ref(g, v) ELSE g

Taken(g, f, c, v, h) ==
  /\ h \in Registry
  /\ f \in c => /\ Number(g) \in Slots /\ g[Number(g)] = nil
                /\ \A i \in Slots : h[i] = IF i = Number(g) THEN v ELSE g[i]
  /\ f \notin c => h = g

(* One reference of a new request.                                         *)
LEMMA TakeOne ==
  ASSUME NEW g, NEW c, Room(g, c), NEW f, NEW v \in Values, v # nil,
         NEW h, Takes(g, f, c, v, h)
  PROVE  Taken(g, f, c, v, h) /\ Room(h, c \ {f})
  <1>1. /\ g \in Registry /\ IsFiniteSet(c)
        /\ Cardinality(Free(g)) >= Cardinality(c)
    BY DEF Room
  <1>2. IsFiniteSet(c \ {f})
    BY <1>1, FS_RemoveElement
  <1>3. CASE f \in c
    <2>1. h = Ref(g, v)
      BY <1>3 DEF Takes
    <2>2. Free(g) # {} /\ Cardinality(Free(h)) >= Cardinality(c \ {f})
      BY <1>1, <1>3, <2>1, RoomLeft
    <2>3. Taken(g, f, c, v, h)
      BY <1>1, <1>3, <2>1, <2>2, RefFacts DEF Taken
    <2>. QED  BY <1>2, <1>3, <2>2, <2>3 DEF Taken, Room
  <1>4. CASE f \notin c
    <2>1. c \ {f} = c /\ h = g
      BY <1>4 DEF Takes
    <2>. QED  BY <1>1, <1>4, <2>1 DEF Taken, Room
  <1>. QED  BY <1>3, <1>4

(* lluv_req_new takes places of its own.                                   *)
LEMMA KeptFacts ==
  ASSUME NEW g \in Registry, NEW r \in Addrs, NEW c \in SUBSET Fields,
         Cardinality(Free(g)) >= Cardinality(c)
  PROVE  KeptFor(g, r, c, Kept(g, r, c))
  <1>. DEFINE k  == Kept(g, r, c)
              g1 == IF "ctx" \in c THEN Ref(g, Value(r, "ctx")) ELSE g
              g2 == IF "cb" \in c THEN Ref(g1, Value(r, "cb")) ELSE g1
              g3 == IF "arg" \in c THEN Ref(g2, Value(r, "arg")) ELSE g2
              c1 == c \ {"ctx"}
              c2 == c1 \ {"cb"}
  <1>1. IsFiniteSet(c)
    <2>1. IsFiniteSet({"cb"} \cup {"arg"})
      BY FS_AddElement, FS_Singleton
    <2>2. IsFiniteSet(({"cb"} \cup {"arg"}) \cup {"ctx"})
      BY <2>1, FS_AddElement
    <2>3. Fields = ({"cb"} \cup {"arg"}) \cup {"ctx"}
      BY DEF Fields
    <2>. QED  BY <2>2, <2>3, FS_Subset
  <1>2. \A f \in Fields : Value(r, f) \in Values /\ Value(r, f) # nil
    BY ValueFacts DEF Values
  <1>3. Taken(g, "ctx", c, Value(r, "ctx"), g1) /\ Room(g1, c1)
    <2>1. Room(g, c) /\ Takes(g, "ctx", c, Value(r, "ctx"), g1)
      BY <1>1 DEF Room, Takes
    <2>2. Value(r, "ctx") \in Values /\ Value(r, "ctx") # nil
      BY <1>2 DEF Fields
    <2>. HIDE DEF g1
    <2>. QED  BY <2>1, <2>2, TakeOne
  <1>4. Taken(g1, "cb", c1, Value(r, "cb"), g2) /\ Room(g2, c2)
    <2>1. Takes(g1, "cb", c1, Value(r, "cb"), g2)
      BY DEF Takes
    <2>2. Value(r, "cb") \in Values /\ Value(r, "cb") # nil
      BY <1>2 DEF Fields
    <2>. HIDE DEF g1, g2, c1
    <2>. QED  BY <1>3, <2>1, <2>2, TakeOne
  <1>5. Taken(g2, "arg", c2, Value(r, "arg"), g3)
    <2>1. Takes(g2, "arg", c2, Value(r, "arg"), g3)
      BY DEF Takes
    <2>2. Value(r, "arg") \in Values /\ Value(r, "arg") # nil
      BY <1>2 DEF Fields
    <2>. HIDE DEF g2, g3, c2
    <2>. QED  BY <1>4, <2>1, <2>2, TakeOne
  <1>6. /\ k.slot = g3
        /\ k.ctx = IF "ctx" \in c THEN Number(g) ELSE LUA_NOREF
        /\ k.cb = IF "cb" \in c THEN Number(g1) ELSE LUA_REFNIL
        /\ k.arg = IF "arg" \in c THEN Number(g2) ELSE LUA_NOREF
    BY DEF Kept
  <1>7. ("cb" \in c1 <=> "cb" \in c) /\ ("arg" \in c2 <=> "arg" \in c)
    OBVIOUS
  <1>. HIDE DEF k, g1, g2, g3, c1, c2
  <1>8. /\ k.slot \in Registry
        /\ k.cb \in Refs /\ k.arg \in Refs /\ k.ctx \in Refs
        /\ k.cb \in Slots <=> "cb" \in c
        /\ k.arg \in Slots <=> "arg" \in c
        /\ k.ctx \in Slots <=> "ctx" \in c
    BY <1>3, <1>4, <1>5, <1>6, <1>7, SpecialNumbers DEF Taken
  <1>9. /\ \A i \in Slots : i # k.ctx => g1[i] = g[i]
        /\ \A i \in Slots : i # k.cb => g2[i] = g1[i]
        /\ \A i \in Slots : i # k.arg => g3[i] = g2[i]
        /\ k.ctx \in Slots => g[k.ctx] = nil /\ g1[k.ctx] = Value(r, "ctx")
        /\ k.cb \in Slots => g1[k.cb] = nil /\ g2[k.cb] = Value(r, "cb")
        /\ k.arg \in Slots => g2[k.arg] = nil /\ g3[k.arg] = Value(r, "arg")
    BY <1>3, <1>4, <1>5, <1>6, <1>7, <1>8 DEF Taken
  <1>10. /\ k.cb \in Slots => k.cb # k.ctx
         /\ k.arg \in Slots => k.arg # k.cb /\ k.arg # k.ctx
    BY <1>9, ValueFacts
  <1>. QED  BY <1>6, <1>8, <1>9, <1>10 DEF KeptFor, k

(* A request that is refused leaves no trace: freeing what was just kept   *)
(* restores the registry.                                                  *)
LEMMA FreeKept ==
  ASSUME NEW g \in Registry, NEW r \in Addrs, NEW c \in SUBSET Fields,
         Cardinality(Free(g)) >= Cardinality(c), NEW kind, NEW h
  PROVE  lluv_req_free(Kept(g, r, c).slot,
                       lluv_req_new(kind, h, Kept(g, r, c))) = g
  <1>. DEFINE k == Kept(g, r, c)
              q == lluv_req_new(kind, h, k)
  <1>1. KeptFor(g, r, c, k)
    BY KeptFacts
  <1>2. q.cb = k.cb /\ q.arg = k.arg /\ q.ctx = k.ctx
    BY DEF lluv_req_new
  <1>. HIDE DEF k, q
  <1>3. /\ lluv_req_free(k.slot, q) \in Registry
        /\ \A i \in Slots :
              lluv_req_free(k.slot, q)[i] =
                IF i \in {q.cb, q.arg, q.ctx} THEN nil ELSE k.slot[i]
    <2>1. k.slot \in Registry
      BY <1>1 DEF KeptFor
    <2>. DEFINE s == k.slot
    <2>2. s \in Registry
      BY <2>1
    <2>. HIDE DEF s
    <2>3. /\ lluv_req_free(s, q) \in Registry
          /\ \A i \in Slots :
               lluv_req_free(s, q)[i] =
                 IF i \in {q.cb, q.arg, q.ctx} THEN nil ELSE s[i]
      BY <2>2, FreeFacts
    <2>. QED  BY <2>3 DEF s
  <1>4. \A i \in Slots : lluv_req_free(k.slot, q)[i] = g[i]
    BY <1>1, <1>2, <1>3 DEF KeptFor
  <1>5. lluv_req_free(k.slot, q) = g
    BY <1>3, <1>4 DEF Registry
  <1>. QED  BY <1>5 DEF k, q

(***************************************************************************)
(* Steps.  A place that a step changes was free or belonged to the owner   *)
(* that takes the step; the others keep what they have.                    *)
(***************************************************************************)

(* Another request.                                                        *)
LEMMA OtherRqKeeps ==
  ASSUME RefInv, NEW s \in Addrs, rq'[s] = rq[s],
         \A i \in Slots : \/ slot'[i] = slot[i] \/ slot[i] = nil
                          \/ \A f \in Fields : slot[i] # Value(s, f)
  PROVE  RqOwn(s)'
  <1>1. RqOwn(s)
    BY DEF RefInv
  <1>2. ASSUME NEW i \in Slots, NEW f \in Fields, slot[i] = Value(s, f)
        PROVE  slot'[i] = Value(s, f)
    BY <1>2, ValueFacts
  <1>. QED  BY <1>1, <1>2 DEF RqOwn, Owned, Fields

(* Another handle.                                                         *)
LEMMA OtherSockKeeps ==
  ASSUME RefInv, NEW h \in Sockets, sock'[h] = sock[h],
         \A i \in Slots : \/ slot'[i] = slot[i] \/ slot[i] = nil
                          \/ \A f \in {"read", "close"} : slot[i] # Value(h, f)
  PROVE  SockOwn(h)'
  <1>1. SockOwn(h)
    BY DEF RefInv
  <1>2. ASSUME NEW i \in Slots, NEW f \in {"read", "close"}, slot[i] = Value(h, f)
        PROVE  slot'[i] = Value(h, f)
    BY <1>2, ValueFacts
  <1>. QED  BY <1>1, <1>2 DEF SockOwn, Owned

(* A place that keeps its value, whose holder does not change.             *)
LEMMA StillAccounted ==
  ASSUME RefInv, NEW i \in Slots, slot'[i] = slot[i],
         \A r \in Addrs :
           (\E f \in Fields : slot[i] = Value(r, f)) => rq'[r] = rq[r],
         \A h \in Sockets : slot[i] = Value(h, "close") => sock'[h].close = sock[h].close
  PROVE  Accounted(i)'
  <1>1. Accounted(i)
    BY DEF RefInv
  <1>. QED  BY <1>1 DEF Accounted, Fields

(* The kinds of requests, and what each of them must have.                 *)
Asked(kind, h, c) ==
  /\ kind \in Kinds \ {"none"} /\ h \in Sockets \cup {NoHandle}
  /\ c \in SUBSET Fields
  /\ kind \in {"write", "send"} => "arg" \in c
  /\ kind \in {"addrinfo", "nameinfo"} => "cb" \in c

(* A new request, taken or refused.                                        *)
LEMMA NewRequestKeeps ==
  ASSUME RefInv, NEW kind, NEW h, NEW c, Asked(kind, h, c), NewRequest(kind, h, c)
  PROVE  RefInv'
  <1>1. PICK r \in Addrs :
          /\ rq[r].at = "none"
          /\ LET k == Kept(slot, r, c)
                 q == lluv_req_new(kind, h, k)
             IN  \/ /\ h # NoHandle => ~sock[h].closing
                    /\ slot' = k.slot
                    /\ rq' = [rq EXCEPT ![r] = q]
                    /\ UNCHANGED defers
                 \/ Refused(k.slot, q)
    BY DEF NewRequest
  <1>2. Cardinality(Free(slot)) >= Cardinality(c) /\ UNCHANGED <<sock, pool, crashed>>
    BY DEF NewRequest
  <1>3. slot \in Registry /\ rq \in [Addrs -> RqRec] /\ c \in SUBSET Fields
    BY DEF RefInv, RefTypeOK, Asked
  <1>. DEFINE k == Kept(slot, r, c)
              q == lluv_req_new(kind, h, k)
  <1>4. KeptFor(slot, r, c, k)
    BY <1>2, <1>3, KeptFacts
  <1>5. CASE slot' = k.slot /\ rq' = [rq EXCEPT ![r] = q] /\ UNCHANGED defers
    <2>1. /\ q.at = "libuv" /\ q.kind = kind /\ q.cb = k.cb /\ q.arg = k.arg /\ q.ctx = k.ctx
          /\ q \in RqRec
      <3>. HIDE DEF k
      <3>. QED  BY <1>4 DEF lluv_req_new, RqRec, Asked, KeptFor
    <2>. HIDE DEF k, q
    <2>2. rq' \in [Addrs -> RqRec] /\ rq'[r] = q /\ \A s \in Addrs \ {r} : rq'[s] = rq[s]
      BY <1>3, <1>5, <2>1
    <2>3. RefTypeOK'
      BY <1>2, <1>4, <1>5, <2>2 DEF RefInv, RefTypeOK, KeptFor
    <2>4. IdleHoldsNothing'
      BY <2>1, <2>2 DEF RefInv, IdleHoldsNothing
    <2>5. \A i \in Slots : slot[i] # nil => slot'[i] = slot[i]
      BY <1>4, <1>5 DEF KeptFor
    <2>6. RqOwn(r)'
      BY <1>4, <1>5, <2>1, <2>2 DEF RqOwn, Owned, KeptFor, Asked
    <2>7. \A s \in Addrs : RqOwn(s)'
      BY <2>2, <2>5, <2>6, OtherRqKeeps
    <2>8. \A x \in Sockets : SockOwn(x)'
      BY <1>2, <2>5, OtherSockKeeps
    <2>9. ASSUME NEW i \in Slots  PROVE Accounted(i)'
      <3>1. CASE i \in {k.cb, k.arg, k.ctx}
        BY <1>4, <1>5, <2>1, <2>2, <3>1 DEF Accounted, KeptFor
      <3>2. CASE i \notin {k.cb, k.arg, k.ctx}
        <4>1. slot'[i] = slot[i]
          BY <1>4, <1>5, <3>2 DEF KeptFor
        <4>2. Accounted(i)
          BY DEF RefInv
        <4>3. rq[r].cb # i /\ rq[r].arg # i /\ rq[r].ctx # i
          BY <1>1, SpecialNumbers DEF RefInv, IdleHoldsNothing, NoRq
        <4>. QED  BY <1>2, <2>2, <4>1, <4>2, <4>3 DEF Accounted
      <3>. QED  BY <3>1, <3>2
    <2>. QED  BY <2>3, <2>4, <2>7, <2>8, <2>9 DEF RefInv
  <1>6. CASE Refused(k.slot, q)
    <2>1. lluv_req_free(k.slot, q) = slot
      BY <1>2, <1>3, FreeKept
    <2>. HIDE DEF k, q
    <2>2. slot' = slot /\ rq' = rq /\ sock' = sock /\ pool' = pool /\ crashed' = crashed
      BY <1>2, <1>6, <2>1 DEF Refused
    <2>3. defers' \in 0..MaxDefers
      BY <1>6, ReqAssumption DEF Refused, RefInv, RefTypeOK
    <2>. QED  BY <2>2, <2>3 DEF RefInv, RefTypeOK, IdleHoldsNothing, RqOwn, SockOwn, Owned,
                                Accounted
  <1>. QED  BY <1>1, <1>5, <1>6

(* The callback of a request frees it.                                     *)
LEMMA CompleteKeeps ==
  ASSUME RefInv, NEW r \in Addrs, Complete(r)
  PROVE  RefInv'
  <1>1. /\ slot' = lluv_req_free(slot, rq[r])
        /\ rq' = [rq EXCEPT ![r] = NoRq]
        /\ UNCHANGED <<sock, defers, pool, crashed>>
    BY DEF Complete
  <1>2. slot \in Registry /\ rq \in [Addrs -> RqRec] /\ RqOwn(r)
    BY DEF RefInv, RefTypeOK
  <1>3. /\ slot' \in Registry
        /\ \A i \in Slots : slot'[i] = IF i \in {rq[r].cb, rq[r].arg, rq[r].ctx}
                                       THEN nil ELSE slot[i]
    <2>. DEFINE q == rq[r]
    <2>. HIDE DEF q
    <2>1. /\ lluv_req_free(slot, q) \in Registry
          /\ \A i \in Slots : lluv_req_free(slot, q)[i] =
               IF i \in {q.cb, q.arg, q.ctx} THEN nil ELSE slot[i]
      BY <1>2, FreeFacts
    <2>. QED  BY <1>1, <2>1 DEF q
  <1>4. NoRq \in RqRec
    BY SpecialNumbers DEF NoRq, RqRec, Kinds
  <1>5. rq' \in [Addrs -> RqRec] /\ rq'[r] = NoRq /\ \A s \in Addrs \ {r} : rq'[s] = rq[s]
    BY <1>1, <1>2, <1>4
  <1>6. RefTypeOK'
    BY <1>1, <1>3, <1>5 DEF RefInv, RefTypeOK
  <1>7. IdleHoldsNothing'
    BY <1>5 DEF RefInv, IdleHoldsNothing
  <1>8. ASSUME NEW i \in Slots
        PROVE  slot'[i] = slot[i] \/ \E f \in Fields : slot[i] = Value(r, f)
    BY <1>2, <1>3 DEF RqOwn, Owned, Fields
  <1>9. RqOwn(r)'
    <2>1. /\ NoRq.cb \notin Slots /\ NoRq.arg \notin Slots /\ NoRq.ctx \notin Slots
          /\ NoRq.kind = "none"
      BY SpecialNumbers DEF NoRq
    <2>. QED  BY <1>5, <2>1 DEF RqOwn, Owned
  <1>10. ASSUME NEW s \in Addrs \ {r}  PROVE RqOwn(s)'
    <2>1. \A i \in Slots : \/ slot'[i] = slot[i]
                           \/ \A f \in Fields : slot[i] # Value(s, f)
      BY <1>8, ValueFacts
    <2>. QED  BY <1>5, <2>1, OtherRqKeeps
  <1>11. ASSUME NEW h \in Sockets  PROVE SockOwn(h)'
    <2>1. \A i \in Slots : \/ slot'[i] = slot[i]
                           \/ \A f \in {"read", "close"} : slot[i] # Value(h, f)
      BY <1>8, ValueFacts DEF Fields
    <2>. QED  BY <1>1, <2>1, OtherSockKeeps
  <1>12. ASSUME NEW i \in Slots  PROVE Accounted(i)'
    <2>1. CASE i \in {rq[r].cb, rq[r].arg, rq[r].ctx}
      BY <1>3, <2>1 DEF Accounted
    <2>2. CASE i \notin {rq[r].cb, rq[r].arg, rq[r].ctx}
      <3>1. slot'[i] = slot[i] /\ Accounted(i)
        BY <1>3, <2>2 DEF RefInv
      <3>. QED  BY <1>1, <1>5, <2>2, <3>1 DEF Accounted
    <2>. QED  BY <2>1, <2>2
  <1>. QED  BY <1>6, <1>7, <1>9, <1>10, <1>11, <1>12 DEF RefInv

(* One handle x changes its record to s, and the registry changes only at  *)
(* places that were free or held the values of x.                          *)
SockStep(x, s) ==
  /\ s \in SockRec
  /\ slot' \in Registry
  /\ sock' = [sock EXCEPT ![x] = s]
  /\ \A i \in Slots : \/ slot'[i] = slot[i] \/ slot[i] = nil
                      \/ slot[i] \in {Value(x, "read"), Value(x, "close")}
  /\ defers' \in 0..MaxDefers /\ crashed' \in BOOLEAN
  /\ UNCHANGED <<rq, pool>>

(* Such a step is correct if the handle and the places that changed are.   *)
LEMMA SockStepKeeps ==
  ASSUME RefInv, NEW x \in Sockets, NEW s, SockStep(x, s), SockOwn(x)',
         \A i \in Slots :
           slot'[i] # slot[i] \/ slot[i] = Value(x, "close") => Accounted(i)'
  PROVE  RefInv'
  <1>1. /\ slot \in Registry /\ sock \in [Sockets -> SockRec]
        /\ sock' \in [Sockets -> SockRec]
        /\ \A h \in Sockets \ {x} : sock'[h] = sock[h]
    BY DEF SockStep, RefInv, RefTypeOK
  <1>2. RefTypeOK' /\ IdleHoldsNothing'
    BY <1>1 DEF SockStep, RefInv, RefTypeOK, IdleHoldsNothing
  <1>3. ASSUME NEW r \in Addrs  PROVE RqOwn(r)'
    <2>1. \A i \in Slots : \/ slot'[i] = slot[i] \/ slot[i] = nil
                           \/ \A f \in Fields : slot[i] # Value(r, f)
      BY ValueFacts DEF SockStep, Fields
    <2>. QED  BY <2>1, OtherRqKeeps DEF SockStep
  <1>4. ASSUME NEW h \in Sockets \ {x}  PROVE SockOwn(h)'
    <2>1. \A i \in Slots : \/ slot'[i] = slot[i] \/ slot[i] = nil
                           \/ \A f \in {"read", "close"} : slot[i] # Value(h, f)
      BY ValueFacts DEF SockStep
    <2>. QED  BY <1>1, <2>1, OtherSockKeeps
  <1>5. ASSUME NEW i \in Slots  PROVE Accounted(i)'
    <2>1. CASE slot'[i] # slot[i] \/ slot[i] = Value(x, "close")
      BY <2>1
    <2>2. CASE slot'[i] = slot[i] /\ slot[i] # Value(x, "close")
      <3>1. \A h \in Sockets : slot[i] = Value(h, "close") => sock'[h] = sock[h]
        BY <1>1, <2>2
      <3>. QED  BY <2>2, <3>1, StillAccounted DEF SockStep
    <2>. QED  BY <2>1, <2>2
  <1>. QED  BY <1>2, <1>3, <1>4, <1>5 DEF RefInv

(* start_read and start_recv: whatever the old number was, the new one is  *)
(* the handle's own.                                                       *)
LEMMA StartReadingKeeps ==
  ASSUME RefInv, NEW x \in Sockets, StartReading(x)
  PROVE  RefInv'
  <1>. DEFINE v == Value(x, "read")
  <1>1. v \in Values /\ v # nil
    BY ValueFacts DEF Values
  <1>2. slot \in Registry /\ sock \in [Sockets -> SockRec] /\ SockOwn(x) /\ Free(slot) # {}
    BY DEF RefInv, RefTypeOK, StartReading
  <1>3. /\ Number(slot) \in Slots /\ slot[Number(slot)] = nil
        /\ slot' \in Registry
        /\ \A i \in Slots : slot'[i] = IF i = Number(slot) THEN v ELSE slot[i]
    BY <1>1, <1>2, RefFacts DEF StartReading
  <1>4. PICK b \in BOOLEAN :
          /\ sock' = [sock EXCEPT ![x] = [sock[x] EXCEPT !.read = Number(slot), !.reading = b]]
          /\ defers' \in 0..MaxDefers /\ UNCHANGED <<rq, pool, crashed>>
    <2>1. CASE /\ ~sock[x].closing
               /\ sock' = [sock EXCEPT ![x].read = Number(slot), ![x].reading = TRUE]
               /\ UNCHANGED defers
      <3>1. sock' = [sock EXCEPT ![x] = [sock[x] EXCEPT !.read = Number(slot), !.reading = TRUE]]
        BY <1>2, <2>1
      <3>. QED  BY <2>1, <3>1 DEF StartReading, RefInv, RefTypeOK
    <2>2. CASE /\ defers < MaxDefers
               /\ sock' = [sock EXCEPT ![x].read = Number(slot)]
               /\ defers' = defers + 1
      <3>1. sock' = [sock EXCEPT ![x] = [sock[x] EXCEPT !.read = Number(slot),
                                                        !.reading = sock[x].reading]]
        BY <1>2, <2>2 DEF SockRec
      <3>2. sock[x].reading \in BOOLEAN /\ defers' \in 0..MaxDefers
        BY <1>2, <2>2, ReqAssumption DEF SockRec, RefInv, RefTypeOK
      <3>. QED  BY <3>1, <3>2 DEF StartReading
    <2>. QED  BY <2>1, <2>2 DEF StartReading
  <1>. DEFINE s == [sock[x] EXCEPT !.read = Number(slot), !.reading = b]
  <1>5. /\ s \in SockRec /\ s.read = Number(slot) /\ s.close = sock[x].close
        /\ s.closing = sock[x].closing
    BY <1>2, <1>3, SpecialNumbers DEF SockRec
  <1>6. sock' = [sock EXCEPT ![x] = s]
    BY <1>4
  <1>. HIDE DEF s, v
  <1>7. sock'[x] = s
    BY <1>2, <1>6
  <1>8. SockStep(x, s)
    BY <1>3, <1>4, <1>5, <1>6 DEF SockStep, RefInv, RefTypeOK
  <1>9. SockOwn(x)'
    <2>1. sock[x].close \in Slots => slot'[sock[x].close] = Value(x, "close")
      BY <1>2, <1>3, ValueFacts DEF SockOwn, Owned
    <2>. QED  BY <1>2, <1>3, <1>5, <1>7, <2>1 DEF SockOwn, Owned, v
  <1>10. ASSUME NEW i \in Slots, slot'[i] # slot[i] \/ slot[i] = Value(x, "close")
         PROVE  Accounted(i)'
    <2>1. CASE i = Number(slot)
      BY <1>3, <2>1 DEF Accounted, v
    <2>2. CASE i # Number(slot)
      <3>1. slot'[i] = slot[i] /\ slot[i] = Value(x, "close")
        BY <1>3, <1>10, <2>2
      <3>2. sock[x].close = i
        <4>1. Accounted(i)
          BY DEF RefInv
        <4>. QED  BY <3>1, <4>1, ValueFacts DEF Accounted
      <3>. QED  BY <1>5, <1>7, <3>1, <3>2 DEF Accounted
    <2>. QED  BY <2>1, <2>2
  <1>. QED  BY <1>8, <1>9, <1>10, SockStepKeeps

(* The buffer that libuv gets for a read is back when the callback ends,   *)
(* whether it was the one of the loop or not.                              *)
LEMMA BufferBack ==
  ASSUME pool = [busy |-> FALSE, own |-> 0], GivesBack
  PROVE  pool' = pool
  <1>1. lluv_alloc_buffer_cb(pool) = [busy |-> TRUE, own |-> 0]
    BY DEF lluv_alloc_buffer_cb
  <1>2. lluv_free_buffer(pool, [busy |-> TRUE, own |-> 0]) = [busy |-> FALSE, own |-> 0]
    BY DEF lluv_free_buffer
  <1>. QED  BY <1>1, <1>2 DEF GivesBack

(* The reader is stopped: its place is free and it has no number.          *)
LEMMA ReadStoppedKeeps ==
  ASSUME RefInv, NEW x \in Sockets, ReadStopped(x), UNCHANGED <<rq, defers, pool>>,
         crashed' \in BOOLEAN
  PROVE  RefInv'
  <1>. DEFINE s == [sock[x] EXCEPT !.reading = FALSE, !.read = LUA_NOREF]
              n == sock[x].read
  <1>1. slot \in Registry /\ sock \in [Sockets -> SockRec] /\ SockOwn(x)
    BY DEF RefInv, RefTypeOK
  <1>2. sock' = [sock EXCEPT ![x] = s]
    BY <1>1 DEF ReadStopped
  <1>3. /\ s \in SockRec /\ s.read = LUA_NOREF /\ s.close = sock[x].close
        /\ s.closing = sock[x].closing /\ ~s.reading
    BY <1>1, SpecialNumbers DEF SockRec
  <1>4. slot' = Unref(slot, n)
    BY DEF ReadStopped
  <1>5. n \in Slots => slot[n] = Value(x, "read")
    BY <1>1 DEF SockOwn, Owned
  <1>. HIDE DEF s, n
  <1>6. slot' \in Registry /\ \A i \in Slots : slot'[i] = IF i = n THEN nil ELSE slot[i]
    BY <1>1, <1>4, UnrefFacts
  <1>7. sock'[x] = s
    BY <1>1, <1>2
  <1>8. SockStep(x, s)
    BY <1>2, <1>3, <1>5, <1>6 DEF SockStep, RefInv, RefTypeOK
  <1>9. SockOwn(x)'
    <2>1. sock[x].close \in Slots => slot'[sock[x].close] = Value(x, "close")
      BY <1>1, <1>5, <1>6, ValueFacts DEF SockOwn, Owned
    <2>. QED  BY <1>1, <1>3, <1>7, <2>1, SpecialNumbers DEF SockOwn, Owned
  <1>10. ASSUME NEW i \in Slots, slot'[i] # slot[i] \/ slot[i] = Value(x, "close")
         PROVE  Accounted(i)'
    <2>1. CASE i = n
      BY <1>6, <2>1 DEF Accounted
    <2>2. CASE i # n
      <3>1. slot'[i] = slot[i] /\ slot[i] = Value(x, "close")
        BY <1>6, <1>10, <2>2
      <3>2. sock[x].close = i
        <4>1. Accounted(i)
          BY DEF RefInv
        <4>. QED  BY <3>1, <4>1, ValueFacts DEF Accounted
      <3>. QED  BY <1>3, <1>7, <3>1, <3>2 DEF Accounted
    <2>. QED  BY <2>1, <2>2
  <1>. QED  BY <1>8, <1>9, <1>10, SockStepKeeps

(* handle:close(), with or without a callback.                             *)
LEMMA CloseKeeps ==
  ASSUME RefInv, NEW x \in Sockets, lluv_handle_close(x)
  PROVE  RefInv'
  <1>1. /\ slot \in Registry /\ sock \in [Sockets -> SockRec] /\ SockOwn(x)
        /\ ~sock[x].closing /\ UNCHANGED <<rq, defers, pool, crashed>>
    BY DEF RefInv, RefTypeOK, lluv_handle_close
  <1>2. sock[x].close = LUA_NOREF
    BY <1>1 DEF SockOwn
  <1>3. \A i \in Slots : slot[i] # Value(x, "close")
    <2>1. SUFFICES ASSUME NEW i \in Slots, slot[i] = Value(x, "close")  PROVE FALSE
      OBVIOUS
    <2>2. Accounted(i)
      BY DEF RefInv
    <2>3. sock[x].close = i
      BY <2>1, <2>2, ValueFacts DEF Accounted
    <2>. QED  BY <1>2, <2>3, SpecialNumbers
  <1>4. CASE /\ Free(slot) # {}
             /\ slot' = Ref(slot, Value(x, "close"))
             /\ sock' = [sock EXCEPT ![x].closing = TRUE, ![x].close = Number(slot)]
    <2>. DEFINE s == [sock[x] EXCEPT !.closing = TRUE, !.close = Number(slot)]
                v == Value(x, "close")
    <2>1. v \in Values /\ v # nil
      BY ValueFacts DEF Values
    <2>2. /\ Number(slot) \in Slots /\ slot[Number(slot)] = nil
          /\ slot' \in Registry
          /\ \A i \in Slots : slot'[i] = IF i = Number(slot) THEN v ELSE slot[i]
      BY <1>1, <1>4, <2>1, RefFacts
    <2>3. /\ s \in SockRec /\ s.read = sock[x].read /\ s.close = Number(slot)
          /\ s.closing /\ s.reading = sock[x].reading
      BY <1>1, <2>2, SpecialNumbers DEF SockRec
    <2>4. sock' = [sock EXCEPT ![x] = s]
      BY <1>1, <1>4
    <2>. HIDE DEF s, v
    <2>5. sock'[x] = s
      BY <1>1, <2>4
    <2>6. SockStep(x, s)
      BY <1>1, <2>2, <2>3, <2>4 DEF SockStep, RefInv, RefTypeOK
    <2>7. SockOwn(x)'
      <3>1. sock[x].read \in Slots => slot'[sock[x].read] = Value(x, "read")
        BY <1>1, <2>2, ValueFacts DEF SockOwn, Owned
      <3>. QED  BY <1>1, <2>2, <2>3, <2>5, <3>1 DEF SockOwn, Owned, v
    <2>8. ASSUME NEW i \in Slots, slot'[i] # slot[i] \/ slot[i] = Value(x, "close")
          PROVE  Accounted(i)'
      <3>1. i = Number(slot)
        BY <1>3, <2>2, <2>8
      <3>. QED  BY <2>2, <2>3, <2>5, <3>1 DEF Accounted, v
    <2>. QED  BY <2>6, <2>7, <2>8, SockStepKeeps
  <1>5. CASE sock' = [sock EXCEPT ![x].closing = TRUE] /\ UNCHANGED slot
    <2>. DEFINE s == [sock[x] EXCEPT !.closing = TRUE]
    <2>1. /\ s \in SockRec /\ s.read = sock[x].read /\ s.close = sock[x].close
          /\ s.closing /\ s.reading = sock[x].reading
      BY <1>1 DEF SockRec
    <2>2. sock' = [sock EXCEPT ![x] = s]
      BY <1>1, <1>5
    <2>. HIDE DEF s
    <2>3. sock'[x] = s
      BY <1>1, <2>2
    <2>4. SockStep(x, s)
      BY <1>1, <1>5, <2>1, <2>2 DEF SockStep, RefInv, RefTypeOK
    <2>5. SockOwn(x)'
      BY <1>1, <1>5, <2>1, <2>3 DEF SockOwn, Owned
    <2>6. \A i \in Slots : slot'[i] = slot[i] /\ slot[i] # Value(x, "close")
      BY <1>3, <1>5
    <2>. QED  BY <2>4, <2>5, <2>6, SockStepKeeps
  <1>. QED  BY <1>4, <1>5 DEF lluv_handle_close

(* The close callback gives up both numbers of the handle.                 *)
LEMMA OnCloseKeeps ==
  ASSUME RefInv, NEW x \in Sockets, lluv_on_handle_close(x)
  PROVE  RefInv'
  <1>. DEFINE n == sock[x].close
              m == sock[x].read
              g == Unref(slot, n)
  <1>1. /\ slot \in Registry /\ sock \in [Sockets -> SockRec] /\ SockOwn(x)
        /\ UNCHANGED <<rq, defers, pool, crashed>>
        /\ sock' = [sock EXCEPT ![x] = NewSock]
        /\ slot' = Unref(g, m)
    BY DEF RefInv, RefTypeOK, lluv_on_handle_close
  <1>2. /\ NewSock \in SockRec /\ NewSock.read = LUA_NOREF /\ NewSock.close = LUA_NOREF
        /\ ~NewSock.reading
    BY SpecialNumbers DEF NewSock, SockRec
  <1>3. /\ n \in Slots => slot[n] = Value(x, "close")
        /\ m \in Slots => slot[m] = Value(x, "read")
    BY <1>1 DEF SockOwn, Owned
  <1>4. \A i \in Slots : slot[i] = Value(x, "close") => i = n
    <2>1. SUFFICES ASSUME NEW i \in Slots, slot[i] = Value(x, "close")  PROVE i = n
      OBVIOUS
    <2>2. Accounted(i)
      BY DEF RefInv
    <2>. QED  BY <2>1, <2>2, ValueFacts DEF Accounted
  <1>. HIDE DEF n, m
  <1>5. g \in Registry /\ \A i \in Slots : g[i] = IF i = n THEN nil ELSE slot[i]
    BY <1>1, UnrefFacts
  <1>. HIDE DEF g
  <1>6. slot' \in Registry /\ \A i \in Slots : slot'[i] = IF i = m THEN nil ELSE g[i]
    BY <1>1, <1>5, UnrefFacts
  <1>7. sock'[x] = NewSock
    BY <1>1
  <1>8. SockStep(x, NewSock)
    BY <1>1, <1>2, <1>3, <1>5, <1>6 DEF SockStep, RefInv, RefTypeOK
  <1>9. SockOwn(x)'
    BY <1>2, <1>7, SpecialNumbers DEF SockOwn, Owned
  <1>10. ASSUME NEW i \in Slots, slot'[i] # slot[i] \/ slot[i] = Value(x, "close")
         PROVE  Accounted(i)'
    <2>1. slot'[i] = nil
      BY <1>4, <1>5, <1>6, <1>10
    <2>. QED  BY <2>1 DEF Accounted
  <1>. QED  BY <1>8, <1>9, <1>10, SockStepKeeps

(* A step that changes the number of deferred calls, or nothing.           *)
LEMMA RestKeeps ==
  ASSUME RefInv, UNCHANGED <<slot, sock, rq, pool, crashed>>, defers' \in 0..MaxDefers
  PROVE  RefInv'
  BY DEF RefInv, RefTypeOK, IdleHoldsNothing, RqOwn, SockOwn, Owned, Accounted

(* Every step of the specification.                                        *)
LEMMA RefStepKeeps == RefInv /\ [RefNext]_refVars => RefInv'
  <1>. SUFFICES ASSUME RefInv, [RefNext]_refVars  PROVE RefInv'
    OBVIOUS
  <1>1. defers \in 0..MaxDefers /\ pool = [busy |-> FALSE, own |-> 0] /\ crashed \in BOOLEAN
    BY DEF RefInv, RefTypeOK
  <1>2. Streams \subseteq Sockets /\ Udps \subseteq Sockets
    BY DEF Sockets
  <1>3. ASSUME DeferError  PROVE RefInv'
    BY <1>1, <1>3, RestKeeps, ReqAssumption DEF DeferError
  <1>4. ASSUME NEW h \in Sockets, lluv_stream_write(h)  PROVE RefInv'
    BY <1>4, NewRequestKeeps DEF lluv_stream_write, Asked, Kinds, Fields
  <1>5. ASSUME NEW h \in Sockets, lluv_stream_shutdown(h)  PROVE RefInv'
    BY <1>5, NewRequestKeeps DEF lluv_stream_shutdown, Asked, Kinds, Fields
  <1>6. ASSUME NEW h \in Sockets, lluv_udp_send(h)  PROVE RefInv'
    BY <1>3, <1>6, NewRequestKeeps DEF lluv_udp_send, Asked, Kinds, Fields
  <1>7. ASSUME lluv_getaddrinfo \/ lluv_getnameinfo  PROVE RefInv'
    BY <1>3, <1>7, NewRequestKeeps
    DEF lluv_getaddrinfo, lluv_getnameinfo, Asked, Kinds, Fields
  <1>8. ASSUME NEW h \in Sockets, StartReading(h) \/ StopReading(h)  PROVE RefInv'
    BY <1>1, <1>8, StartReadingKeeps, ReadStoppedKeeps DEF StopReading
  <1>9. ASSUME NEW h \in Sockets, GivesBack, UNCHANGED <<slot, sock, rq, defers, crashed>>
        PROVE  RefInv'
    BY <1>1, <1>9, BufferBack, RestKeeps
  <1>10. ASSUME NEW h \in Sockets, lluv_on_stream_read_cb(h)  PROVE RefInv'
    BY <1>1, <1>9, <1>10, BufferBack, ReadStoppedKeeps DEF lluv_on_stream_read_cb, Data
  <1>11. ASSUME NEW h \in Sockets, lluv_on_udp_recv_cb(h)  PROVE RefInv'
    BY <1>1, <1>9, <1>11, BufferBack, ReadStoppedKeeps
    DEF lluv_on_udp_recv_cb, Data, NothingToRead
  <1>12. ASSUME NEW h \in Sockets, lluv_handle_close(h) \/ lluv_on_handle_close(h)
         PROVE  RefInv'
    BY <1>12, CloseKeeps, OnCloseKeeps
  <1>13. ASSUME lluv_defer_call  PROVE RefInv'
    BY <1>1, <1>13, RestKeeps, ReqAssumption DEF lluv_defer_call
  <1>14. ASSUME NEW r \in Addrs, Callback(r)  PROVE RefInv'
    BY <1>14, CompleteKeeps
    DEF Callback, lluv_on_stream_write_cb, lluv_on_stream_req_cb, lluv_on_getaddrinfo,
        lluv_on_getnameinfo
  <1>15. CASE UNCHANGED refVars
    BY <1>1, <1>15, RestKeeps DEF refVars
  <1>16. CASE RefNext
    BY <1>2, <1>4, <1>5, <1>6, <1>7, <1>8, <1>10, <1>11, <1>12, <1>13, <1>14, <1>16
    DEF RefNext, lluv_stream_start_read, lluv_stream_stop_read, lluv_udp_start_recv,
        lluv_udp_stop_recv
  <1>. QED  BY <1>15, <1>16

(* The initial state.                                                      *)
LEMMA RefInitInv == RefInit => RefInv
  <1>. SUFFICES ASSUME RefInit  PROVE RefInv
    OBVIOUS
  <1>1. RefTypeOK
    <2>1. NoRq \in RqRec /\ NewSock \in SockRec /\ nil \in Values
      BY SpecialNumbers DEF RqRec, SockRec, NoRq, NewSock, Kinds, Values
    <2>2. slot \in Registry /\ rq \in [Addrs -> RqRec] /\ sock \in [Sockets -> SockRec]
      BY <2>1 DEF RefInit, Registry
    <2>3. defers \in 0..MaxDefers
      BY ReqAssumption DEF RefInit
    <2>4. pool = [busy |-> FALSE, own |-> 0] /\ crashed \in BOOLEAN
      BY Zenon DEF RefInit
    <2>. QED  BY <2>2, <2>3, <2>4 DEF RefTypeOK
  <1>2. \A r \in Addrs : rq[r] = NoRq
    BY DEF RefInit
  <1>3. \A h \in Sockets : sock[h] = NewSock
    BY DEF RefInit
  <1>4. IdleHoldsNothing /\ \A r \in Addrs : RqOwn(r)
    BY <1>2, SpecialNumbers DEF IdleHoldsNothing, RqOwn, Owned, NoRq
  <1>5. \A h \in Sockets : SockOwn(h)
    BY <1>3, SpecialNumbers DEF SockOwn, Owned, NewSock
  <1>6. \A i \in Slots : Accounted(i)
    BY DEF RefInit, Accounted
  <1>. QED  BY <1>1, <1>4, <1>5, <1>6 DEF RefInv

(***************************************************************************)
(* The results.                                                            *)
(***************************************************************************)

(* In every reachable state every number has its owner and every place of  *)
(* the registry somebody who can reach it, or holds a read callback.       *)
THEOREM RefInvariant == RefSpec => []RefInv
  <1>1. RefInit => RefInv
    BY RefInitInv
  <1>2. RefInv /\ [RefNext]_refVars => RefInv'
    BY RefStepKeeps
  <1>. QED  BY <1>1, <1>2, PTL DEF RefSpec

(* No request in libuv and no handle ever has the number of a value that   *)
(* was given back, or of somebody else's (lluv_req.c, lluv_handle.c), and  *)
(* the asserts of the read callbacks hold.                                 *)
THEOREM ReferencesAreOwn == RefSpec => []OwnReferences
  <1>1. RefInv => OwnReferences
    BY DEF RefInv, OwnReferences, RqOwn, SockOwn, Reads
  <1>. QED  BY <1>1, RefInvariant, PTL

(* No path through a request, refused, completed or cancelled, and no end  *)
(* of a reader or a handle leaks a reference; restarting a reader does.    *)
THEOREM NothingElseLeaks == RefSpec => []OnlyRestartsLeak
  <1>1. ASSUME RefInv  PROVE OnlyRestartsLeak
    <2>1. SUFFICES ASSUME NEW i \in Slots \ Held, slot[i] # nil
                   PROVE  \E h \in Sockets : slot[i] = Value(h, "read")
      BY DEF OnlyRestartsLeak
    <2>2. Accounted(i)
      BY <1>1 DEF RefInv
    <2>3. \A r \in Addrs : i \notin {rq[r].cb, rq[r].arg, rq[r].ctx}
      BY DEF Held
    <2>4. \A h \in Sockets : i \notin {sock[h].read, sock[h].close}
      BY DEF Held
    <2>. QED  BY <2>1, <2>2, <2>3, <2>4 DEF Accounted
  <1>. QED  BY <1>1, RefInvariant, PTL

(* The read buffers are back whenever Lua runs (lluv_alloc_buffer_cb,      *)
(* lluv_free_buffer).                                                      *)
THEOREM BuffersComeBack == RefSpec => []BuffersAreBack
  <1>1. RefInv => BuffersAreBack
    BY DEF RefInv, RefTypeOK, BuffersAreBack
  <1>. QED  BY <1>1, RefInvariant, PTL
=============================================================================
