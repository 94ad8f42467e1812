--------------------------- MODULE LluvLoopProofs ---------------------------
(***************************************************************************)
(* Proofs about LluvLoop, for any depth of nested runs, any queue and any  *)
(* bounds.  The inductive invariant LoopInv has three parts:               *)
(*   1. every frame by itself is good: its mark is the last error of the   *)
(*      Lua code it called, and a first pass counts what was queued before *)
(*      it (GoodFrame);                                                    *)
(*   2. the frames are on top of each other as C calls them (Shape), so    *)
(*      that the runner an error belongs to is the next below;             *)
(*   3. the queue holds the numbers after the last that ran (InOrder).     *)
(* What a pass counted is still in the queue (Counted) only if deferred    *)
(* calls do not run the loop, which is a hypothesis there and nowhere      *)
(* else.                                                                   *)
(***************************************************************************)
EXTENDS LluvLoop, TLAPS

(* How a run may end.                                                      *)
Results == [how : {"none", "returned", "raised"}, error : Errors \cup {Nil}]

(* A frame by itself.                                                      *)
GoodFrame ==
  {fr \in FrameRec :
     /\ fr.mark = fr.last
     /\ fr.f = "proceed" => fr.old = IF fr.pass = 0 THEN fr.left ELSE 0}

Runner(fr) == fr.f \in {"run", "closeall"}

(* What a frame at the top of the stack is doing.                          *)
OnTop(fr) ==
  /\ Runner(fr) => fr.at \in {"start", "iter", "next", "done"}
  /\ fr.f = "proceed" => fr.at = "none"
  /\ fr.f = "lua" => fr.at \in {"event", "defer"}

(* The frame over is called by the frame fr.                               *)
Calls(fr, over) ==
  \/ /\ fr.f = "run" /\ fr.at \in {"pre", "post"}
     /\ over.f = "proceed"
  \/ /\ Runner(fr) /\ fr.at = "iter"
     /\ over.f = "proceed" \/ (over.f = "lua" /\ over.at = "event")
  \/ /\ fr.f = "proceed" /\ fr.at = "none"
     /\ over.f = "lua" /\ over.at = "defer"
  \/ /\ fr.f = "lua" /\ fr.at \in {"event", "defer"}
     /\ Runner(over)

Chain(s) ==
  /\ s # << >> => Runner(s[1])
  /\ \A i \in 1..Len(s) : i # Len(s) => Calls(s[i], s[i + 1])

Shape(s) == Chain(s) /\ (s # << >> => OnTop(s[Len(s)]))

GoodStack(s) == s \in Seq(GoodFrame) /\ Shape(s)

InOrder ==
  /\ Len(defer) <= MaxQueue
  /\ DeferredInOrder

LoopInv ==
  /\ TypeOK
  /\ GoodStack(stack)
  /\ InOrder

(* What a pass of defer_proceed still has to run is in the queue.          *)
Counted ==
  \A i \in 1..Depth :
    /\ stack[i].f = "proceed" => stack[i].left <= Len(defer)
    /\ stack[i].f = "lua" /\ stack[i].at = "defer" => i = Depth

(***************************************************************************)
(* Stacks and the frames that are pushed.                                  *)
(***************************************************************************)

(* A frame on top.                                                         *)
LEMMA PushFacts ==
  ASSUME NEW S, NEW s \in Seq(S), NEW x \in S
  PROVE  /\ Append(s, x) \in Seq(S) /\ Len(Append(s, x)) = Len(s) + 1
         /\ \A i \in 1..Len(s) : Append(s, x)[i] = s[i]
         /\ Append(s, x)[Len(s) + 1] = x
  OBVIOUS

(* The first n frames.                                                     *)
LEMMA CutFacts ==
  ASSUME NEW S, NEW s \in Seq(S), NEW n \in 0..Len(s)
  PROVE  /\ SubSeq(s, 1, n) \in Seq(S) /\ Len(SubSeq(s, 1, n)) = n
         /\ \A i \in 1..n : SubSeq(s, 1, n)[i] = s[i]
  OBVIOUS

(* Another frame in place of one.                                          *)
LEMMA SetFacts ==
  ASSUME NEW S, NEW s \in Seq(S), NEW n \in 1..Len(s), NEW x \in S
  PROVE  /\ [s EXCEPT ![n] = x] \in Seq(S) /\ Len([s EXCEPT ![n] = x]) = Len(s)
         /\ [s EXCEPT ![n] = x][n] = x
         /\ \A i \in 1..Len(s) : i # n => [s EXCEPT ![n] = x][i] = s[i]
  OBVIOUS

(* The frames that are pushed are good.                                    *)
LEMMA NewFrames ==
  ASSUME LoopInv
  PROVE  /\ \A o \in BOOLEAN : /\ RunFrame(o) \in GoodFrame
                               /\ RunFrame(o).f = "run" /\ RunFrame(o).at = "pre"
         /\ /\ CloseAllFrame \in GoodFrame
            /\ CloseAllFrame.f = "closeall" /\ CloseAllFrame.at = "start"
         /\ \A w \in {"event", "defer"} :
              LuaFrame(w) \in GoodFrame /\ LuaFrame(w).f = "lua" /\ LuaFrame(w).at = w
         /\ /\ ProceedFrame \in GoodFrame
            /\ ProceedFrame.f = "proceed" /\ ProceedFrame.at = "none"
            /\ ProceedFrame.left = Len(defer)
  <1>0. Len(defer) \in Nat
    BY DEF LoopInv, TypeOK
  <1>1. BaseFrame \in FrameRec
    BY DEF BaseFrame, FrameRec
  <1>2. ASSUME NEW o \in BOOLEAN
        PROVE  /\ RunFrame(o) \in GoodFrame
               /\ RunFrame(o).f = "run" /\ RunFrame(o).at = "pre"
    BY DEF RunFrame, BaseFrame, FrameRec, GoodFrame
  <1>3. /\ CloseAllFrame \in GoodFrame
        /\ CloseAllFrame.f = "closeall" /\ CloseAllFrame.at = "start"
    BY DEF CloseAllFrame, BaseFrame, FrameRec, GoodFrame
  <1>4. ASSUME NEW w \in {"event", "defer"}
        PROVE  LuaFrame(w) \in GoodFrame /\ LuaFrame(w).f = "lua" /\ LuaFrame(w).at = w
    BY DEF LuaFrame, BaseFrame, FrameRec, GoodFrame
  <1>5. /\ ProceedFrame \in GoodFrame
        /\ ProceedFrame.f = "proceed" /\ ProceedFrame.at = "none"
        /\ ProceedFrame.left = Len(defer)
    BY <1>0 DEF ProceedFrame, BaseFrame, FrameRec, GoodFrame
  <1>. QED  BY <1>2, <1>3, <1>4, <1>5

(* An error is marked in the frame that called what raised it.             *)
LEMMA MarkedFrame ==
  ASSUME NEW fr \in GoodFrame, NEW e \in Errors
  PROVE  LET x == [fr EXCEPT !.mark = e, !.last = e]
         IN  x \in GoodFrame /\ x.f = fr.f /\ x.at = fr.at /\ x.left = fr.left
  BY DEF GoodFrame, FrameRec

(* A step of a pass, and the next pass.                                    *)
LEMMA CountedFrame ==
  ASSUME NEW fr \in GoodFrame, fr.f = "proceed", NEW n \in Nat
  PROVE  /\ fr.left > 0 =>
              LET x == [fr EXCEPT !.left = @ - 1, !.old = IF @ > 0 THEN @ - 1 ELSE 0]
              IN  x \in GoodFrame /\ x.f = fr.f /\ x.at = fr.at /\ x.left = fr.left - 1
         /\ fr.left = 0 =>
              LET x == [fr EXCEPT !.pass = @ + 1, !.left = n]
              IN  x \in GoodFrame /\ x.f = fr.f /\ x.at = fr.at /\ x.left = n
  <1>1. /\ fr \in FrameRec /\ fr.old = (IF fr.pass = 0 THEN fr.left ELSE 0)
        /\ fr.mark = fr.last
    BY DEF GoodFrame
  <1>2. fr.left \in Nat /\ fr.old \in Nat /\ fr.pass \in Nat
    BY <1>1 DEF FrameRec
  <1>3. ASSUME fr.left > 0
        PROVE  LET x == [fr EXCEPT !.left = @ - 1, !.old = IF @ > 0 THEN @ - 1 ELSE 0]
               IN  x \in GoodFrame /\ x.f = fr.f /\ x.at = fr.at /\ x.left = fr.left - 1
    <2>. DEFINE l == fr.left - 1
                o == IF fr.old > 0 THEN fr.old - 1 ELSE 0
                x == [fr EXCEPT !.left = l, !.old = o]
    <2>1. l \in Nat /\ o \in Nat /\ o = IF fr.pass = 0 THEN l ELSE 0
      BY <1>1, <1>2, <1>3
    <2>. HIDE DEF l, o
    <2>2. x \in FrameRec
      BY <1>1, <2>1 DEF FrameRec
    <2>3. /\ x.f = fr.f /\ x.at = fr.at /\ x.last = fr.last /\ x.mark = fr.mark
          /\ x.left = l /\ x.old = o /\ x.pass = fr.pass
      BY <1>1 DEF FrameRec
    <2>. HIDE DEF x
    <2>4. x \in GoodFrame
      BY <1>1, <2>1, <2>2, <2>3 DEF GoodFrame
    <2>. QED  BY <2>3, <2>4 DEF x, l, o
  <1>4. ASSUME fr.left = 0
        PROVE  LET x == [fr EXCEPT !.pass = @ + 1, !.left = n]
               IN  x \in GoodFrame /\ x.f = fr.f /\ x.at = fr.at /\ x.left = n
    <2>. DEFINE k == fr.pass + 1
                x == [fr EXCEPT !.pass = k, !.left = n]
    <2>1. fr.old = 0 /\ k \in Nat /\ k # 0
      BY <1>1, <1>2, <1>4
    <2>. HIDE DEF k
    <2>2. x \in FrameRec
      BY <1>1, <2>1 DEF FrameRec
    <2>3. /\ x.f = fr.f /\ x.at = fr.at /\ x.last = fr.last /\ x.mark = fr.mark
          /\ x.left = n /\ x.old = fr.old /\ x.pass = k
      BY <1>1 DEF FrameRec
    <2>. HIDE DEF x
    <2>4. x \in GoodFrame
      BY <1>1, <2>1, <2>2, <2>3 DEF GoodFrame
    <2>. QED  BY <2>3, <2>4 DEF x, k
  <1>. QED  BY <1>3, <1>4

(***************************************************************************)
(* Numbers modulo the cycle.                                               *)
(***************************************************************************)

(* Going around once.                                                      *)
LEMMA Around ==
  ASSUME NEW n \in Nat \ {0}, NEW a \in 0..(2 * n - 1)
  PROVE  a % n = IF a < n THEN a ELSE a - n
  OBVIOUS

(***************************************************************************)
(* The shape of the stack.                                                 *)
(***************************************************************************)
Alike(x, y) == x.f = y.f /\ x.at = y.at

(* The bottom of a chain.                                                  *)
LEMMA ChainCut ==
  ASSUME NEW s \in Seq(GoodFrame), Chain(s), NEW n \in 0..Len(s)
  PROVE  Chain(SubSeq(s, 1, n))
  <1>. DEFINE t == SubSeq(s, 1, n)
  <1>1. Len(t) = n /\ \A i \in 1..n : t[i] = s[i]
    BY CutFacts
  <1>. HIDE DEF t
  <1>2. n > 0 => Runner(t[1])
    BY <1>1 DEF Chain
  <1>3. ASSUME NEW i \in 1..n, i # n  PROVE Calls(t[i], t[i + 1])
    <2>1. i \in 1..Len(s) /\ i # Len(s) /\ i + 1 \in 1..n
      BY <1>3
    <2>. QED  BY <1>1, <2>1 DEF Chain
  <1>4. t # << >> => n > 0
    <2>1. t \in Seq(GoodFrame)
      BY CutFacts DEF t
    <2>. QED  BY <1>1, <2>1
  <1>. QED  BY <1>1, <1>2, <1>3, <1>4 DEF Chain, t

(* A call.                                                                 *)
LEMMA ChainPush ==
  ASSUME NEW s \in Seq(GoodFrame), Chain(s), NEW x \in GoodFrame,
         s = << >> => Runner(x),
         s # << >> => Calls(s[Len(s)], x)
  PROVE  Chain(Append(s, x))
  <1>. DEFINE t == Append(s, x)
  <1>1. /\ Len(t) = Len(s) + 1 /\ Len(s) \in Nat
        /\ \A i \in 1..Len(s) : t[i] = s[i]
        /\ t[Len(s) + 1] = x
    BY PushFacts
  <1>. HIDE DEF t
  <1>2. Runner(t[1])
    BY <1>1 DEF Chain
  <1>3. ASSUME NEW i \in 1..Len(t), i # Len(t)  PROVE Calls(t[i], t[i + 1])
    <2>1. i \in 1..Len(s)
      BY <1>1, <1>3
    <2>2. CASE i = Len(s)
      BY <1>1, <2>1, <2>2
    <2>3. CASE i # Len(s)
      <3>1. i + 1 \in 1..Len(s)
        BY <1>1, <2>1, <2>3
      <3>. QED  BY <1>1, <2>1, <2>3, <3>1 DEF Chain
    <2>. QED  BY <2>2, <2>3
  <1>. QED  BY <1>2, <1>3 DEF Chain, t

(* Frames that are alike are called alike.                                 *)
LEMMA ChainAlike ==
  ASSUME NEW s \in Seq(GoodFrame), Chain(s), NEW t \in Seq(GoodFrame),
         Len(t) = Len(s), \A i \in 1..Len(s) : Alike(t[i], s[i])
  PROVE  Chain(t)
  <1>1. t # << >> => Runner(t[1])
    BY DEF Chain, Alike, Runner
  <1>2. ASSUME NEW i \in 1..Len(t), i # Len(t)  PROVE Calls(t[i], t[i + 1])
    <2>1. i \in 1..Len(s) /\ i + 1 \in 1..Len(s) /\ i # Len(s)
      BY <1>2
    <2>2. Calls(s[i], s[i + 1]) /\ Alike(t[i], s[i]) /\ Alike(t[i + 1], s[i + 1])
      BY <2>1 DEF Chain
    <2>. QED  BY <2>2 DEF Calls, Alike, Runner
  <1>. QED  BY <1>1, <1>2 DEF Chain

(* What is below a frame.                                                  *)
LEMMA Below ==
  ASSUME NEW s \in Seq(GoodFrame), Chain(s), NEW n \in 1..Len(s)
  PROVE  /\ n = 1 => Runner(s[n])
         /\ n > 1 => Calls(s[n - 1], s[n])
  <1>1. n = 1 => Runner(s[n])
    BY DEF Chain
  <1>2. ASSUME n > 1  PROVE Calls(s[n - 1], s[n])
    <2>1. PICK m \in 1..Len(s) : m = n - 1
      BY <1>2
    <2>2. m # Len(s) /\ m + 1 = n
      BY <2>1
    <2>. QED  BY <2>1, <2>2 DEF Chain
  <1>. QED  BY <1>1, <1>2

(* A runner on top moves on.                                               *)
LEMMA ChainMove ==
  ASSUME NEW s \in Seq(GoodFrame), Chain(s), NEW x \in GoodFrame,
         NEW n \in 1..Len(s), n = Len(s), Runner(s[n]), x.f = s[n].f
  PROVE  Chain([s EXCEPT ![n] = x])
  <1>. DEFINE t == [s EXCEPT ![n] = x]
  <1>1. /\ Len(t) = n /\ t[n] = x
        /\ \A i \in 1..n : i # n => t[i] = s[i]
    BY SetFacts
  <1>. HIDE DEF t
  <1>2. Runner(t[1])
    BY <1>1 DEF Chain, Runner
  <1>3. ASSUME NEW i \in 1..n, i # n  PROVE Calls(t[i], t[i + 1])
    <2>1. Calls(s[i], s[i + 1]) /\ t[i] = s[i] /\ i + 1 \in 1..n
      BY <1>1, <1>3 DEF Chain
    <2>2. CASE i + 1 = n
      BY <1>1, <2>1, <2>2 DEF Calls, Runner
    <2>3. CASE i + 1 # n
      BY <1>1, <2>1, <2>3
    <2>. QED  BY <2>2, <2>3
  <1>. QED  BY <1>1, <1>2, <1>3 DEF Chain, t

(***************************************************************************)
(* What the steps do to a good stack.                                      *)
(***************************************************************************)

(* A call whose frame may be on top.                                       *)
LEMMA GoodPush ==
  ASSUME NEW s, GoodStack(s), NEW x \in GoodFrame, OnTop(x),
         s = << >> => Runner(x),
         s # << >> => Calls(s[Len(s)], x)
  PROVE  GoodStack(Append(s, x))
  <1>1. s \in Seq(GoodFrame) /\ Chain(s)
    BY DEF GoodStack, Shape
  <1>2. Chain(Append(s, x))
    BY <1>1, ChainPush
  <1>3. /\ Append(s, x) \in Seq(GoodFrame)
        /\ Append(s, x)[Len(Append(s, x))] = x
    BY <1>1, PushFacts
  <1>. QED  BY <1>2, <1>3 DEF GoodStack, Shape

(* The frames above n return.                                              *)
LEMMA GoodCut ==
  ASSUME NEW s \in Seq(GoodFrame), Chain(s), NEW n \in 0..Len(s),
         n > 0 => OnTop(s[n])
  PROVE  GoodStack(SubSeq(s, 1, n))
  <1>. DEFINE t == SubSeq(s, 1, n)
  <1>1. /\ t \in Seq(GoodFrame) /\ Len(t) = n
        /\ \A i \in 1..n : t[i] = s[i]
    BY CutFacts
  <1>2. Chain(t)
    BY ChainCut
  <1>. HIDE DEF t
  <1>3. t # << >> => n > 0
    BY <1>1
  <1>. QED  BY <1>1, <1>2, <1>3 DEF GoodStack, Shape, t

Moved(s, n, a) == [s EXCEPT ![n].at = a]

(* A runner on top moves on.                                               *)
LEMMA GoodMove ==
  ASSUME NEW s \in Seq(GoodFrame), Chain(s), NEW n \in 1..Len(s), n = Len(s),
         Runner(s[n]), NEW a \in {"start", "iter", "next", "done", "post"},
         NEW t, t = Moved(s, n, a)
  PROVE  /\ t \in Seq(GoodFrame) /\ Chain(t) /\ Len(t) = n
         /\ \A i \in 1..n : i # n => t[i] = s[i]
         /\ t[n].f = s[n].f /\ t[n].at = a
         /\ a # "post" => GoodStack(t)
  <1>1. PICK fr \in GoodFrame : fr = s[n]
    OBVIOUS
  <1>. DEFINE x == [fr EXCEPT !.at = a]
              u == [s EXCEPT ![n] = x]
  <1>2. x \in GoodFrame /\ x.f = fr.f /\ x.at = a
    BY DEF GoodFrame, FrameRec
  <1>3. t = u
    BY <1>1 DEF Moved
  <1>. HIDE DEF x
  <1>4. /\ u \in Seq(GoodFrame) /\ Len(u) = n /\ u[n] = x
        /\ \A i \in 1..n : i # n => u[i] = s[i]
    BY <1>2, SetFacts
  <1>5. Chain(u)
    BY <1>1, <1>2, ChainMove
  <1>. HIDE DEF u
  <1>6. a # "post" => GoodStack(u)
    BY <1>1, <1>2, <1>4, <1>5 DEF GoodStack, Shape, OnTop, Runner
  <1>. QED  BY <1>1, <1>2, <1>3, <1>4, <1>5, <1>6

(* A frame changes in what its callers do not see.                         *)
LEMMA GoodUpdate ==
  ASSUME NEW s, GoodStack(s), NEW n \in 1..Len(s), NEW x \in GoodFrame,
         Alike(x, s[n])
  PROVE  GoodStack([s EXCEPT ![n] = x])
  <1>. DEFINE t == [s EXCEPT ![n] = x]
  <1>1. s \in Seq(GoodFrame) /\ Chain(s) /\ s # << >> /\ OnTop(s[Len(s)])
    BY DEF GoodStack, Shape
  <1>2. /\ t \in Seq(GoodFrame) /\ Len(t) = Len(s) /\ t[n] = x
        /\ \A i \in 1..Len(s) : i # n => t[i] = s[i]
    BY <1>1, SetFacts
  <1>. HIDE DEF t
  <1>3. \A i \in 1..Len(s) : Alike(t[i], s[i])
    BY <1>2 DEF Alike
  <1>4. Chain(t)
    BY <1>1, <1>2, <1>3, ChainAlike
  <1>5. OnTop(t[Len(t)])
    <2>1. Len(s) \in 1..Len(s)
      BY <1>1
    <2>. QED  BY <1>1, <1>2, <1>3, <2>1 DEF Alike, OnTop, Runner
  <1>. QED  BY <1>2, <1>4, <1>5 DEF GoodStack, Shape, t

(***************************************************************************)
(* The actions.                                                            *)
(***************************************************************************)

(* The top of a good stack.                                                *)
LEMMA TopFacts ==
  ASSUME LoopInv, stack # << >>
  PROVE  /\ stack \in Seq(GoodFrame) /\ Chain(stack)
         /\ Depth \in 1..Len(stack) /\ Depth = Len(stack)
         /\ Top \in GoodFrame /\ Top = stack[Depth] /\ OnTop(Top)
         /\ Depth = 1 => Runner(Top)
         /\ Depth > 1 => Calls(stack[Depth - 1], Top) /\ stack[Depth - 1] \in GoodFrame
  <1>1. /\ stack \in Seq(GoodFrame) /\ Chain(stack)
        /\ Depth \in 1..Len(stack) /\ Depth = Len(stack)
    BY DEF LoopInv, GoodStack, Shape, Depth
  <1>2. Top \in GoodFrame /\ Top = stack[Depth] /\ OnTop(Top)
    BY <1>1 DEF LoopInv, GoodStack, Shape, Top, Depth
  <1>3. Depth = 1 => Runner(Top)
    BY <1>1, <1>2, Below
  <1>4. ASSUME Depth > 1
        PROVE  Calls(stack[Depth - 1], Top) /\ stack[Depth - 1] \in GoodFrame
    <2>1. Calls(stack[Depth - 1], stack[Depth])
      BY <1>1, <1>4, Below
    <2>2. stack[Depth - 1] \in GoodFrame
      BY <1>1, <1>4
    <2>. QED  BY <1>2, <2>1, <2>2
  <1>. QED  BY <1>1, <1>2, <1>3, <1>4

(* Lua code calls the loop.                                                *)
LEMMA RunStack ==
  ASSUME LoopInv, lluv_loop_run
  PROVE  GoodStack(stack')
  <1>1. PICK once \in BOOLEAN : stack' = stack \o <<RunFrame(once), ProceedFrame>>
    BY DEF lluv_loop_run
  <1>2. PICK r \in GoodFrame : r = RunFrame(once) /\ r.f = "run" /\ r.at = "pre"
    BY NewFrames
  <1>3. PICK p \in GoodFrame : p = ProceedFrame /\ p.f = "proceed" /\ p.at = "none"
    BY NewFrames
  <1>4. stack \in Seq(GoodFrame) /\ Chain(stack)
    BY DEF LoopInv, GoodStack, Shape
  <1>5. stack # << >> => Calls(stack[Len(stack)], r)
    <2>1. SUFFICES ASSUME stack # << >>  PROVE Calls(stack[Len(stack)], r)
      OBVIOUS
    <2>2. stack[Len(stack)].f = "lua" /\ stack[Len(stack)].at \in {"event", "defer"}
      BY <2>1, TopFacts DEF lluv_loop_run, LuaRuns, OnTop
    <2>. QED  BY <1>2, <2>2 DEF Calls, Runner
  <1>. DEFINE t == Append(stack, r)
              u == Append(t, p)
  <1>6. Chain(t)
    BY <1>2, <1>4, <1>5, ChainPush DEF Runner
  <1>7. t \in Seq(GoodFrame) /\ Len(t) = Len(stack) + 1 /\ t[Len(t)] = r
    BY <1>4, PushFacts
  <1>8. stack' = u
    BY <1>1, <1>2, <1>3, <1>4
  <1>. HIDE DEF t
  <1>9. t # << >> /\ Calls(t[Len(t)], p)
    <2>1. t # << >>
      BY <1>4, <1>7
    <2>. QED  BY <1>2, <1>3, <1>7, <2>1 DEF Calls
  <1>10. Chain(u)
    BY <1>3, <1>6, <1>7, <1>9, ChainPush
  <1>11. u \in Seq(GoodFrame) /\ u[Len(u)] = p
    BY <1>7, PushFacts
  <1>. QED  BY <1>3, <1>8, <1>10, <1>11 DEF GoodStack, Shape, OnTop, Runner

LEMMA CloseAllStack ==
  ASSUME LoopInv, lluv_loop_close_all_handles
  PROVE  GoodStack(stack')
  <1>1. PICK r \in GoodFrame : r = CloseAllFrame /\ r.f = "closeall" /\ r.at = "start"
    BY NewFrames
  <1>2. stack # << >> => Calls(stack[Len(stack)], r)
    <2>1. SUFFICES ASSUME stack # << >>  PROVE Calls(stack[Len(stack)], r)
      OBVIOUS
    <2>2. stack[Len(stack)].f = "lua" /\ stack[Len(stack)].at \in {"event", "defer"}
      BY <2>1, TopFacts DEF lluv_loop_close_all_handles, LuaRuns, OnTop
    <2>. QED  BY <1>1, <2>2 DEF Calls, Runner
  <1>3. OnTop(r) /\ Runner(r)
    BY <1>1 DEF OnTop, Runner
  <1>4. stack' = Append(stack, r)
    BY <1>1 DEF lluv_loop_close_all_handles, Push
  <1>5. GoodStack(stack)
    BY DEF LoopInv
  <1>. QED  BY <1>2, <1>3, <1>4, <1>5, GoodPush

(* Lua code returns.                                                       *)
LEMMA LuaReturnsStack ==
  ASSUME LoopInv, LuaReturns
  PROVE  GoodStack(stack')
  <1>1. /\ stack # << >> /\ Top.f = "lua"
        /\ stack' = IF Top.at = "event" THEN Append(Popped, ProceedFrame) ELSE Popped
    BY DEF LuaReturns, TopIs
  <1>2. PICK n \in 1..Len(stack) : n = Depth - 1
    BY <1>1, TopFacts DEF Runner
  <1>3. Calls(stack[n], Top) /\ stack \in Seq(GoodFrame) /\ Chain(stack)
    BY <1>1, <1>2, TopFacts
  <1>4. OnTop(stack[n]) /\ (Top.at = "event" => Runner(stack[n]) /\ stack[n].at = "iter")
    BY <1>1, <1>3 DEF Calls, OnTop, Runner
  <1>5. PICK t : t = Popped
    OBVIOUS
  <1>6. /\ GoodStack(t) /\ t # << >>
        /\ t[Len(t)] = stack[n]
    <2>1. t = SubSeq(stack, 1, n) /\ n \in 0..Len(stack)
      BY <1>2, <1>5 DEF Popped
    <2>2. GoodStack(t)
      BY <1>3, <1>4, <2>1, GoodCut
    <2>3. Len(t) = n /\ t[n] = stack[n]
      BY <1>3, <2>1, CutFacts
    <2>. QED  BY <2>2, <2>3 DEF GoodStack
  <1>7. CASE Top.at = "event"
    <2>1. PICK p \in GoodFrame : p = ProceedFrame /\ p.f = "proceed" /\ p.at = "none"
      BY NewFrames
    <2>2. OnTop(p) /\ Calls(t[Len(t)], p)
      BY <1>4, <1>6, <1>7, <2>1 DEF OnTop, Calls, Runner
    <2>3. stack' = Append(t, p)
      BY <1>1, <1>5, <1>7, <2>1
    <2>. QED  BY <1>6, <2>2, <2>3, GoodPush
  <1>. QED  BY <1>1, <1>5, <1>6, <1>7

(* The innermost runner.                                                   *)
LEMMA RunnerFacts ==
  ASSUME LoopInv, TopIs("lua")
  PROVE  /\ InnerMost(Runners) \in 1..Depth
         /\ Top.at = "event" => InnerMost(Runners) = Depth - 1
         /\ Top.at # "event" => /\ InnerMost(Runners) = Depth - 2
                                /\ stack[Depth - 1].f = "proceed"
         /\ stack[InnerMost(Runners)].at \in {"pre", "post", "iter"}
         /\ Top.at = "event" => stack[InnerMost(Runners)].at = "iter"
         /\ Runner(stack[InnerMost(Runners)])
  <1>1. stack # << >> /\ Top.f = "lua" /\ Depth \in Nat
    BY TopFacts DEF TopIs
  <1>2. PICK n \in 1..Len(stack) : n = Depth - 1
    BY <1>1, TopFacts DEF Runner
  <1>3. /\ Calls(stack[n], Top) /\ stack \in Seq(GoodFrame) /\ Chain(stack)
        /\ Depth = Len(stack) /\ Top = stack[Depth]
    BY <1>1, <1>2, TopFacts
  <1>4. ASSUME NEW m \in 1..Depth, Runner(stack[m]),
               \A j \in 1..Depth : j > m => ~Runner(stack[j])
        PROVE  InnerMost(Runners) = m
    <2>1. m \in Runners /\ \A j \in Runners : j <= m
      BY <1>1, <1>4 DEF Runners, Runner
    <2>2. \A k \in Runners : (\A j \in Runners : j <= k) => k = m
      BY <1>1, <2>1 DEF Runners
    <2>. QED  BY <2>1, <2>2 DEF InnerMost
  <1>5. CASE Top.at = "event"
    <2>1. Runner(stack[n]) /\ stack[n].at = "iter"
      BY <1>1, <1>3, <1>5 DEF Calls, Runner
    <2>2. \A j \in 1..Depth : j > n => ~Runner(stack[j])
      BY <1>1, <1>2, <1>3 DEF Runner
    <2>3. InnerMost(Runners) = n
      BY <1>2, <1>3, <1>4, <2>1, <2>2
    <2>. QED  BY <1>2, <1>3, <1>5, <2>1, <2>3
  <1>6. CASE Top.at # "event"
    <2>1. stack[n].f = "proceed"
      BY <1>1, <1>3, <1>6 DEF Calls, Runner
    <2>2. PICK m \in 1..Len(stack) : m = n - 1
      <3>1. n # 1
        BY <1>3, <2>1, Below DEF Runner
      <3>. QED  BY <3>1
    <2>3. Calls(stack[m], stack[n])
      BY <1>3, <2>2, Below
    <2>4. Runner(stack[m]) /\ stack[m].at \in {"pre", "post", "iter"}
      BY <2>1, <2>3 DEF Calls, Runner
    <2>5. \A j \in 1..Depth : j > m => ~Runner(stack[j])
      <3>1. \A j \in 1..Depth : j > m => j = n \/ j = Depth
        BY <1>1, <1>2, <2>2
      <3>. QED  BY <1>1, <1>3, <2>1, <3>1 DEF Runner
    <2>6. InnerMost(Runners) = m
      BY <1>3, <1>4, <2>4, <2>5
    <2>. QED  BY <1>2, <1>3, <1>6, <2>1, <2>2, <2>4, <2>6
  <1>. QED  BY <1>5, <1>6

(* Lua code fails.                                                         *)
LEMMA LuaFailsStack ==
  ASSUME LoopInv, LuaFails
  PROVE  /\ GoodStack(stack')
         /\ Len(stack') < Depth
         /\ \A i \in 1..Len(stack') :
              stack'[i].f = stack[i].f /\ (~Runner(stack[i]) => stack'[i] = stack[i])
  <1>1. stack # << >> /\ Top.f = "lua" /\ TopIs("lua")
    BY DEF LuaFails, TopIs
  <1>2. PICK m \in 1..Len(stack) : m = InnerMost(Runners)
    BY <1>1, TopFacts, RunnerFacts
  <1>3. PICK e \in Errors :
          LET y == [Marked(stack, m, e) EXCEPT ![Caller].last = e]
          IN  stack' = IF Top.at = "event" THEN SubSeq(y, 1, Depth - 1)
                       ELSE Abandoned(SubSeq(y, 1, Depth - 2))
    BY <1>2 DEF LuaFails
  <1>4. /\ GoodStack(stack) /\ stack \in Seq(GoodFrame) /\ Runner(stack[m])
        /\ stack[m].at \in {"pre", "post", "iter"}
        /\ Top.at = "event" => m = Depth - 1 /\ stack[m].at = "iter"
        /\ Top.at # "event" => m = Depth - 2
    BY <1>1, <1>2, RunnerFacts DEF LoopInv, GoodStack
  <1>5. PICK fr \in GoodFrame : fr = stack[m]
    BY <1>4
  <1>. DEFINE x == [fr EXCEPT !.mark = e, !.last = e]
              s == [stack EXCEPT ![m] = x]
              t == SubSeq(s, 1, m)
  <1>6. x \in GoodFrame /\ x.f = fr.f /\ x.at = fr.at
    BY MarkedFrame
  <1>7. s = [Marked(stack, m, e) EXCEPT ![Caller].last = e]
    <2>1. Caller = m
      BY <1>4 DEF Caller
    <2>. QED  BY <1>4, <1>5, <2>1 DEF Marked, x
  <1>. HIDE DEF x
  <1>8. GoodStack(s)
    BY <1>4, <1>5, <1>6, GoodUpdate DEF Alike
  <1>9. \A i \in 1..Len(stack) : i # m => s[i] = stack[i]
    BY <1>4, <1>6, SetFacts
  <1>10. s \in Seq(GoodFrame) /\ Chain(s) /\ Len(s) = Len(stack) /\ s[m] = x
    BY <1>4, <1>6, <1>8, SetFacts DEF GoodStack, Shape
  <1>11. Chain(t)
    <2>. HIDE DEF s
    <2>. QED  BY <1>10, ChainCut
  <1>12. t \in Seq(GoodFrame) /\ Len(t) = m /\ t[m] = x
    <2>. HIDE DEF s
    <2>1. m \in 0..Len(s) /\ m \in 1..m
      BY <1>10
    <2>. QED  BY <1>10, <2>1, CutFacts
  <1>13. m < Depth /\ \A i \in 1..m : i # m => t[i] = stack[i]
    <2>. HIDE DEF s
    <2>1. \A i \in 1..m : t[i] = s[i]
      BY <1>10, CutFacts
    <2>2. m < Depth
      BY <1>1, <1>4, TopFacts
    <2>. QED  BY <1>9, <2>1, <2>2
  <1>14. stack' = IF Top.at = "event" THEN t ELSE Abandoned(t)
    <2>. HIDE DEF s
    <2>. QED  BY <1>3, <1>4, <1>7
  <1>. HIDE DEF t
  <1>15. CASE x.at = "iter"
    <2>1. stack' = t
      BY <1>12, <1>14, <1>15 DEF Abandoned
    <2>2. OnTop(x)
      BY <1>4, <1>5, <1>6, <1>15 DEF OnTop, Runner
    <2>3. GoodStack(stack')
      BY <1>11, <1>12, <2>1, <2>2 DEF GoodStack, Shape
    <2>. QED  BY <1>4, <1>5, <1>6, <1>12, <1>13, <2>1, <2>3
  <1>16. CASE x.at \in {"pre", "post"}
    <2>1. stack' = Moved(t, m, "done")
      BY <1>4, <1>5, <1>6, <1>12, <1>14, <1>16 DEF Abandoned, Moved
    <2>2. Runner(t[m])
      BY <1>4, <1>5, <1>6, <1>12 DEF Runner
    <2>3. m \in 1..Len(t) /\ m = Len(t)
      BY <1>12
    <2>. HIDE DEF s
    <2>4. PICK a \in {"start", "iter", "next", "done", "post"} : a = "done"
      OBVIOUS
    <2>5. PICK u : u = Moved(t, m, a)
      OBVIOUS
    <2>6. /\ GoodStack(u) /\ Len(u) = m /\ u[m].f = t[m].f
          /\ \A i \in 1..m : i # m => u[i] = t[i]
      <3>1. GoodStack(u) /\ Len(u) = m
        BY <1>11, <1>12, <2>2, <2>3, <2>4, <2>5, GoodMove
      <3>2. u[m].f = t[m].f /\ \A i \in 1..m : i # m => u[i] = t[i]
        BY <1>11, <1>12, <2>2, <2>3, <2>4, <2>5, GoodMove
      <3>. QED  BY <3>1, <3>2
    <2>. QED  BY <1>4, <1>5, <1>6, <1>12, <1>13, <2>1, <2>4, <2>5, <2>6
  <1>. QED  BY <1>4, <1>5, <1>6, <1>15, <1>16

(* A deferred call is made.                                                *)
LEMMA DeferredCallStack ==
  ASSUME LoopInv, DeferredCall
  PROVE  /\ GoodStack(stack')
         /\ Len(stack') = Depth + 1
         /\ \A i \in 1..Depth : i # Depth => stack'[i] = stack[i]
         /\ stack'[Depth].f = "proceed" /\ stack'[Depth].left = Top.left - 1
         /\ stack'[Depth + 1].f = "lua"
  <1>1. stack # << >> /\ Top.f = "proceed" /\ Top.left > 0
    BY DEF DeferredCall, TopIs
  <1>2. PICK n \in 1..Len(stack) : n = Depth /\ n = Len(stack)
    BY <1>1, TopFacts
  <1>3. PICK fr \in GoodFrame : fr = stack[n] /\ fr = Top
    BY <1>1, <1>2, TopFacts
  <1>4. GoodStack(stack) /\ stack \in Seq(GoodFrame)
    BY DEF LoopInv, GoodStack
  <1>5. PICK l \in GoodFrame : l = LuaFrame("defer") /\ l.f = "lua" /\ l.at = "defer"
    BY NewFrames
  <1>. DEFINE x == [fr EXCEPT !.left = @ - 1, !.old = IF @ > 0 THEN @ - 1 ELSE 0]
              t == [stack EXCEPT ![n] = x]
  <1>6. x \in GoodFrame /\ x.f = fr.f /\ x.at = fr.at /\ x.left = fr.left - 1
    BY <1>1, <1>3, CountedFrame
  <1>7. stack' = Append(t, l)
    BY <1>2, <1>3, <1>5 DEF DeferredCall
  <1>. HIDE DEF x
  <1>8. GoodStack(t)
    BY <1>3, <1>4, <1>6, GoodUpdate DEF Alike
  <1>9. /\ t \in Seq(GoodFrame) /\ Len(t) = n /\ t[n] = x
        /\ \A i \in 1..n : i # n => t[i] = stack[i]
    BY <1>2, <1>4, <1>6, SetFacts
  <1>. HIDE DEF t
  <1>10. OnTop(l) /\ t # << >> /\ Calls(t[Len(t)], l)
    <2>1. t # << >> /\ t[Len(t)] = x
      BY <1>9
    <2>2. OnTop(x)
      BY <1>8, <2>1 DEF GoodStack, Shape
    <2>. QED  BY <1>1, <1>3, <1>5, <1>6, <2>1, <2>2 DEF OnTop, Calls, Runner
  <1>11. GoodStack(stack')
    BY <1>7, <1>8, <1>10, GoodPush
  <1>12. /\ Len(stack') = n + 1
         /\ \A i \in 1..n : stack'[i] = t[i]
         /\ stack'[n + 1] = l
    BY <1>7, <1>9, PushFacts
  <1>. QED  BY <1>1, <1>2, <1>3, <1>5, <1>6, <1>9, <1>11, <1>12

(* The next pass begins.                                                   *)
LEMMA NextPassStack ==
  ASSUME LoopInv, NextPass
  PROVE  /\ GoodStack(stack')
         /\ Len(stack') = Depth
         /\ \A i \in 1..Depth : i # Depth => stack'[i] = stack[i]
         /\ stack'[Depth].f = "proceed" /\ stack'[Depth].left = Len(defer)
  <1>1. stack # << >> /\ Top.f = "proceed" /\ Top.left = 0 /\ Len(defer) \in Nat
    BY DEF NextPass, TopIs, LoopInv, TypeOK
  <1>2. PICK n \in 1..Len(stack) : n = Depth /\ n = Len(stack)
    BY <1>1, TopFacts
  <1>3. PICK fr \in GoodFrame : fr = stack[n] /\ fr = Top
    BY <1>1, <1>2, TopFacts
  <1>4. GoodStack(stack) /\ stack \in Seq(GoodFrame)
    BY DEF LoopInv, GoodStack
  <1>. DEFINE x == [fr EXCEPT !.pass = @ + 1, !.left = Len(defer)]
              t == [stack EXCEPT ![n] = x]
  <1>5. x \in GoodFrame /\ x.f = fr.f /\ x.at = fr.at /\ x.left = Len(defer)
    BY <1>1, <1>3, CountedFrame
  <1>6. stack' = t
    BY <1>2, <1>3 DEF NextPass
  <1>. HIDE DEF x
  <1>7. GoodStack(t)
    BY <1>3, <1>4, <1>5, GoodUpdate DEF Alike
  <1>8. /\ Len(t) = n /\ t[n] = x
        /\ \A i \in 1..n : i # n => t[i] = stack[i]
    BY <1>2, <1>4, <1>5, SetFacts
  <1>. HIDE DEF t
  <1>. QED  BY <1>1, <1>2, <1>3, <1>5, <1>6, <1>7, <1>8

(* defer_proceed returns to the run or to libuv.                           *)
LEMMA ProceedReturnsStack ==
  ASSUME LoopInv, ProceedReturns
  PROVE  /\ GoodStack(stack')
         /\ Len(stack') = Depth - 1
         /\ \A i \in 1..(Depth - 1) :
              stack'[i].f = stack[i].f /\ (~Runner(stack[i]) => stack'[i] = stack[i])
  <1>1. stack # << >> /\ Top.f = "proceed" /\ stack' = Resumed(Popped)
    BY DEF ProceedReturns, TopIs
  <1>2. PICK n \in 1..Len(stack) : n = Depth - 1
    BY <1>1, TopFacts DEF Runner
  <1>3. Calls(stack[n], Top) /\ stack \in Seq(GoodFrame) /\ Chain(stack)
    BY <1>1, <1>2, TopFacts
  <1>4. Runner(stack[n]) /\ stack[n].at \in {"pre", "post", "iter"}
    BY <1>1, <1>3 DEF Calls, Runner
  <1>. DEFINE t == SubSeq(stack, 1, n)
  <1>5. /\ t \in Seq(GoodFrame) /\ Len(t) = n
        /\ \A i \in 1..n : t[i] = stack[i]
    BY <1>3, CutFacts
  <1>6. Chain(t)
    BY <1>3, ChainCut
  <1>7. stack' = Resumed(t)
    BY <1>1, <1>2 DEF Popped
  <1>. HIDE DEF t
  <1>8. n \in 1..Len(t) /\ n = Len(t) /\ Runner(t[n]) /\ t[n] = stack[n]
    BY <1>4, <1>5
  <1>9. CASE stack[n].at = "iter"
    <2>1. stack' = t
      BY <1>7, <1>8, <1>9 DEF Resumed
    <2>2. OnTop(t[n])
      BY <1>8, <1>9 DEF OnTop, Runner
    <2>. QED  BY <1>2, <1>5, <1>6, <1>8, <2>1, <2>2 DEF GoodStack, Shape
  <1>10. ASSUME NEW a \in {"start", "done"}, stack' = Moved(t, n, a)
         PROVE  /\ GoodStack(stack')
                /\ Len(stack') = Depth - 1
                /\ \A i \in 1..(Depth - 1) :
                     stack'[i].f = stack[i].f /\ (~Runner(stack[i]) => stack'[i] = stack[i])
    <2>1. PICK u : u = Moved(t, n, a)
      OBVIOUS
    <2>2. /\ GoodStack(u) /\ Len(u) = n /\ u[n].f = t[n].f
          /\ \A i \in 1..n : i # n => u[i] = t[i]
      BY <1>5, <1>6, <1>8, <2>1, GoodMove
    <2>. QED  BY <1>2, <1>4, <1>5, <1>10, <2>1, <2>2
  <1>11. CASE stack[n].at = "pre"
    <2>1. stack' = Moved(t, n, "start")
      BY <1>7, <1>8, <1>11 DEF Resumed, Moved
    <2>. QED  BY <1>10, <2>1
  <1>12. CASE stack[n].at = "post"
    <2>1. stack' = Moved(t, n, "done")
      BY <1>7, <1>8, <1>12 DEF Resumed, Moved
    <2>. QED  BY <1>10, <2>1
  <1>. QED  BY <1>4, <1>9, <1>11, <1>12

(* The runner on top moves: an iteration begins or ends, uv_run returns.   *)
LEMMA MoveTopStack ==
  ASSUME LoopInv, InUvRun, NEW a \in {"start", "iter", "next", "done"}, MoveTop(a)
  PROVE  /\ GoodStack(stack')
         /\ Len(stack') = Depth
         /\ \A i \in 1..Depth :
              stack'[i].f = stack[i].f /\ (~Runner(stack[i]) => stack'[i] = stack[i])
  <1>1. stack # << >> /\ Runner(Top)
    BY DEF InUvRun, TopIs, Runner
  <1>2. PICK n \in 1..Len(stack) :
          n = Depth /\ n = Len(stack) /\ Runner(stack[n])
    BY <1>1, TopFacts
  <1>3. stack \in Seq(GoodFrame) /\ Chain(stack)
    BY <1>1, TopFacts
  <1>4. PICK t : t = Moved(stack, n, a)
    OBVIOUS
  <1>5. stack' = t
    BY <1>2, <1>4 DEF MoveTop, Moved
  <1>6. /\ GoodStack(t) /\ Len(t) = n /\ t[n].f = stack[n].f
        /\ \A i \in 1..n : i # n => t[i] = stack[i]
    BY <1>2, <1>3, <1>4, GoodMove
  <1>. QED  BY <1>2, <1>5, <1>6

(* uv_run returns to a run that found the loop dead.                       *)
LEMMA PostStack ==
  ASSUME LoopInv, TopIs("run"),
         stack' = Append([stack EXCEPT ![Depth].at = "post"], ProceedFrame)
  PROVE  /\ GoodStack(stack')
         /\ Len(stack') = Depth + 1
         /\ \A i \in 1..Depth :
              stack'[i].f = stack[i].f /\ (~Runner(stack[i]) => stack'[i] = stack[i])
         /\ stack'[Depth + 1].f = "proceed" /\ stack'[Depth + 1].left = Len(defer)
  <1>1. stack # << >> /\ Runner(Top) /\ Top.f = "run"
    BY DEF TopIs, Runner
  <1>2. PICK n \in 1..Len(stack) :
          n = Depth /\ n = Len(stack) /\ Runner(stack[n]) /\ stack[n].f = "run"
    BY <1>1, TopFacts
  <1>3. stack \in Seq(GoodFrame) /\ Chain(stack)
    BY <1>1, TopFacts
  <1>4. PICK p \in GoodFrame :
          p = ProceedFrame /\ p.f = "proceed" /\ p.at = "none" /\ p.left = Len(defer)
    BY NewFrames
  <1>5. PICK t : t = Moved(stack, n, "post")
    OBVIOUS
  <1>6. stack' = Append(t, p)
    BY <1>2, <1>4, <1>5 DEF Moved
  <1>7. /\ t \in Seq(GoodFrame) /\ Chain(t) /\ Len(t) = n
        /\ t[n].f = stack[n].f /\ t[n].at = "post"
        /\ \A i \in 1..n : i # n => t[i] = stack[i]
    BY <1>2, <1>3, <1>5, GoodMove
  <1>8. t # << >> /\ Calls(t[Len(t)], p)
    BY <1>2, <1>4, <1>7 DEF Calls
  <1>9. Chain(Append(t, p))
    BY <1>7, <1>8, ChainPush
  <1>10. /\ stack' \in Seq(GoodFrame) /\ Len(stack') = n + 1
         /\ \A i \in 1..n : stack'[i] = t[i]
         /\ stack'[n + 1] = p
    <2>1. /\ Append(t, p) \in Seq(GoodFrame) /\ Len(Append(t, p)) = n + 1
          /\ \A i \in 1..n : Append(t, p)[i] = t[i]
          /\ Append(t, p)[n + 1] = p
      BY <1>7, PushFacts
    <2>. QED  BY <1>6, <2>1
  <1>11. GoodStack(stack')
    BY <1>4, <1>6, <1>9, <1>10 DEF GoodStack, Shape, OnTop, Runner
  <1>. QED  BY <1>2, <1>4, <1>7, <1>10, <1>11

(* An event calls back.                                                    *)
LEMMA EventStack ==
  ASSUME LoopInv, EventCallback
  PROVE  GoodStack(stack') /\ stack' = Append(stack, LuaFrame("event"))
  <1>1. stack # << >> /\ Runner(Top) /\ Top.at = "iter"
    BY DEF EventCallback, InUvRun, TopIs, Runner
  <1>2. PICK l \in GoodFrame : l = LuaFrame("event") /\ l.f = "lua" /\ l.at = "event"
    BY NewFrames
  <1>3. Calls(stack[Len(stack)], l) /\ OnTop(l)
    BY <1>1, <1>2, TopFacts DEF Calls, OnTop, Runner
  <1>4. stack' = Append(stack, l) /\ GoodStack(stack)
    BY <1>2 DEF EventCallback, Push, LoopInv
  <1>. QED  BY <1>1, <1>2, <1>3, <1>4, GoodPush

(* A runner returns to the Lua code that called it.                        *)
LEMMA ReturnStack ==
  ASSUME LoopInv, stack # << >>, Runner(Top), Pop
  PROVE  /\ GoodStack(stack')
         /\ Len(stack') = Depth - 1
         /\ \A i \in 1..(Depth - 1) : stack'[i] = stack[i]
  <1>1. stack \in Seq(GoodFrame) /\ Chain(stack) /\ stack' = SubSeq(stack, 1, Depth - 1)
    BY TopFacts DEF Pop, Popped
  <1>2. PICK n \in 0..Len(stack) : n = Depth - 1
    BY TopFacts
  <1>3. n > 0 => OnTop(stack[n])
    <2>1. n > 0 => Calls(stack[n], Top)
      BY <1>2, TopFacts
    <2>. QED  BY <2>1 DEF Calls, OnTop, Runner
  <1>4. GoodStack(stack')
    BY <1>1, <1>2, <1>3, GoodCut
  <1>5. Len(stack') = n /\ \A i \in 1..n : stack'[i] = stack[i]
    BY <1>1, <1>2, CutFacts
  <1>. QED  BY <1>2, <1>4, <1>5

(***************************************************************************)
(* The queue.                                                              *)
(***************************************************************************)

(* Counting on, one first or one last.                                     *)
LEMMA CountOn ==
  ASSUME NEW n \in Nat \ {0}, NEW a \in 0..(n - 1), NEW k \in 0..(n - 1)
  PROVE  /\ (((a + 1) % n) + k) % n = (a + (k + 1)) % n
         /\ (((a + k) % n) + 1) % n = (a + (k + 1)) % n
  <1>1. (a + (k + 1)) % n = IF a + k + 1 < n THEN a + k + 1 ELSE a + k + 1 - n
    <2>1. PICK c \in 0..(2 * n - 1) : c = a + (k + 1)
      OBVIOUS
    <2>2. c % n = IF c < n THEN c ELSE c - n
      BY Around
    <2>. QED  BY <2>1, <2>2
  <1>2. (a + 1) % n = IF a + 1 < n THEN a + 1 ELSE 0
    <2>1. PICK c \in 0..(2 * n - 1) : c = a + 1
      OBVIOUS
    <2>2. c % n = IF c < n THEN c ELSE c - n
      BY Around
    <2>. QED  BY <2>1, <2>2
  <1>3. (a + k) % n = IF a + k < n THEN a + k ELSE a + k - n
    <2>1. PICK c \in 0..(2 * n - 1) : c = a + k
      OBVIOUS
    <2>2. c % n = IF c < n THEN c ELSE c - n
      BY Around
    <2>. QED  BY <2>1, <2>2
  <1>4. (((a + 1) % n) + k) % n = (a + (k + 1)) % n
    <2>1. PICK b \in 0..(n - 1) : b = (a + 1) % n
      BY <1>2
    <2>2. PICK c \in 0..(2 * n - 1) : c = b + k
      OBVIOUS
    <2>3. c % n = IF c < n THEN c ELSE c - n
      BY Around
    <2>. QED  BY <1>1, <1>2, <2>1, <2>2, <2>3
  <1>5. (((a + k) % n) + 1) % n = (a + (k + 1)) % n
    <2>1. PICK b \in 0..(n - 1) : b = (a + k) % n
      BY <1>3
    <2>2. PICK c \in 0..(2 * n - 1) : c = b + 1
      OBVIOUS
    <2>3. c % n = IF c < n THEN c ELSE c - n
      BY Around
    <2>. QED  BY <1>1, <1>3, <2>1, <2>2, <2>3
  <1>. QED  BY <1>4, <1>5

(* A call is queued.                                                       *)
LEMMA DeferKeepsOrder ==
  ASSUME LoopInv, lluv_loop_defer_call
  PROVE  defer' \in Seq(Ids) /\ nextId' \in Ids /\ InOrder'
  <1>1. /\ open /\ open' = open /\ ran' = ran /\ Len(defer) < MaxQueue
        /\ defer' = Append(defer, nextId) /\ nextId' = (nextId + 1) % (MaxQueue + 1)
    BY DEF lluv_loop_defer_call, After
  <1>2. /\ defer \in Seq(Ids) /\ nextId \in Ids /\ ran \in Ids
        /\ \A i \in 1..Len(defer) : defer[i] = (ran + i) % (MaxQueue + 1)
        /\ nextId = (ran + Len(defer) + 1) % (MaxQueue + 1)
    BY <1>1 DEF LoopInv, TypeOK, InOrder, DeferredInOrder
  <1>3. PICK n \in Nat \ {0} : n = MaxQueue + 1
    BY LoopAssumption
  <1>4. PICK k \in 0..(n - 1) : k = Len(defer) + 1
    BY <1>1, <1>2, <1>3, LoopAssumption
  <1>5. ran \in 0..(n - 1) /\ nextId \in 0..(n - 1) /\ nextId = (ran + k) % n
    BY <1>2, <1>3, <1>4, LoopAssumption DEF Ids
  <1>6. nextId' = (ran + (k + 1)) % n /\ nextId' \in Ids
    <2>1. (nextId + 1) % n = (ran + (k + 1)) % n
      BY <1>5, CountOn
    <2>2. nextId + 1 \in 0..(2 * n - 1)
      BY <1>5
    <2>3. (nextId + 1) % n \in 0..(n - 1)
      BY <1>5, <2>2, Around
    <2>. QED  BY <1>1, <1>3, <2>1, <2>3, LoopAssumption DEF Ids
  <1>7. /\ defer' \in Seq(Ids) /\ Len(defer') = k
        /\ \A i \in 1..Len(defer) : defer'[i] = defer[i]
        /\ defer'[k] = nextId
    BY <1>1, <1>2, <1>4, PushFacts
  <1>8. \A i \in 1..k : defer'[i] = (ran + i) % n
    <2>1. \A i \in 1..k : i \in 1..Len(defer) \/ i = k
      BY <1>4
    <2>. QED  BY <1>2, <1>3, <1>5, <1>7, <2>1
  <1>9. DeferredInOrder'
    <2>1. nextId' = (ran' + Len(defer') + 1) % (MaxQueue + 1)
      <3>1. ran' + Len(defer') + 1 = ran + (k + 1)
        BY <1>1, <1>5, <1>7
      <3>. QED  BY <1>3, <1>6, <3>1
    <2>. QED  BY <1>1, <1>3, <1>7, <1>8, <2>1 DEF DeferredInOrder
  <1>10. Len(defer') <= MaxQueue
    BY <1>3, <1>4, <1>7, LoopAssumption
  <1>. QED  BY <1>6, <1>7, <1>9, <1>10 DEF InOrder

(* The first call of the queue is taken out.                               *)
LEMMA RunKeepsOrder ==
  ASSUME LoopInv, DeferredCall
  PROVE  defer' \in Seq(Ids) /\ ran' \in Ids /\ InOrder' /\ Len(defer') = Len(defer) - 1
  <1>1. /\ open' = open /\ nextId' = nextId /\ defer # << >>
        /\ defer' = Tail(defer) /\ ran' = Head(defer)
    BY DEF DeferredCall
  <1>2. /\ defer \in Seq(Ids) /\ nextId \in Ids /\ ran \in Ids /\ Len(defer) <= MaxQueue
        /\ open => \A i \in 1..Len(defer) : defer[i] = (ran + i) % (MaxQueue + 1)
        /\ open => nextId = (ran + Len(defer) + 1) % (MaxQueue + 1)
    BY <1>1 DEF LoopInv, TypeOK, InOrder, DeferredInOrder
  <1>3. PICK n \in Nat \ {0} : n = MaxQueue + 1
    BY LoopAssumption
  <1>4. PICK k \in 0..(n - 1) : k = Len(defer) /\ k > 0
    BY <1>1, <1>2, <1>3, LoopAssumption
  <1>5. /\ defer' \in Seq(Ids) /\ Len(defer') = k - 1 /\ ran' = defer[1] /\ ran' \in Ids
        /\ \A i \in 1..(k - 1) : defer'[i] = defer[i + 1]
    BY <1>1, <1>2, <1>4
  <1>6. ran \in 0..(n - 1)
    BY <1>2, <1>3, LoopAssumption DEF Ids
  <1>7. ASSUME open'  PROVE DeferredInOrder'
    <2>1. /\ ran' = (ran + 1) % n
          /\ \A i \in 1..k : defer[i] = (ran + i) % n
          /\ nextId = (ran + (k + 1)) % n
      <3>1. ran + Len(defer) + 1 = ran + (k + 1)
        BY <1>4, <1>6
      <3>. QED  BY <1>1, <1>2, <1>3, <1>4, <1>5, <1>7, <3>1
    <2>2. ASSUME NEW i \in 1..(k - 1)  PROVE defer'[i] = (ran' + i) % n
      <3>1. i \in 0..(n - 1) /\ i + 1 \in 1..k
        BY <1>4
      <3>2. (((ran + 1) % n) + i) % n = (ran + (i + 1)) % n
        BY <1>6, <3>1, CountOn
      <3>. QED  BY <1>5, <2>1, <3>1, <3>2
    <2>3. nextId' = (ran' + Len(defer') + 1) % n
      <3>1. (((ran + 1) % n) + k) % n = (ran + (k + 1)) % n
        BY <1>6, CountOn
      <3>2. (ran' + k) % n = nextId
        BY <2>1, <3>1
      <3>3. ran' + Len(defer') + 1 = ran' + k
        BY <1>5 DEF Ids
      <3>. QED  BY <1>1, <3>2, <3>3
    <2>. QED  BY <1>3, <1>5, <2>2, <2>3 DEF DeferredInOrder
  <1>8. DeferredInOrder'
    BY <1>7 DEF DeferredInOrder
  <1>. QED  BY <1>2, <1>4, <1>5, <1>8, LoopAssumption DEF InOrder

(***************************************************************************)
(* The invariant.                                                          *)
(***************************************************************************)
LEMMA InitLoopInv ==
  ASSUME Init
  PROVE  LoopInv
  <1>1. stack = << >> /\ stack \in Seq(GoodFrame) /\ stack \in Seq(FrameRec)
    BY DEF Init
  <1>2. Chain(stack) /\ GoodStack(stack)
    BY <1>1 DEF Chain, GoodStack, Shape
  <1>3. defer = << >> /\ defer \in Seq(Ids) /\ Len(defer) = 0
    BY DEF Init
  <1>4. TypeOK
    <2>1. nextId \in Ids /\ ran \in Ids /\ alive \in Nat
      BY LoopAssumption DEF Init, Ids
    <2>2. open \in BOOLEAN /\ stop \in BOOLEAN /\ result \in Results
      BY Zenon DEF Init, Ended, Results
    <2>. QED  BY <1>1, <1>3, <2>1, <2>2 DEF TypeOK, Results
  <1>5. InOrder
    <2>1. (MaxQueue + 1) \in 0..(2 * (MaxQueue + 1) - 1) /\ MaxQueue + 1 \in Nat \ {0}
      BY LoopAssumption
    <2>2. (MaxQueue + 1) % (MaxQueue + 1) = 0
      BY <2>1, Around
    <2>3. nextId = (ran + Len(defer) + 1) % (MaxQueue + 1)
      BY <1>3, <2>2, LoopAssumption DEF Init
    <2>. QED  BY <1>3, <2>3, LoopAssumption DEF InOrder, DeferredInOrder
  <1>. QED  BY <1>2, <1>4, <1>5 DEF LoopInv

(* Good frames are frames.                                                 *)
LEMMA GoodIsTyped ==
  ASSUME NEW s, GoodStack(s)
  PROVE  s \in Seq(FrameRec)
  BY DEF GoodStack, GoodFrame

(* Every step keeps the stack good.                                        *)
LEMMA StackStep ==
  ASSUME LoopInv, Next
  PROVE  GoodStack(stack')
  <1>. USE DEF Next, Lua, Proceed, UvRun
  <1>1. CASE stack' = stack
    BY <1>1 DEF LoopInv
  <1>2. CASE \/ lluv_loop_defer_call \/ StartHandle \/ StopHandle
             \/ lluv_loop_stop \/ lluv_loop_close
    BY <1>1, <1>2 DEF lluv_loop_defer_call, StartHandle, StopHandle, lluv_loop_stop,
                      lluv_loop_close
  <1>3. CASE lluv_loop_run
    BY <1>3, RunStack
  <1>4. CASE lluv_loop_close_all_handles
    BY <1>4, CloseAllStack
  <1>5. CASE LuaFails
    BY <1>5, LuaFailsStack
  <1>6. CASE LuaReturns
    BY <1>6, LuaReturnsStack
  <1>7. CASE DeferredCall
    BY <1>7, DeferredCallStack
  <1>8. CASE NextPass
    BY <1>8, NextPassStack
  <1>9. CASE ProceedReturns
    BY <1>9, ProceedReturnsStack
  <1>10. CASE IterationBegins
    <2>1. InUvRun /\ MoveTop("iter")
      BY <1>10 DEF IterationBegins, AtLoopTest
    <2>. QED  BY <2>1, MoveTopStack
  <1>11. CASE IterationEnds
    <2>1. InUvRun /\ MoveTop("next")
      BY <1>11 DEF IterationEnds
    <2>. QED  BY <2>1, MoveTopStack
  <1>12. CASE UvRunReturns
    <2>1. InUvRun
      BY <1>12 DEF UvRunReturns, AtLoopTest
    <2>2. CASE MoveTop("start")
      BY <2>1, <2>2, MoveTopStack
    <2>3. CASE MoveTop("done")
      BY <2>1, <2>3, MoveTopStack
    <2>4. CASE /\ TopIs("run")
               /\ stack' = Append([stack EXCEPT ![Depth].at = "post"], ProceedFrame)
      BY <2>4, PostStack
    <2>. QED  BY <1>12, <2>1, <2>2, <2>3, <2>4 DEF UvRunReturns, InUvRun, TopIs
  <1>13. CASE RunReturns \/ CloseAllReturns
    <2>1. stack # << >> /\ Runner(Top) /\ Pop
      BY <1>13 DEF RunReturns, CloseAllReturns, TopIs, Runner
    <2>. QED  BY <2>1, ReturnStack
  <1>14. CASE EventCallback
    BY <1>14, EventStack
  <1>. QED  BY <1>2, <1>3, <1>4, <1>5, <1>6, <1>7, <1>8, <1>9, <1>10, <1>11, <1>12,
               <1>13, <1>14

(* Every step keeps the queue in order.                                    *)
LEMMA QueueStep ==
  ASSUME LoopInv, Next
  PROVE  defer' \in Seq(Ids) /\ nextId' \in Ids /\ ran' \in Ids /\ InOrder'
  <1>. USE DEF Next, Lua, Proceed, UvRun
  <1>0. /\ defer \in Seq(Ids) /\ nextId \in Ids /\ ran \in Ids /\ InOrder
        /\ Len(defer) <= MaxQueue
    BY DEF LoopInv, TypeOK, InOrder
  <1>1. CASE UNCHANGED <<open, queueVars>>
    BY <1>0, <1>1 DEF queueVars, InOrder, DeferredInOrder
  <1>2. CASE lluv_loop_defer_call
    BY <1>0, <1>2, DeferKeepsOrder DEF lluv_loop_defer_call
  <1>3. CASE lluv_loop_close
    <2>1. defer' = << >> /\ ~open' /\ nextId' = nextId /\ ran' = ran
      BY <1>3 DEF lluv_loop_close
    <2>. QED  BY <1>0, <2>1, LoopAssumption DEF InOrder, DeferredInOrder
  <1>4. CASE DeferredCall
    BY <1>0, <1>4, RunKeepsOrder DEF DeferredCall
  <1>5. CASE \/ StartHandle \/ StopHandle \/ lluv_loop_stop \/ lluv_loop_run
             \/ lluv_loop_close_all_handles \/ LuaFails
    BY <1>1, <1>5 DEF StartHandle, StopHandle, lluv_loop_stop, lluv_loop_run,
                      lluv_loop_close_all_handles, LuaFails
  <1>6. CASE LuaReturns \/ NextPass \/ ProceedReturns
    BY <1>1, <1>6 DEF LuaReturns, NextPass, ProceedReturns
  <1>7. CASE \/ IterationBegins \/ UvRunReturns \/ RunReturns \/ CloseAllReturns
             \/ EventCallback \/ IterationEnds
    BY <1>1, <1>7 DEF IterationBegins, UvRunReturns, RunReturns, CloseAllReturns,
                      EventCallback, IterationEnds
  <1>. QED  BY <1>2, <1>3, <1>4, <1>5, <1>6, <1>7

(* The other variables keep their types.                                   *)
LEMMA FlagsStep ==
  ASSUME LoopInv, Next
  PROVE  /\ open' \in BOOLEAN /\ alive' \in Nat /\ stop' \in BOOLEAN
         /\ result' \in Results
  <1>. USE DEF Next, Lua, Proceed, UvRun
  <1>0. /\ open \in BOOLEAN /\ alive \in Nat /\ stop \in BOOLEAN
        /\ result \in Results /\ MaxAlive \in Nat
    BY LoopAssumption DEF LoopInv, TypeOK, Results
  <1>1. open' \in BOOLEAN
    BY <1>0, Zenon DEF lluv_loop_defer_call, StartHandle, StopHandle, lluv_loop_stop,
         lluv_loop_run, lluv_loop_close_all_handles, lluv_loop_close, LuaFails,
         LuaReturns, DeferredCall, NextPass, ProceedReturns, IterationBegins,
         UvRunReturns, RunReturns, CloseAllReturns, EventCallback, IterationEnds
  <1>2. stop' \in BOOLEAN
    BY <1>0, Zenon DEF lluv_loop_defer_call, StartHandle, StopHandle, lluv_loop_stop,
         lluv_loop_run, lluv_loop_close_all_handles, lluv_loop_close, LuaFails,
         LuaReturns, DeferredCall, NextPass, ProceedReturns, IterationBegins,
         UvRunReturns, RunReturns, CloseAllReturns, EventCallback, IterationEnds
  <1>3. alive' \in Nat
    <2>1. CASE alive' = alive
      BY <1>0, <2>1
    <2>2. CASE StartHandle \/ StopHandle
      BY <1>0, <2>2 DEF StartHandle, StopHandle
    <2>3. CASE lluv_loop_close_all_handles
      BY <1>0, <2>3 DEF lluv_loop_close_all_handles
    <2>4. CASE EventCallback
      BY <1>0, <2>4 DEF EventCallback
    <2>. QED
      BY <2>1, <2>2, <2>3, <2>4 DEF lluv_loop_defer_call, lluv_loop_stop,
         lluv_loop_run, lluv_loop_close, LuaFails, LuaReturns, DeferredCall, NextPass,
         ProceedReturns, IterationBegins, UvRunReturns, RunReturns, CloseAllReturns,
         IterationEnds
  <1>4. result' \in Results
    <2>1. CASE RunReturns
      <3>1. stack # << >> /\ Top \in GoodFrame
        BY <2>1, TopFacts DEF RunReturns, TopIs, LoopInv, GoodStack
      <3>2. Top.mark \in Errors \cup {Nil}
        BY <3>1 DEF GoodFrame, FrameRec
      <3>. QED  BY <2>1, <3>2 DEF RunReturns, Ended, Results
    <2>2. CASE ~RunReturns
      BY <1>0, <2>2, Zenon DEF lluv_loop_defer_call, StartHandle, StopHandle,
           lluv_loop_stop, lluv_loop_run, lluv_loop_close_all_handles,
           lluv_loop_close, LuaFails, LuaReturns, DeferredCall, NextPass,
           ProceedReturns, IterationBegins, UvRunReturns, CloseAllReturns,
           EventCallback, IterationEnds
    <2>. QED  BY <2>1, <2>2
  <1>. QED  BY <1>1, <1>2, <1>3, <1>4

LEMMA LoopStep ==
  ASSUME LoopInv, [Next]_vars
  PROVE  LoopInv'
  <1>1. CASE Next
    <2>1. GoodStack(stack')
      BY <1>1, StackStep
    <2>2. stack' \in Seq(FrameRec)
      BY <2>1, GoodIsTyped
    <2>3. TypeOK'
      BY <1>1, <2>2, QueueStep, FlagsStep DEF TypeOK, Results
    <2>4. InOrder'
      BY <1>1, QueueStep
    <2>. QED  BY <2>1, <2>3, <2>4 DEF LoopInv
  <1>2. CASE UNCHANGED vars
    <2>1. UNCHANGED <<open, defer, nextId, ran, alive, stop, stack, result>>
      BY <1>2 DEF vars, queueVars
    <2>. QED  BY <2>1 DEF LoopInv, TypeOK, InOrder, DeferredInOrder
  <1>. QED  BY <1>1, <1>2

(***************************************************************************)
(* Passes, when deferred calls do not run the loop.                        *)
(***************************************************************************)

(* Up to frame m nothing happens to frames that are not runners, and what  *)
(* comes above counts the whole queue.                                     *)
LEMMA CountedKept ==
  ASSUME LoopInv, Counted, NEW m \in 0..Depth, LoopInv',
         Len(defer) <= Len(defer'), m <= Len(stack'),
         \A i \in 1..m : /\ stack'[i].f = stack[i].f
                         /\ ~Runner(stack[i]) => stack'[i] = stack[i],
         \/ m < Depth \/ m = Len(stack')
         \/ \A i \in 1..m : ~(stack[i].f = "lua" /\ stack[i].at = "defer"),
         \A i \in 1..Len(stack') :
           i > m => /\ stack'[i].f = "proceed" => stack'[i].left = Len(defer')
                    /\ stack'[i].f = "lua" /\ stack'[i].at = "defer" => i = Len(stack')
  PROVE  Counted'
  <1>1. /\ Depth = Len(stack) /\ Depth \in Nat
        /\ Len(stack') \in Nat /\ Depth' = Len(stack')
        /\ Len(defer) \in Nat /\ Len(defer') \in Nat
    BY DEF LoopInv, TypeOK, Depth
  <1>2. \A i \in 1..Depth : stack[i].left \in Nat
    <2>1. \A i \in 1..Depth : stack[i] \in FrameRec
      BY <1>1 DEF LoopInv, TypeOK
    <2>2. \A fr \in FrameRec : fr.left \in Nat
      BY DEF FrameRec
    <2>. QED  BY <2>1, <2>2
  <1>3. ASSUME NEW i \in 1..Len(stack')
        PROVE  /\ stack'[i].f = "proceed" => stack'[i].left <= Len(defer')
               /\ stack'[i].f = "lua" /\ stack'[i].at = "defer" => i = Len(stack')
    <2>1. CASE i > m
      BY <1>1, <2>1
    <2>2. CASE i <= m /\ Runner(stack[i])
      <3>1. i \in 1..m
        BY <1>1, <2>2
      <3>. QED  BY <2>2, <3>1 DEF Runner
    <2>3. CASE i <= m /\ ~Runner(stack[i])
      <3>1. i \in 1..m /\ i \in 1..Depth
        BY <1>1, <2>3
      <3>2. stack'[i] = stack[i]
        BY <2>3, <3>1
      <3>3. stack[i].f = "proceed" => stack[i].left <= Len(defer')
        BY <1>1, <1>2, <3>1 DEF Counted
      <3>4. stack[i].f = "lua" /\ stack[i].at = "defer" => i = Depth
        BY <3>1 DEF Counted
      <3>. QED  BY <1>1, <3>1, <3>2, <3>3, <3>4
    <2>. QED  BY <1>1, <2>1, <2>2, <2>3
  <1>. QED  BY <1>1, <1>3 DEF Counted

LEMMA CountedStep ==
  ASSUME "defer" \notin NestIn, LoopInv, LoopInv', Counted, [Next]_vars
  PROVE  Counted'
  <1>. USE DEF Next, Lua, Proceed, UvRun
  <1>0. /\ Depth = Len(stack) /\ Depth \in Nat /\ Depth' = Len(stack')
        /\ Len(stack') \in Nat /\ Len(defer) \in Nat /\ Depth \in 0..Depth
        /\ stack \in Seq(GoodFrame)
    BY DEF LoopInv, GoodStack, TypeOK, Depth
  <1>1. CASE stack' = stack /\ Len(defer) <= Len(defer')
    BY <1>0, <1>1, CountedKept
  <1>2. CASE lluv_loop_defer_call
    <2>1. stack' = stack /\ defer' = Append(defer, nextId)
      BY <1>2 DEF lluv_loop_defer_call
    <2>2. Len(defer') = Len(defer) + 1
      BY <2>1 DEF LoopInv, TypeOK
    <2>. QED  BY <1>0, <1>1, <2>1, <2>2
  <1>3. CASE lluv_loop_close
    <2>1. stack' = << >>
      BY <1>3 DEF lluv_loop_close
    <2>2. Depth' = 0
      BY <1>0, <2>1
    <2>. QED  BY <2>2 DEF Counted
  <1>4. CASE StartHandle \/ StopHandle \/ lluv_loop_stop
    BY <1>0, <1>1, <1>4 DEF StartHandle, StopHandle, lluv_loop_stop, queueVars
  <1>5. ASSUME MayNest, NEW i \in 1..Depth
        PROVE  ~(stack[i].f = "lua" /\ stack[i].at = "defer")
    BY <1>5 DEF MayNest
  <1>6. CASE lluv_loop_run
    <2>1. PICK once \in BOOLEAN : stack' = stack \o <<RunFrame(once), ProceedFrame>>
      BY <1>6 DEF lluv_loop_run
    <2>2. MayNest /\ defer' = defer
      BY <1>6 DEF lluv_loop_run, queueVars
    <2>3. PICK r \in GoodFrame : r = RunFrame(once) /\ r.f = "run"
      BY NewFrames
    <2>4. PICK p \in GoodFrame : p = ProceedFrame /\ p.f = "proceed" /\ p.left = Len(defer)
      BY NewFrames
    <2>5. stack' = stack \o <<r, p>>
      BY <2>1, <2>3, <2>4
    <2>6. /\ Len(stack') = Depth + 2
          /\ \A i \in 1..Depth : stack'[i] = stack[i]
          /\ stack'[Depth + 1] = r /\ stack'[Depth + 2] = p
      BY <1>0, <2>5
    <2>7. \A i \in 1..Len(stack') : i > Depth => i = Depth + 1 \/ i = Depth + 2
      BY <1>0, <2>6
    <2>8. \A i \in 1..Len(stack') :
            i > Depth => /\ stack'[i].f = "proceed" => stack'[i].left = Len(defer')
                         /\ stack'[i].f # "lua"
      BY <2>2, <2>3, <2>4, <2>6, <2>7
    <2>9. Len(defer) <= Len(defer') /\ Depth <= Len(stack')
      BY <1>0, <2>2, <2>6
    <2>. QED  BY <1>0, <1>5, <2>2, <2>6, <2>8, <2>9, CountedKept
  <1>7. ASSUME NEW x \in GoodFrame, stack' = Append(stack, x), defer' = defer,
               x.f # "proceed", ~(x.f = "lua" /\ x.at = "defer"),
               \A i \in 1..Depth : ~(stack[i].f = "lua" /\ stack[i].at = "defer")
        PROVE  Counted'
    <2>1. /\ Len(stack') = Depth + 1
          /\ \A i \in 1..Depth : stack'[i] = stack[i]
          /\ stack'[Depth + 1] = x
      BY <1>0, <1>7, PushFacts
    <2>2. \A i \in 1..Len(stack') : i > Depth => i = Depth + 1
      BY <1>0, <2>1
    <2>3. \A i \in 1..Len(stack') :
            i > Depth => /\ stack'[i].f # "proceed"
                         /\ ~(stack'[i].f = "lua" /\ stack'[i].at = "defer")
      BY <1>7, <2>1, <2>2
    <2>4. Len(defer) <= Len(defer') /\ Depth <= Len(stack')
      BY <1>0, <1>7, <2>1
    <2>. QED  BY <1>0, <1>7, <2>1, <2>3, <2>4, CountedKept
  <1>8. CASE lluv_loop_close_all_handles
    <2>1. PICK r \in GoodFrame : r = CloseAllFrame /\ r.f = "closeall"
      BY NewFrames
    <2>. QED  BY <1>5, <1>7, <1>8, <2>1
                DEF lluv_loop_close_all_handles, Push, queueVars
  <1>9. ASSUME stack # << >>, Runner(Top), NEW i \in 1..Depth
        PROVE  ~(stack[i].f = "lua" /\ stack[i].at = "defer")
    BY <1>9 DEF Counted, Top, Runner
  <1>10. CASE EventCallback
    <2>1. PICK l \in GoodFrame : l = LuaFrame("event") /\ l.f = "lua" /\ l.at = "event"
      BY NewFrames
    <2>2. stack # << >> /\ Runner(Top) /\ defer' = defer /\ stack' = Append(stack, l)
      BY <1>10, <2>1 DEF EventCallback, InUvRun, TopIs, Runner, Push, queueVars
    <2>. QED  BY <1>7, <1>9, <2>1, <2>2
  <1>11. ASSUME defer' = defer, NEW m \in 0..Depth, m = Len(stack'),
                \A i \in 1..m : /\ stack'[i].f = stack[i].f
                                /\ ~Runner(stack[i]) => stack'[i] = stack[i]
         PROVE  Counted'
    <2>1. Len(defer) <= Len(defer') /\ \A i \in 1..Len(stack') : ~(i > m)
      BY <1>0, <1>11
    <2>. QED  BY <1>0, <1>11, <2>1, CountedKept
  <1>12. CASE LuaFails
    <2>1. /\ Len(stack') < Depth /\ defer' = defer
          /\ \A i \in 1..Len(stack') :
               stack'[i].f = stack[i].f /\ (~Runner(stack[i]) => stack'[i] = stack[i])
      BY <1>12, LuaFailsStack DEF LuaFails, queueVars
    <2>2. Len(stack') \in 0..Depth
      BY <1>0, <2>1
    <2>. QED  BY <1>11, <2>1, <2>2
  <1>13. CASE LuaReturns
    <2>1. /\ stack # << >> /\ defer' = defer /\ TopIs("lua")
          /\ stack' = IF Top.at = "event" THEN Append(Popped, ProceedFrame) ELSE Popped
      BY <1>13 DEF LuaReturns, TopIs, queueVars
    <2>2. PICK m \in 0..Depth : m = Depth - 1 /\ m < Depth
      BY <2>1, TopFacts
    <2>3. PICK t \in Seq(GoodFrame) :
            t = Popped /\ Len(t) = m /\ \A i \in 1..m : t[i] = stack[i]
      <3>1. Popped = SubSeq(stack, 1, m) /\ m \in 0..Len(stack)
        BY <1>0, <2>2 DEF Popped
      <3>2. /\ SubSeq(stack, 1, m) \in Seq(GoodFrame) /\ Len(SubSeq(stack, 1, m)) = m
            /\ \A i \in 1..m : SubSeq(stack, 1, m)[i] = stack[i]
        BY <1>0, <3>1, CutFacts
      <3>. QED  BY <3>1, <3>2
    <2>4. PICK p \in GoodFrame : p = ProceedFrame /\ p.f = "proceed" /\ p.left = Len(defer)
      BY NewFrames
    <2>5. CASE Top.at = "event"
      <3>1. stack' = Append(t, p)
        BY <2>1, <2>3, <2>4, <2>5
      <3>2. /\ Len(stack') = m + 1
            /\ \A i \in 1..m : stack'[i] = stack[i]
            /\ stack'[m + 1] = p
        BY <2>3, <3>1, PushFacts
      <3>3. \A i \in 1..Len(stack') : i > m => i = m + 1
        BY <3>2
      <3>4. \A i \in 1..Len(stack') :
              i > m => stack'[i].f = "proceed" /\ stack'[i].left = Len(defer')
        BY <2>1, <2>4, <3>2, <3>3
      <3>5. Len(defer) <= Len(defer') /\ m <= Len(stack')
        BY <1>0, <2>1, <3>2
      <3>. QED  BY <2>2, <3>2, <3>4, <3>5, CountedKept
    <2>6. CASE Top.at # "event"
      BY <1>11, <2>1, <2>3, <2>6
    <2>. QED  BY <2>5, <2>6
  <1>14. CASE DeferredCall
    <2>1. /\ stack # << >> /\ Top.f = "proceed" /\ Top = stack[Depth]
          /\ Depth \in 1..Depth /\ Chain(stack)
      BY <1>0, <1>14, TopFacts DEF DeferredCall, TopIs
    <2>2. /\ Len(stack') = Depth + 1
          /\ \A i \in 1..Depth : i # Depth => stack'[i] = stack[i]
          /\ stack'[Depth].f = "proceed" /\ stack'[Depth].left = Top.left - 1
          /\ stack'[Depth + 1].f = "lua"
      BY <1>14, DeferredCallStack
    <2>3. Len(defer') = Len(defer) - 1
      BY <1>14, RunKeepsOrder
    <2>4. ASSUME NEW i \in 1..Depth, i # Depth
          PROVE  stack[i].f # "proceed" /\ ~(stack[i].f = "lua" /\ stack[i].at = "defer")
      <3>1. Calls(stack[i], stack[i + 1]) /\ i + 1 \in 1..Depth
        BY <1>0, <2>1, <2>4 DEF Chain
      <3>2. stack[i].f = "proceed" => stack[i + 1].f = "lua" /\ stack[i + 1].at = "defer"
        BY <3>1 DEF Calls, Runner
      <3>3. ~(stack[i + 1].f = "lua" /\ stack[i + 1].at = "defer")
        BY <2>1, <3>1 DEF Counted
      <3>. QED  BY <2>4, <3>2, <3>3 DEF Counted
    <2>5. Top.left <= Len(defer) /\ Top.left \in Nat
      <3>1. Top.left <= Len(defer)
        BY <2>1 DEF Counted
      <3>2. Top \in FrameRec
        BY <2>1, TopFacts DEF GoodFrame
      <3>. QED  BY <3>1, <3>2 DEF FrameRec
    <2>6. \A i \in 1..(Depth + 1) : i = Depth + 1 \/ i = Depth \/ (i \in 1..Depth /\ i # Depth)
      BY <1>0
    <2>7. stack'[Depth].left <= Len(defer')
      BY <1>0, <2>2, <2>3, <2>5
    <2>8. \A i \in 1..(Depth + 1) :
            /\ stack'[i].f = "proceed" => stack'[i].left <= Len(defer')
            /\ stack'[i].f = "lua" /\ stack'[i].at = "defer" => i = Depth + 1
      BY <2>2, <2>4, <2>6, <2>7
    <2>. QED  BY <1>0, <2>2, <2>8 DEF Counted
  <1>15. CASE NextPass
    <2>1. /\ Len(stack') = Depth
          /\ \A i \in 1..Depth : i # Depth => stack'[i] = stack[i]
          /\ stack'[Depth].f = "proceed" /\ stack'[Depth].left = Len(defer)
          /\ defer' = defer
      BY <1>15, NextPassStack DEF NextPass, queueVars
    <2>2. \A i \in 1..Depth :
            /\ stack'[i].f = "proceed" => stack'[i].left <= Len(defer')
            /\ stack'[i].f = "lua" /\ stack'[i].at = "defer" => i = Depth
      BY <1>0, <2>1 DEF Counted
    <2>. QED  BY <1>0, <2>1, <2>2 DEF Counted
  <1>16. CASE ProceedReturns
    <2>1. /\ Len(stack') = Depth - 1 /\ defer' = defer
          /\ \A i \in 1..(Depth - 1) :
               stack'[i].f = stack[i].f /\ (~Runner(stack[i]) => stack'[i] = stack[i])
      BY <1>16, ProceedReturnsStack DEF ProceedReturns, queueVars
    <2>2. PICK m \in 0..Depth : m = Depth - 1
      BY <1>0, <2>1
    <2>. QED  BY <1>11, <2>1, <2>2
  <1>17. ASSUME InUvRun, NEW a \in {"start", "iter", "next", "done"}, MoveTop(a),
                defer' = defer
         PROVE  Counted'
    BY <1>0, <1>11, <1>17, MoveTopStack
  <1>18. CASE IterationBegins \/ IterationEnds
    <2>1. InUvRun /\ defer' = defer /\ (MoveTop("iter") \/ MoveTop("next"))
      BY <1>18 DEF IterationBegins, IterationEnds, AtLoopTest, queueVars
    <2>. QED  BY <1>17, <2>1
  <1>19. CASE UvRunReturns
    <2>1. InUvRun /\ defer' = defer
      BY <1>19 DEF UvRunReturns, AtLoopTest, queueVars
    <2>2. CASE MoveTop("start") \/ MoveTop("done")
      BY <1>17, <2>1, <2>2
    <2>3. CASE /\ TopIs("run")
               /\ stack' = Append([stack EXCEPT ![Depth].at = "post"], ProceedFrame)
      <3>1. /\ Len(stack') = Depth + 1
            /\ \A i \in 1..Depth :
                 stack'[i].f = stack[i].f /\ (~Runner(stack[i]) => stack'[i] = stack[i])
            /\ stack'[Depth + 1].f = "proceed" /\ stack'[Depth + 1].left = Len(defer)
        BY <2>3, PostStack
      <3>2. \A i \in 1..Depth : ~(stack[i].f = "lua" /\ stack[i].at = "defer")
        BY <1>9, <2>3 DEF TopIs, Runner
      <3>3. \A i \in 1..Len(stack') : i > Depth => i = Depth + 1
        BY <1>0, <3>1
      <3>4. \A i \in 1..Len(stack') :
              i > Depth => stack'[i].f = "proceed" /\ stack'[i].left = Len(defer')
        BY <2>1, <3>1, <3>3
      <3>5. Len(defer) <= Len(defer') /\ Depth <= Len(stack')
        BY <1>0, <2>1, <3>1
      <3>. QED  BY <1>0, <3>1, <3>2, <3>4, <3>5, CountedKept
    <2>. QED  BY <1>19, <2>1, <2>2, <2>3 DEF UvRunReturns, InUvRun, TopIs
  <1>20. CASE RunReturns \/ CloseAllReturns
    <2>1. stack # << >> /\ Runner(Top) /\ Pop /\ defer' = defer
      BY <1>20 DEF RunReturns, CloseAllReturns, TopIs, Runner, queueVars
    <2>2. Len(stack') = Depth - 1 /\ \A i \in 1..(Depth - 1) : stack'[i] = stack[i]
      BY <2>1, ReturnStack
    <2>3. PICK m \in 0..Depth : m = Depth - 1
      BY <1>0, <2>2
    <2>. QED  BY <1>11, <2>1, <2>2, <2>3
  <1>21. CASE UNCHANGED vars
    BY <1>0, <1>1, <1>21 DEF vars, queueVars
  <1>. QED  BY <1>2, <1>3, <1>4, <1>6, <1>8, <1>10, <1>12, <1>13, <1>14, <1>15, <1>16,
               <1>18, <1>19, <1>20, <1>21

(***************************************************************************)
(* The theorems.                                                           *)
(***************************************************************************)

(* The inductive invariant: types, good frames called as C calls them, and *)
(* the queue in order, for any nesting of runs.                            *)
THEOREM LoopInvariant == Spec => []LoopInv
  <1>1. Init => LoopInv
    BY InitLoopInv
  <1>2. LoopInv /\ [Next]_vars => LoopInv'
    BY LoopStep
  <1>. QED  BY <1>1, <1>2, PTL DEF Spec

(* lluv_loop_defer_call and lluv_loop_defer_proceed: deferred calls run in *)
(* order and each once, across callbacks, errors and nested runs.          *)
THEOREM CallsRunInOrder == Spec => []DeferredInOrder
  <1>1. LoopInv => DeferredInOrder
    BY DEF LoopInv, InOrder
  <1>. QED  BY <1>1, LoopInvariant, PTL

(* lluv_loop_defer_proceed: the first pass runs all that was deferred      *)
(* before it.                                                              *)
THEOREM FirstPassRunsAll == Spec => []FirstPassDrains
  <1>1. ASSUME LoopInv  PROVE FirstPassDrains
    <2>1. \A i \in 1..Depth : stack[i] \in GoodFrame
      BY <1>1 DEF LoopInv, GoodStack, Depth
    <2>2. \A fr \in GoodFrame : fr.f = "proceed" /\ fr.pass > 0 => fr.old = 0
      BY DEF GoodFrame, FrameRec
    <2>. QED  BY <2>1, <2>2 DEF FirstPassDrains
  <1>. QED  BY <1>1, LoopInvariant, PTL

(* lluv_lua_call and lluv_loop_run_impl: a run raises the last error of    *)
(* the callbacks and deferred calls that it made, whatever other runs they *)
(* nested in it, and returns if there was none or the last one was nil.    *)
THEOREM ErrorsReachTheRun == Spec => ErrorsAreRaised
  <1>1. ASSUME LoopInv, [Next]_vars
        PROVE  [RunReturns => result' = IF Top.last = Nil THEN Ended("returned", Nil)
                                        ELSE Ended("raised", Top.last)]_vars
    <2>1. SUFFICES ASSUME RunReturns
                   PROVE  result' = IF Top.last = Nil THEN Ended("returned", Nil)
                                                      ELSE Ended("raised", Top.last)
      OBVIOUS
    <2>2. Top \in GoodFrame
      BY <1>1, <2>1, TopFacts DEF RunReturns, TopIs
    <2>3. Top.mark = Top.last
      BY <2>1, <2>2 DEF GoodFrame
    <2>. QED  BY <2>1, <2>3 DEF RunReturns
  <1>. QED  BY <1>1, LoopInvariant, PTL DEF Spec, ErrorsAreRaised

(* assert(err == 1) in lluv_loop_defer_proceed holds in programs whose     *)
(* deferred calls do not run the loop again.                               *)
THEOREM PassFindsItsCalls ==
  ASSUME "defer" \notin NestIn
  PROVE  Spec => []PopSucceeds
  <1>1. Init => Counted
    <2>1. ASSUME Init  PROVE Depth = 0
      BY <2>1 DEF Init, Depth
    <2>. QED  BY <2>1 DEF Counted
  <1>2. LoopInv /\ LoopInv' /\ Counted /\ [Next]_vars => Counted'
    BY CountedStep
  <1>3. LoopInv /\ Counted => PopSucceeds
    <2>1. SUFFICES ASSUME LoopInv, Counted, TopIs("proceed")
                   PROVE  Top.left <= Len(defer)
      BY DEF PopSucceeds
    <2>2. stack # << >> /\ Top = stack[Depth] /\ Depth \in 1..Depth /\ Top.f = "proceed"
      BY <2>1, TopFacts DEF TopIs
    <2>. QED  BY <2>1, <2>2 DEF Counted
  <1>. QED  BY <1>1, <1>2, <1>3, LoopInvariant, PTL DEF Spec
=============================================================================
