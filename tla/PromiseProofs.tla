---------------------------- MODULE PromiseProofs ----------------------------
(***************************************************************************)
(* What sync.OnceValues gives the promises, for any number of goroutines   *)
(* and promises and any graph of them: an outcome once, functions that are *)
(* called at most once and only when they are needed, and the outcome that *)
(* the composition of the promises means.  The argument is that a promise  *)
(* is run by one frame of one goroutine, and by none before it is entered. *)
(***************************************************************************)
EXTENDS Promise, NaturalsInduction, WellFoundedInduction, TLAPS

Places == {"await", "source", "function"}
Frames == [promise : Promises, at : Places]

StackType == stack \in [Threads -> Seq(Frames)]

-----------------------------------------------------------------------------
(* What the steps do to the stack of a goroutine.                          *)

LEMMA TopType ==
  ASSUME StackType, NEW t \in Threads, stack[t] # <<>>
  PROVE  /\ Len(stack[t]) \in DOMAIN stack[t] /\ Len(stack[t]) \in Nat \ {0}
         /\ DOMAIN stack[t] = 1 .. Len(stack[t])
         /\ Top(t) = stack[t][Len(stack[t])] /\ Top(t) \in Frames
         /\ Top(t).promise \in Promises /\ Top(t).at \in Places
<1>1. stack[t] \in Seq(Frames)
  BY DEF StackType
<1>2. Len(stack[t]) \in Nat /\ Len(stack[t]) # 0 /\ DOMAIN stack[t] = 1 .. Len(stack[t])
  BY <1>1
<1>3. Len(stack[t]) \in 1 .. Len(stack[t])
  BY <1>2
<1>4. Top(t) \in Frames
  BY <1>1, <1>2, <1>3 DEF Top
<1>5. QED
  BY <1>2, <1>3, <1>4 DEF Top, Frames

\* Only the top of one stack changes its place.
LEMMA GoToMoves ==
  ASSUME StackType, NEW t \in Threads, stack[t] # <<>>, NEW at \in Places, GoTo(t, at)
  PROVE  /\ StackType'
         /\ \A u \in Threads : DOMAIN stack'[u] = DOMAIN stack[u]
         /\ \A u \in Threads : Len(stack'[u]) = Len(stack[u])
         /\ \A u \in Threads : \A k \in DOMAIN stack[u] :
              /\ stack'[u][k].promise = stack[u][k].promise
              /\ stack'[u][k].at =
                   IF u = t /\ k = Len(stack[t]) THEN at ELSE stack[u][k].at
<1> DEFINE n == Len(stack[t])
           top == [stack[t][n] EXCEPT !.at = at]
           new == [stack[t] EXCEPT ![n] = top]
<1>1. n \in DOMAIN stack[t] /\ stack[t][n] \in Frames /\ stack[t] \in Seq(Frames)
  BY TopType DEF StackType
<1>2. top \in Frames /\ top.promise = stack[t][n].promise /\ top.at = at
  BY <1>1 DEF Frames
<1>3. stack' = [stack EXCEPT ![t] = new]
  BY DEF GoTo
<1> HIDE DEF top
<1>4. /\ new \in Seq(Frames) /\ Len(new) = Len(stack[t]) /\ DOMAIN new = DOMAIN stack[t]
      /\ \A k \in DOMAIN stack[t] : new[k] = IF k = n THEN top ELSE stack[t][k]
  BY <1>1, <1>2
<1> HIDE DEF new
<1>5. /\ \A u \in Threads : stack'[u] = IF u = t THEN new ELSE stack[u]
      /\ stack' \in [Threads -> Seq(Frames)]
  BY <1>3, <1>4 DEF StackType
<1>6. QED
  BY <1>2, <1>4, <1>5 DEF StackType

\* A new frame awaits, on top of those there were.
LEMMA PushAdds ==
  ASSUME StackType, NEW t \in Threads, NEW p \in Promises, Push(t, p)
  PROVE  /\ StackType'
         /\ \A u \in Threads : u # t => stack'[u] = stack[u]
         /\ Len(stack'[t]) = Len(stack[t]) + 1 /\ Len(stack[t]) \in Nat
         /\ DOMAIN stack'[t] = 1 .. Len(stack[t]) + 1 /\ DOMAIN stack[t] = 1 .. Len(stack[t])
         /\ \A k \in DOMAIN stack[t] : stack'[t][k] = stack[t][k]
         /\ stack'[t][Len(stack[t]) + 1].at = "await"
         /\ stack'[t][Len(stack[t]) + 1].promise = p
<1> DEFINE frame == Frame(p, "await")
           new == Append(stack[t], frame)
<1>1. frame \in Frames /\ frame.at = "await" /\ frame.promise = p
  BY DEF Frame, Frames, Places
<1>2. stack[t] \in Seq(Frames)
  BY DEF StackType
<1> HIDE DEF frame
<1>3. /\ new \in Seq(Frames) /\ Len(new) = Len(stack[t]) + 1
      /\ DOMAIN new = 1 .. Len(stack[t]) + 1
      /\ Len(stack[t]) \in Nat /\ DOMAIN stack[t] = 1 .. Len(stack[t])
      /\ \A k \in DOMAIN stack[t] : new[k] = stack[t][k]
      /\ new[Len(stack[t]) + 1] = frame
  BY <1>1, <1>2
<1> HIDE DEF new
<1>4. stack' = [stack EXCEPT ![t] = new]
  BY DEF Push, new, frame
<1>5. QED
  BY <1>1, <1>3, <1>4 DEF StackType

\* Return drops the top.
LEMMA ReturnDrops ==
  ASSUME StackType, NEW t \in Threads, Return(t)
  PROVE  /\ StackType'
         /\ \A u \in Threads : u # t => stack'[u] = stack[u]
         /\ Len(stack[t]) \in Nat \ {0} /\ Len(stack'[t]) = Len(stack[t]) - 1
         /\ DOMAIN stack'[t] = 1 .. Len(stack[t]) - 1
         /\ \A k \in DOMAIN stack'[t] : k \in DOMAIN stack[t] /\ stack'[t][k] = stack[t][k]
<1> DEFINE n == Len(stack[t])
           new == SubSeq(stack[t], 1, n - 1)
<1>1. stack[t] \in Seq(Frames) /\ n \in Nat \ {0} /\ DOMAIN stack[t] = 1 .. n
  BY TopType DEF Return, TopIs, StackType
<1>2. /\ new \in Seq(Frames) /\ Len(new) = n - 1 /\ DOMAIN new = 1 .. n - 1
      /\ \A k \in 1 .. n - 1 : k \in 1 .. n /\ new[k] = stack[t][k]
  BY <1>1
<1>3. stack' = [stack EXCEPT ![t] = new]
  BY DEF Return
<1> HIDE DEF new
<1>4. QED
  BY <1>1, <1>2, <1>3 DEF StackType

-----------------------------------------------------------------------------
(* The invariant.                                                          *)

Outcomes == [is : {"pending", "value", "error", "panic"}, of : Seq(Promises)]
OutcomeType == outcome \in [Promises -> Outcomes]

Active(t, k) == k \in DOMAIN stack[t] /\ stack[t][k].at # "await"

\* A frame that runs a promise has entered it, and is the only one.
ActiveInv ==
  /\ \A t \in Threads : \A k \in DOMAIN stack[t] :
       Active(t, k) => once[stack[t][k].promise] = "running"
  /\ \A t, u \in Threads : \A k \in DOMAIN stack[t], l \in DOMAIN stack[u] :
       /\ Active(t, k) /\ Active(u, l)
       /\ stack[t][k].promise = stack[u][l].promise
       => t = u /\ k = l

\* A function has not been called before its promise is entered, nor while the
\* source is awaited.
RanInv ==
  /\ \A p \in Promises : ran[p] <= 1 /\ (once[p] = "idle" => ran[p] = 0)
  /\ \A t \in Threads : \A k \in DOMAIN stack[t] :
       stack[t][k].at = "source" => ran[stack[t][k].promise] = 0

Inv == TypeOK /\ StackType /\ OutcomeType /\ ActiveInv /\ RanInv

LEMMA GraphStays ==
  ASSUME Graphs, UNCHANGED graph
  PROVE  Graphs'
BY DEF Graphs, graph

LEMMA GraphType ==
  ASSUME Graphs, NEW p \in Promises
  PROVE  /\ source[p] # Nothing => source[p] \in Promises
         /\ captured[p] # Nothing => captured[p] \in Promises
BY DEF Graphs

LEMMA InvInit == Init => Inv
<1> SUFFICES ASSUME Init PROVE Inv
  OBVIOUS
<1>1. DOMAIN <<>> = {} /\ <<>> \in Seq(Frames)
  OBVIOUS
<1>2. \A t \in Threads : stack[t] = <<>>
  BY DEF Init
<1>3. StackType
  BY <1>1 DEF Init, StackType
<1>4. \A p \in Promises :
        /\ Pending \in Outcomes /\ Value(<<p>>) \in Outcomes /\ Error(p) \in Outcomes
        /\ Pending.is = "pending" /\ Value(<<p>>).is = "value" /\ Error(p).is = "error"
  BY DEF Pending, Value, Error, Outcomes
<1>5. OutcomeType
  BY <1>4 DEF Init, OutcomeType
<1>6. TypeOK
  <2>1. \A p \in Promises :
          /\ outcome[p].is \in {"pending", "value", "error", "panic"}
          /\ outcome[p].is = "pending" <=> once[p] # "done"
    BY <1>4 DEF Init
  <2>2. once \in [Promises -> {"idle", "running", "done"}] /\ ran \in [Promises -> Nat]
    BY DEF Init
  <2>3. QED
    BY <1>1, <1>2, <2>1, <2>2 DEF Init, TypeOK
<1>7. ActiveInv /\ RanInv
  BY <1>1, <1>2 DEF Init, ActiveInv, RanInv
<1>8. QED
  BY <1>3, <1>5, <1>6, <1>7 DEF Inv

-----------------------------------------------------------------------------
(* The steps keep it.                                                      *)

LEMMA PushKeeps ==
  ASSUME Inv, NEW t \in Threads, NEW p \in Promises, Push(t, p),
         stack[t] # <<>> => Top(t).at # "await",
         UNCHANGED <<graph, once, outcome, ran>>
  PROVE  Inv'
<1> DEFINE n == Len(stack[t])
<1>1. /\ StackType'
      /\ \A u \in Threads : u # t => stack'[u] = stack[u]
      /\ Len(stack'[t]) = n + 1 /\ n \in Nat
      /\ DOMAIN stack'[t] = 1 .. n + 1 /\ DOMAIN stack[t] = 1 .. n
      /\ \A k \in DOMAIN stack[t] : stack'[t][k] = stack[t][k]
      /\ stack'[t][n + 1].at = "await" /\ stack'[t][n + 1].promise = p
  BY PushAdds DEF Inv
<1>2. n # 0 => stack[t][n].at # "await"
  <2>1. n # 0 => stack[t] # <<>>
    OBVIOUS
  <2>2. QED
    BY <2>1 DEF Top
<1>3. \A u \in Threads : \A k \in DOMAIN stack'[u] :
        \/ k \in DOMAIN stack[u] /\ stack'[u][k] = stack[u][k]
        \/ u = t /\ k = n + 1
  BY <1>1
<1> HIDE DEF n
<1>4. TypeOK'
  <2>1. \A u \in Threads : \A k \in DOMAIN stack'[u] :
          /\ stack'[u][k].promise \in Promises
          /\ stack'[u][k].at \in {"await", "source", "function"}
    BY <1>1, <1>3 DEF Inv, TypeOK
  <2>2. \A u \in Threads : \A k \in DOMAIN stack'[u] :
          k < Len(stack'[u]) => stack'[u][k].at # "await"
    <3>1. SUFFICES ASSUME NEW u \in Threads, NEW k \in DOMAIN stack'[u], k < Len(stack'[u])
                   PROVE  stack'[u][k].at # "await"
      OBVIOUS
    <3>2. CASE u # t
      BY <1>1, <3>1, <3>2 DEF Inv, TypeOK
    <3>3. CASE u = t
      <4>1. k \in 1 .. n /\ stack'[t][k] = stack[t][k]
        BY <1>1, <3>1, <3>3
      <4>2. k < n \/ k = n
        BY <1>1, <4>1
      <4>3. k < n => stack[t][k].at # "await"
        BY <1>1, <4>1 DEF Inv, TypeOK, n
      <4>4. QED
        BY <1>2, <3>3, <4>1, <4>2, <4>3
    <3>4. QED
      BY <3>2, <3>3
  <2>3. Graphs'
    BY GraphStays DEF Inv, TypeOK
  <2>4. QED
    BY <2>1, <2>2, <2>3 DEF Inv, TypeOK
<1>5. \A u \in Threads : \A k : Active(u, k)' =>
        Active(u, k) /\ k \in DOMAIN stack[u] /\ stack'[u][k] = stack[u][k]
  BY <1>1, <1>3 DEF Active
<1>6. ActiveInv'
  <2>1. \A u \in Threads : \A k \in DOMAIN stack'[u] :
          Active(u, k)' => once'[stack'[u][k].promise] = "running"
    BY <1>5 DEF Inv, ActiveInv
  <2>2. \A u, v \in Threads : \A k \in DOMAIN stack'[u], l \in DOMAIN stack'[v] :
          Active(u, k)' /\ Active(v, l)' /\ stack'[u][k].promise = stack'[v][l].promise
            => u = v /\ k = l
    BY <1>5 DEF Inv, ActiveInv
  <2>3. QED
    BY <2>1, <2>2 DEF ActiveInv
<1>7. RanInv'
  BY <1>1, <1>3 DEF Inv, RanInv
<1>8. QED
  BY <1>1, <1>4, <1>6, <1>7 DEF Inv, OutcomeType

LEMMA ReturnKeeps ==
  ASSUME Inv, NEW t \in Threads, Return(t)
  PROVE  Inv'
<1> DEFINE n == Len(stack[t])
<1>1. /\ StackType'
      /\ \A u \in Threads : u # t => stack'[u] = stack[u]
      /\ n \in Nat \ {0} /\ Len(stack'[t]) = n - 1
      /\ DOMAIN stack'[t] = 1 .. n - 1
      /\ \A k \in DOMAIN stack'[t] : k \in DOMAIN stack[t] /\ stack'[t][k] = stack[t][k]
  BY ReturnDrops DEF Inv
<1>2. UNCHANGED <<graph, once, outcome, ran>>
  BY DEF Return
<1>3. \A u \in Threads : \A k \in DOMAIN stack'[u] :
        k \in DOMAIN stack[u] /\ stack'[u][k] = stack[u][k]
  BY <1>1
<1>4. \A u \in Threads : \A k \in DOMAIN stack'[u] : k < Len(stack'[u]) => k < Len(stack[u])
  BY <1>1
<1> HIDE DEF n
<1>5. TypeOK'
  <2>1. Graphs'
    BY <1>2, GraphStays DEF Inv, TypeOK
  <2>2. QED
    BY <1>2, <1>3, <1>4, <2>1 DEF Inv, TypeOK
<1>6. ActiveInv' /\ RanInv'
  BY <1>2, <1>3 DEF Inv, ActiveInv, Active, RanInv
<1>7. QED
  BY <1>1, <1>2, <1>5, <1>6 DEF Inv, OutcomeType

\* The running frame moves on, or is entered, or ends.
LEMMA FramesAfterGoTo ==
  ASSUME Inv, NEW t \in Threads, stack[t] # <<>>, NEW at \in Places, GoTo(t, at)
  PROVE  /\ StackType'
         /\ \A u \in Threads : \A k \in DOMAIN stack'[u] :
              /\ stack'[u][k].promise \in Promises
              /\ stack'[u][k].at \in {"await", "source", "function"}
              /\ k < Len(stack'[u]) => stack'[u][k].at # "await"
<1>1. /\ StackType'
      /\ \A u \in Threads : DOMAIN stack'[u] = DOMAIN stack[u]
      /\ \A u \in Threads : Len(stack'[u]) = Len(stack[u])
      /\ \A u \in Threads : \A k \in DOMAIN stack[u] :
           /\ stack'[u][k].promise = stack[u][k].promise
           /\ stack'[u][k].at = IF u = t /\ k = Len(stack[t]) THEN at ELSE stack[u][k].at
  BY GoToMoves DEF Inv
<1>2. Len(stack[t]) \in Nat
  BY TopType DEF Inv
<1>3. ASSUME NEW u \in Threads, NEW k \in DOMAIN stack'[u]
      PROVE  k < Len(stack'[u]) => stack'[u][k].at # "await"
  <2>1. CASE u = t /\ k = Len(stack[t])
    BY <1>1, <1>2, <2>1
  <2>2. CASE ~(u = t /\ k = Len(stack[t]))
    BY <1>1, <1>3, <2>2 DEF Inv, TypeOK
  <2>3. QED
    BY <2>1, <2>2
<1>4. ASSUME NEW u \in Threads, NEW k \in DOMAIN stack'[u]
      PROVE  /\ stack'[u][k].promise \in Promises
             /\ stack'[u][k].at \in {"await", "source", "function"}
  <2>1. k \in DOMAIN stack[u]
    BY <1>1, <1>4
  <2>2. /\ stack[u][k].promise \in Promises
        /\ stack[u][k].at \in {"await", "source", "function"}
    BY <2>1 DEF Inv, TypeOK
  <2>3. /\ stack'[u][k].promise = stack[u][k].promise
        /\ stack'[u][k].at = at \/ stack'[u][k].at = stack[u][k].at
    BY <1>1, <2>1
  <2>4. QED
    BY <2>2, <2>3 DEF Places
<1>5. QED
  BY <1>1, <1>3, <1>4

LEMMA EnterKeeps ==
  ASSUME Inv, NEW t \in Threads, Enter(t)
  PROVE  Inv'
<1> DEFINE n == Len(stack[t])
           p == Top(t).promise
<1>1. /\ stack[t] # <<>> /\ Top(t).at = "await" /\ once[p] = "idle"
      /\ once' = [once EXCEPT ![p] = "running"]
      /\ GoTo(t, "source")
      /\ UNCHANGED <<graph, outcome, ran>>
  BY DEF Enter, TopIs, MayEnter
<1>2. p \in Promises /\ p = stack[t][n].promise /\ n \in DOMAIN stack[t]
  BY <1>1, TopType DEF Inv
<1>3. /\ \A u \in Threads : DOMAIN stack'[u] = DOMAIN stack[u]
      /\ \A u \in Threads : \A k \in DOMAIN stack[u] :
           /\ stack'[u][k].promise = stack[u][k].promise
           /\ stack'[u][k].at = IF u = t /\ k = n THEN "source" ELSE stack[u][k].at
  BY <1>1, GoToMoves DEF Inv, Places
<1>4. /\ StackType'
      /\ \A u \in Threads : \A k \in DOMAIN stack'[u] :
           /\ stack'[u][k].promise \in Promises
           /\ stack'[u][k].at \in {"await", "source", "function"}
           /\ k < Len(stack'[u]) => stack'[u][k].at # "await"
  BY <1>1, FramesAfterGoTo DEF Places
<1> HIDE DEF n, p
<1>5. /\ once' \in [Promises -> {"idle", "running", "done"}]
      /\ \A q \in Promises : once'[q] = IF q = p THEN "running" ELSE once[q]
  BY <1>1, <1>2 DEF Inv, TypeOK
<1>6. TypeOK'
  <2>1. Graphs'
    BY <1>1, GraphStays DEF Inv, TypeOK
  <2>2. \A q \in Promises : outcome[q].is = "pending" <=> once'[q] # "done"
    BY <1>1, <1>2, <1>5 DEF Inv, TypeOK
  <2>3. QED
    BY <1>1, <1>4, <1>5, <2>1, <2>2 DEF Inv, TypeOK
<1>7. \A u \in Threads : \A k \in DOMAIN stack[u] :
        Active(u, k) => stack[u][k].promise # p /\ stack[u][k].promise \in Promises
  BY <1>1 DEF Inv, ActiveInv, TypeOK
<1>8. \A u \in Threads : \A k \in DOMAIN stack[u] :
        Active(u, k)' => Active(u, k) \/ (u = t /\ k = n)
  BY <1>3 DEF Active
<1>9. ActiveInv'
  <2>1. \A u \in Threads : \A k \in DOMAIN stack'[u] :
          Active(u, k)' => once'[stack'[u][k].promise] = "running"
    BY <1>2, <1>3, <1>5, <1>7, <1>8 DEF Inv, ActiveInv
  <2>2. \A u, v \in Threads : \A k \in DOMAIN stack'[u], l \in DOMAIN stack'[v] :
          Active(u, k)' /\ Active(v, l)' /\ stack'[u][k].promise = stack'[v][l].promise
            => u = v /\ k = l
    BY <1>2, <1>3, <1>7, <1>8 DEF Inv, ActiveInv
  <2>3. QED
    BY <2>1, <2>2 DEF ActiveInv
<1>10. RanInv'
  <2>1. \A q \in Promises : ran'[q] <= 1 /\ (once'[q] = "idle" => ran'[q] = 0)
    BY <1>1, <1>5 DEF Inv, RanInv
  <2>2. ran[p] = 0
    BY <1>1, <1>2 DEF Inv, RanInv
  <2>3. \A u \in Threads : \A k \in DOMAIN stack'[u] :
          stack'[u][k].at = "source" => ran'[stack'[u][k].promise] = 0
    BY <1>1, <1>2, <1>3, <2>2 DEF Inv, RanInv
  <2>4. QED
    BY <2>1, <2>3 DEF RanInv
<1>11. QED
  BY <1>1, <1>4, <1>6, <1>9, <1>10 DEF Inv, OutcomeType

LEMMA FinishKeeps ==
  ASSUME Inv, NEW t \in Threads, stack[t] # <<>>, Top(t).at # "await",
         NEW o \in Outcomes, o.is # "pending", Finish(t, Top(t).promise, o)
  PROVE  Inv'
<1> DEFINE n == Len(stack[t])
           p == Top(t).promise
<1>1. /\ once' = [once EXCEPT ![p] = "done"]
      /\ outcome' = [outcome EXCEPT ![p] = o]
      /\ GoTo(t, "await")
      /\ UNCHANGED <<graph, ran>>
  BY DEF Finish
<1>2. p \in Promises /\ p = stack[t][n].promise /\ n \in DOMAIN stack[t] /\ Active(t, n)
  BY TopType DEF Inv, Active
<1>3. /\ \A u \in Threads : DOMAIN stack'[u] = DOMAIN stack[u]
      /\ \A u \in Threads : \A k \in DOMAIN stack[u] :
           /\ stack'[u][k].promise = stack[u][k].promise
           /\ stack'[u][k].at = IF u = t /\ k = n THEN "await" ELSE stack[u][k].at
  BY <1>1, GoToMoves DEF Inv, Places
<1>4. /\ StackType'
      /\ \A u \in Threads : \A k \in DOMAIN stack'[u] :
           /\ stack'[u][k].promise \in Promises
           /\ stack'[u][k].at \in {"await", "source", "function"}
           /\ k < Len(stack'[u]) => stack'[u][k].at # "await"
  BY <1>1, FramesAfterGoTo DEF Places
<1> HIDE DEF n, p
<1>5. /\ once' \in [Promises -> {"idle", "running", "done"}]
      /\ \A q \in Promises : once'[q] = IF q = p THEN "done" ELSE once[q]
  BY <1>1, <1>2 DEF Inv, TypeOK
<1>6. /\ outcome' \in [Promises -> Outcomes]
      /\ \A q \in Promises : outcome'[q] = IF q = p THEN o ELSE outcome[q]
  BY <1>1, <1>2 DEF Inv, OutcomeType
<1>7. TypeOK'
  <2>1. Graphs'
    BY <1>1, GraphStays DEF Inv, TypeOK
  <2>2. o.is \in {"value", "error", "panic"}
    BY DEF Outcomes
  <2>3. \A q \in Promises :
          /\ outcome'[q].is \in {"pending", "value", "error", "panic"}
          /\ outcome'[q].is = "pending" <=> once'[q] # "done"
    BY <1>5, <1>6, <2>2 DEF Inv, TypeOK
  <2>4. QED
    BY <1>1, <1>4, <1>5, <2>1, <2>3 DEF Inv, TypeOK
<1>8. \A u \in Threads : \A k \in DOMAIN stack[u] :
        Active(u, k)' => Active(u, k) /\ stack[u][k].promise # p
  BY <1>2, <1>3 DEF Active, Inv, ActiveInv
<1>9. ActiveInv'
  <2>1. \A u \in Threads : \A k \in DOMAIN stack'[u] :
          Active(u, k)' => once'[stack'[u][k].promise] = "running"
    BY <1>3, <1>4, <1>5, <1>8 DEF Inv, ActiveInv
  <2>2. \A u, v \in Threads : \A k \in DOMAIN stack'[u], l \in DOMAIN stack'[v] :
          Active(u, k)' /\ Active(v, l)' /\ stack'[u][k].promise = stack'[v][l].promise
            => u = v /\ k = l
    BY <1>3, <1>8 DEF Inv, ActiveInv
  <2>3. QED
    BY <2>1, <2>2 DEF ActiveInv
<1>10. RanInv'
  BY <1>1, <1>3, <1>5 DEF Inv, RanInv
<1>11. QED
  BY <1>4, <1>6, <1>7, <1>9, <1>10 DEF Inv, OutcomeType

LEMMA CallFunctionKeeps ==
  ASSUME Inv, NEW t \in Threads, CallFunction(t)
  PROVE  Inv'
<1> DEFINE n == Len(stack[t])
           p == Top(t).promise
<1>1. /\ stack[t] # <<>> /\ Top(t).at = "source"
      /\ ran' = [ran EXCEPT ![p] = @ + 1]
      /\ GoTo(t, "function")
      /\ UNCHANGED <<graph, once, outcome>>
  BY DEF CallFunction, TopIs
<1>2. /\ p \in Promises /\ p = stack[t][n].promise /\ n \in DOMAIN stack[t]
      /\ stack[t][n].at = "source" /\ Active(t, n)
  BY <1>1, TopType DEF Inv, Active
<1>3. /\ \A u \in Threads : DOMAIN stack'[u] = DOMAIN stack[u]
      /\ \A u \in Threads : \A k \in DOMAIN stack[u] :
           /\ stack'[u][k].promise = stack[u][k].promise
           /\ stack'[u][k].at = IF u = t /\ k = n THEN "function" ELSE stack[u][k].at
  BY <1>1, GoToMoves DEF Inv, Places
<1>4. /\ StackType'
      /\ \A u \in Threads : \A k \in DOMAIN stack'[u] :
           /\ stack'[u][k].promise \in Promises
           /\ stack'[u][k].at \in {"await", "source", "function"}
           /\ k < Len(stack'[u]) => stack'[u][k].at # "await"
  BY <1>1, FramesAfterGoTo DEF Places
<1> HIDE DEF n, p
<1>5. ran[p] = 0 /\ once[p] = "running"
  BY <1>2 DEF Inv, RanInv, ActiveInv
<1>6. /\ ran' \in [Promises -> Nat]
      /\ \A q \in Promises : ran'[q] = IF q = p THEN 1 ELSE ran[q]
  BY <1>1, <1>2, <1>5 DEF Inv, TypeOK
<1>7. TypeOK'
  <2>1. Graphs'
    BY <1>1, GraphStays DEF Inv, TypeOK
  <2>2. QED
    BY <1>1, <1>4, <1>6, <2>1 DEF Inv, TypeOK
<1>8. \A u \in Threads : \A k \in DOMAIN stack[u] : Active(u, k)' => Active(u, k)
  BY <1>2, <1>3 DEF Active
<1>9. ActiveInv'
  <2>1. \A u \in Threads : \A k \in DOMAIN stack'[u] :
          Active(u, k)' => once'[stack'[u][k].promise] = "running"
    BY <1>1, <1>3, <1>8 DEF Inv, ActiveInv
  <2>2. \A u, v \in Threads : \A k \in DOMAIN stack'[u], l \in DOMAIN stack'[v] :
          Active(u, k)' /\ Active(v, l)' /\ stack'[u][k].promise = stack'[v][l].promise
            => u = v /\ k = l
    BY <1>3, <1>8 DEF Inv, ActiveInv
  <2>3. QED
    BY <2>1, <2>2 DEF ActiveInv
<1>10. RanInv'
  <2>1. \A q \in Promises : ran'[q] <= 1 /\ (once'[q] = "idle" => ran'[q] = 0)
    BY <1>1, <1>5, <1>6 DEF Inv, RanInv
  <2>2. ASSUME NEW u \in Threads, NEW k \in DOMAIN stack'[u], stack'[u][k].at = "source"
        PROVE  ran'[stack'[u][k].promise] = 0
    <3>1. /\ k \in DOMAIN stack[u] /\ stack[u][k].at = "source" /\ ~(u = t /\ k = n)
          /\ stack'[u][k].promise = stack[u][k].promise
      BY <1>3, <2>2
    <3>2. Active(u, k) /\ stack[u][k].promise # p
      BY <1>2, <3>1 DEF Active, Inv, ActiveInv
    <3>3. stack[u][k].promise \in Promises /\ ran[stack[u][k].promise] = 0
      BY <3>1 DEF Inv, RanInv, TypeOK
    <3>4. QED
      BY <1>6, <3>1, <3>2, <3>3
  <2>3. QED
    BY <2>1, <2>2 DEF RanInv
<1>11. QED
  BY <1>1, <1>4, <1>7, <1>9, <1>10 DEF Inv, OutcomeType

\* What a function makes is an outcome.
LEMMA MadeType ==
  ASSUME Inv, NEW p \in Promises, NEW argument \in Seq(Promises), NEW awaited \in Outcomes,
         captured[p] # Nothing => awaited.is # "pending"
  PROVE  /\ Made(p, argument, awaited) \in Outcomes
         /\ Made(p, argument, awaited).is # "pending"
<1>1. /\ Error(p) \in Outcomes /\ Error(p).is = "error"
      /\ Panic(p) \in Outcomes /\ Panic(p).is = "panic"
  BY DEF Error, Panic, Outcomes
<1>2. Append(argument, p) \in Seq(Promises)
  OBVIOUS
<1>3. Value(Append(argument, p)) \in Outcomes /\ Value(Append(argument, p)).is = "value"
  BY <1>2 DEF Value, Outcomes
<1>4. \/ captured[p] # Nothing /\ Made(p, argument, awaited) = awaited
      \/ Made(p, argument, awaited) \in {Error(p), Panic(p), Value(Append(argument, p))}
  <2>1. CASE captured[p] # Nothing /\ (awaited.is = "panic" \/ does[p] = "captured")
    BY <2>1 DEF Made
  <2>2. CASE ~(captured[p] # Nothing /\ (awaited.is = "panic" \/ does[p] = "captured"))
    BY <2>2 DEF Made
  <2>3. QED
    BY <2>1, <2>2
<1>5. QED
  BY <1>1, <1>3, <1>4

LEMMA AwaitSourceKeeps ==
  ASSUME Inv, NEW t \in Threads, AwaitSource(t)
  PROVE  Inv'
<1> DEFINE p == Top(t).promise
           s == source[p]
<1>1. stack[t] # <<>> /\ Top(t).at # "await" /\ s # Nothing
  BY DEF AwaitSource, TopIs
<1>2. p \in Promises /\ s \in Promises
  BY <1>1, TopType, GraphType DEF Inv, TypeOK
<1>3. CASE /\ Push(t, s)
           /\ UNCHANGED <<graph, once, outcome, ran>>
  BY <1>1, <1>2, <1>3, PushKeeps
<1>4. CASE /\ once[s] = "done" /\ PassedOn(outcome[s])
           /\ Finish(t, p, outcome[s])
  <2>1. outcome[s] \in Outcomes /\ outcome[s].is # "pending"
    BY <1>2, <1>4 DEF Inv, OutcomeType, PassedOn
  <2>2. QED
    BY <1>1, <1>4, <2>1, FinishKeeps
<1>5. QED
  BY <1>3, <1>4 DEF AwaitSource

LEMMA RunFunctionKeeps ==
  ASSUME Inv, NEW t \in Threads, RunFunction(t)
  PROVE  Inv'
<1> DEFINE p == Top(t).promise
           c == captured[p]
           argument == Argument(source[p], outcome)
           awaited == IF c = Nothing THEN Pending ELSE outcome[c]
<1>1. stack[t] # <<>> /\ Top(t).at # "await"
  BY DEF RunFunction, TopIs
<1>2. /\ p \in Promises /\ (c # Nothing => c \in Promises)
      /\ source[p] # Nothing => source[p] \in Promises
  BY <1>1, TopType, GraphType DEF Inv, TypeOK
<1>3. CASE /\ c # Nothing /\ Push(t, c)
           /\ UNCHANGED <<graph, once, outcome, ran>>
  BY <1>1, <1>2, <1>3, PushKeeps
<1>4. CASE /\ c # Nothing => once[c] = "done"
           /\ Finish(t, p, Made(p, argument, awaited))
  <2>1. argument \in Seq(Promises)
    <3>1. \A q \in Promises : outcome[q].of \in Seq(Promises)
      BY DEF Inv, OutcomeType, Outcomes
    <3>2. QED
      BY <1>2, <3>1 DEF Argument
  <2>2. awaited \in Outcomes /\ (c # Nothing => awaited.is # "pending")
    <3>1. Pending \in Outcomes
      BY DEF Pending, Outcomes
    <3>2. QED
      BY <1>2, <1>4, <3>1 DEF Inv, OutcomeType, TypeOK
  <2>3. Made(p, argument, awaited) \in Outcomes /\ Made(p, argument, awaited).is # "pending"
    BY <1>2, <2>1, <2>2, MadeType
  <2>4. QED
    BY <1>1, <1>4, <2>3, FinishKeeps
<1>5. QED
  BY <1>3, <1>4 DEF RunFunction

LEMMA Invariant == Spec => []Inv
<1>1. Inv /\ [Next]_vars => Inv'
  <2> SUFFICES ASSUME Inv, [Next]_vars PROVE Inv'
    OBVIOUS
  <2>1. ASSUME NEW t \in Threads, Step(t) PROVE Inv'
    BY <2>1, ReturnKeeps, EnterKeeps, AwaitSourceKeeps, CallFunctionKeeps, RunFunctionKeeps
       DEF Step
  <2>2. ASSUME NEW t \in Threads, NEW p \in Promises, Await(t, p) PROVE Inv'
    BY <2>2, PushKeeps DEF Await
  <2>3. CASE UNCHANGED vars
    <3>1. Graphs'
      BY <2>3, GraphStays DEF Inv, TypeOK, vars
    <3>2. QED
      BY <2>3, <3>1 DEF Inv, TypeOK, StackType, OutcomeType, ActiveInv, Active, RanInv,
                        vars, graph
  <2>4. QED
    BY <2>1, <2>2, <2>3 DEF Next
<1>2. QED
  BY <1>1, InvInit, PTL DEF Spec

\* The variables keep their types, and a promise holds an outcome exactly when
\* sync.OnceValues is done with it (promise.go:17).
THEOREM PromiseTypeCorrect == Spec => []TypeOK
<1>1. Inv => TypeOK
  BY DEF Inv
<1>2. QED
  BY <1>1, Invariant, PTL

\* No function is called twice, however many goroutines await whatever shares it
\* (promise.go:17, 38).
THEOREM FunctionsRunOnce == Spec => []CalledAtMostOnce
<1>1. Inv => CalledAtMostOnce
  BY DEF Inv, RanInv, CalledAtMostOnce
<1>2. QED
  BY <1>1, Invariant, PTL

\* The outcome of a promise that is done never changes: who awaits it later,
\* alone or through a chain, gets what the first to await it got.
Decided == [][\A p \in Promises : once[p] = "done" => outcome'[p] = outcome[p]]_vars

THEOREM OutcomesAreFinal == Spec => Decided
<1> DEFINE Final == \A p \in Promises : once[p] = "done" => outcome'[p] = outcome[p]
<1>1. Inv /\ [Next]_vars => [Final]_vars
  <2> SUFFICES ASSUME Inv, Next PROVE Final
    OBVIOUS
  <2>1. ASSUME NEW t \in Threads, stack[t] # <<>>, Top(t).at # "await", NEW o,
               Finish(t, Top(t).promise, o)
        PROVE  Final
    <3> DEFINE q == Top(t).promise
    <3>1. once[q] = "running"
      BY <2>1, TopType DEF Inv, ActiveInv, Active
    <3>2. outcome' = [outcome EXCEPT ![q] = o]
      BY <2>1 DEF Finish
    <3> HIDE DEF q
    <3>3. QED
      BY <3>1, <3>2 DEF Inv, OutcomeType
  <2>2. ASSUME UNCHANGED outcome PROVE Final
    BY <2>2
  <2>3. ASSUME NEW t \in Threads, Step(t) PROVE Final
    <3>1. CASE Return(t) \/ Enter(t) \/ CallFunction(t)
      BY <3>1, <2>2 DEF Return, Enter, CallFunction
    <3>2. CASE AwaitSource(t)
      BY <3>2, <2>1, <2>2 DEF AwaitSource, TopIs
    <3>3. CASE RunFunction(t)
      BY <3>3, <2>1, <2>2 DEF RunFunction, TopIs
    <3>4. QED
      BY <2>3, <3>1, <3>2, <3>3 DEF Step
  <2>4. ASSUME NEW t \in Threads, NEW p \in Promises, Await(t, p) PROVE Final
    BY <2>4, <2>2 DEF Await
  <2>5. QED
    BY <2>3, <2>4 DEF Next
<1>2. QED
  BY <1>1, Invariant, PTL DEF Spec, Decided
-----------------------------------------------------------------------------
(* Outcomes are what the functions mean.  What a promise holds is tied to  *)
(* what its source and its captured promise hold, one step at a time; that *)
(* this makes it the Meaning is shown last, from a least counterexample.   *)

\* What a promise that is done holds, told from what those behind it hold.
Settled(p) ==
  /\ source[p] # Nothing => once[source[p]] = "done"
  /\ IF source[p] # Nothing /\ outcome[source[p]].is # "value"
     THEN outcome[p] = outcome[source[p]]
     ELSE /\ captured[p] # Nothing => once[captured[p]] = "done"
          /\ outcome[p] = Made(p, Argument(source[p], outcome),
                               IF captured[p] = Nothing THEN Pending
                               ELSE outcome[captured[p]])

SettledInv == \A p \in Promises : once[p] = "done" => Settled(p)

\* A function is called on the value of its source.
Supplied(p) ==
  source[p] # Nothing => once[source[p]] = "done" /\ outcome[source[p]].is = "value"

Fed(t, k) == stack[t][k].at = "function" => Supplied(stack[t][k].promise)

SuppliedInv == \A t \in Threads : \A k \in DOMAIN stack[t] : Fed(t, k)

\* A frame awaits what the frame below it has come to.
Follows(t, k) ==
  \/ /\ stack[t][k].at = "source"
     /\ stack[t][k + 1].promise = source[stack[t][k].promise]
     /\ stack[t][k + 1].promise # Nothing
  \/ /\ stack[t][k].at = "function"
     /\ stack[t][k + 1].promise = captured[stack[t][k].promise]
     /\ stack[t][k + 1].promise # Nothing

ChainInv ==
  \A t \in Threads : \A k \in DOMAIN stack[t] : k < Len(stack[t]) => Follows(t, k)

Means == SettledInv /\ SuppliedInv /\ ChainInv

\* What is done stays as it is: then so does what it makes of others.
Kept == \A p \in Promises : once[p] = "done" => once'[p] = "done" /\ outcome'[p] = outcome[p]

LEMMA SettledStays ==
  ASSUME Graphs, UNCHANGED graph, Kept, NEW p \in Promises, once[p] = "done", Settled(p)
  PROVE  Settled(p)'
<1>1. /\ source' = source /\ captured' = captured /\ does' = does
      /\ source[p] # Nothing => source[p] \in Promises
      /\ captured[p] # Nothing => captured[p] \in Promises
  BY GraphType DEF graph
<1>2. /\ outcome'[p] = outcome[p]
      /\ source[p] # Nothing => once'[source[p]] = "done"
                                /\ outcome'[source[p]] = outcome[source[p]]
  BY <1>1 DEF Kept, Settled
<1>3. CASE source[p] # Nothing /\ outcome[source[p]].is # "value"
  BY <1>1, <1>2, <1>3 DEF Settled
<1>4. CASE ~(source[p] # Nothing /\ outcome[source[p]].is # "value")
  <2>1. captured[p] # Nothing => once'[captured[p]] = "done"
                                 /\ outcome'[captured[p]] = outcome[captured[p]]
    BY <1>1, <1>4 DEF Kept, Settled
  <2>2. Argument(source'[p], outcome') = Argument(source[p], outcome)
    BY <1>1, <1>2 DEF Argument
  <2>3. QED
    BY <1>1, <1>2, <1>4, <2>1, <2>2 DEF Settled, Made
<1>5. QED
  BY <1>3, <1>4

LEMMA SuppliedStays ==
  ASSUME Graphs, UNCHANGED graph, Kept, NEW p \in Promises, Supplied(p)
  PROVE  Supplied(p)'
BY GraphType DEF Supplied, Kept, graph

\* The step to follow of a frame that was pushed; the others are as they were.
LEMMA PushMeans ==
  ASSUME Inv, Means, NEW t \in Threads, NEW p \in Promises, Push(t, p),
         UNCHANGED <<graph, once, outcome, ran>>,
         stack[t] # <<>> => \/ TopIs(t, "source") /\ p = source[Top(t).promise]
                            \/ TopIs(t, "function") /\ p = captured[Top(t).promise]
  PROVE  Means'
<1> DEFINE n == Len(stack[t])
<1>1. /\ \A u \in Threads : u # t => stack'[u] = stack[u]
      /\ Len(stack'[t]) = n + 1 /\ n \in Nat
      /\ DOMAIN stack'[t] = 1 .. n + 1 /\ DOMAIN stack[t] = 1 .. n
      /\ \A k \in DOMAIN stack[t] : stack'[t][k] = stack[t][k]
      /\ stack'[t][n + 1].at = "await" /\ stack'[t][n + 1].promise = p
  BY PushAdds DEF Inv
<1>2. /\ Kept /\ UNCHANGED graph /\ Graphs
      /\ source' = source /\ captured' = captured
      /\ \A q \in Promises : once'[q] = once[q]
      /\ p # Nothing
  BY DEF Kept, graph, Inv, TypeOK, Promises, Nothing
<1>3. n # 0 => \/ stack[t][n].at = "source" /\ p = source[stack[t][n].promise]
               \/ stack[t][n].at = "function" /\ p = captured[stack[t][n].promise]
  <2>1. n # 0 => stack[t] # <<>>
    OBVIOUS
  <2>2. QED
    BY <2>1 DEF Top, TopIs
<1> HIDE DEF n
<1>4. SettledInv'
  BY <1>2, SettledStays DEF Means, SettledInv
<1>5. SuppliedInv'
  <2> SUFFICES ASSUME NEW u \in Threads, NEW k \in DOMAIN stack'[u],
                      stack'[u][k].at = "function"
               PROVE  Fed(u, k)'
    BY DEF SuppliedInv, Fed
  <2>1. k \in DOMAIN stack[u] /\ stack'[u][k] = stack[u][k]
    BY <1>1
  <2>2. Supplied(stack[u][k].promise) /\ stack[u][k].promise \in Promises
    BY <2>1 DEF Means, SuppliedInv, Fed, Inv, TypeOK
  <2>3. QED
    BY <1>2, <2>1, <2>2 DEF Fed, Supplied
<1>6. ChainInv'
  <2> SUFFICES ASSUME NEW u \in Threads, NEW k \in DOMAIN stack'[u], k < Len(stack'[u])
               PROVE  Follows(u, k)'
    BY DEF ChainInv
  <2>1. CASE u # t
    BY <1>1, <1>2, <2>1 DEF Means, ChainInv, Follows
  <2>2. CASE u = t
    <3>1. k \in 1 .. n /\ stack'[t][k] = stack[t][k]
      BY <1>1, <2>2
    <3>2. CASE k = n
      BY <1>1, <1>2, <1>3, <2>2, <3>1, <3>2 DEF Follows
    <3>3. CASE k # n
      <4>1. k < n /\ k + 1 \in 1 .. n
        BY <1>1, <3>1, <3>3
      <4>2. Follows(t, k) /\ stack'[t][k + 1] = stack[t][k + 1]
        BY <1>1, <3>1, <4>1 DEF Means, ChainInv, n
      <4>3. QED
        BY <1>2, <2>2, <3>1, <4>2 DEF Follows
    <3>4. QED
      BY <3>2, <3>3
  <2>3. QED
    BY <2>1, <2>2
<1>7. QED
  BY <1>4, <1>5, <1>6 DEF Means

LEMMA ReturnMeans ==
  ASSUME Inv, Means, NEW t \in Threads, Return(t)
  PROVE  Means'
<1> DEFINE n == Len(stack[t])
<1>1. /\ \A u \in Threads : u # t => stack'[u] = stack[u]
      /\ n \in Nat \ {0} /\ Len(stack'[t]) = n - 1
      /\ DOMAIN stack'[t] = 1 .. n - 1
      /\ \A k \in DOMAIN stack'[t] : k \in DOMAIN stack[t] /\ stack'[t][k] = stack[t][k]
  BY ReturnDrops DEF Inv
<1>2. /\ Kept /\ UNCHANGED graph /\ Graphs
      /\ source' = source /\ captured' = captured /\ once' = once /\ outcome' = outcome
  BY DEF Return, Kept, graph, Inv, TypeOK
<1> HIDE DEF n
<1>3. SettledInv'
  BY <1>2, SettledStays DEF Means, SettledInv
<1>4. \A u \in Threads : \A k \in DOMAIN stack'[u] :
        k \in DOMAIN stack[u] /\ stack'[u][k] = stack[u][k]
  BY <1>1
<1>5. SuppliedInv'
  BY <1>2, <1>4 DEF Means, SuppliedInv, Fed, Supplied
<1>6. ChainInv'
  <2> SUFFICES ASSUME NEW u \in Threads, NEW k \in DOMAIN stack'[u], k < Len(stack'[u])
               PROVE  Follows(u, k)'
    BY DEF ChainInv
  <2>1. CASE u # t
    BY <1>1, <1>2, <2>1 DEF Means, ChainInv, Follows
  <2>2. CASE u = t
    <3>1. k \in 1 .. n - 1 /\ k + 1 \in 1 .. n - 1 /\ k < n
      BY <1>1, <2>2
    <3>2. /\ Follows(t, k)
          /\ stack'[t][k] = stack[t][k] /\ stack'[t][k + 1] = stack[t][k + 1]
      BY <1>1, <3>1 DEF Means, ChainInv, n
    <3>3. QED
      BY <1>2, <2>2, <3>2 DEF Follows
  <2>3. QED
    BY <2>1, <2>2
<1>7. QED
  BY <1>3, <1>5, <1>6 DEF Means

\* The running frame goes on, and is called on the value of its source if at all.
LEMMA GoToMeans ==
  ASSUME Inv, Means, NEW t \in Threads, stack[t] # <<>>, NEW at \in Places, GoTo(t, at),
         UNCHANGED graph, Kept, SettledInv',
         at = "function" => Supplied(Top(t).promise)
  PROVE  Means'
<1> DEFINE n == Len(stack[t])
<1>1. /\ \A u \in Threads : DOMAIN stack'[u] = DOMAIN stack[u]
      /\ \A u \in Threads : Len(stack'[u]) = Len(stack[u])
      /\ \A u \in Threads : \A k \in DOMAIN stack[u] :
           /\ stack'[u][k].promise = stack[u][k].promise
           /\ stack'[u][k].at = IF u = t /\ k = n THEN at ELSE stack[u][k].at
  BY GoToMoves DEF Inv
<1>2. Graphs /\ source' = source /\ captured' = captured
  BY DEF graph, Inv, TypeOK
<1>3. Top(t) = stack[t][n] /\ n \in Nat
  BY TopType DEF Inv
<1>4. \A u \in Threads : \A k \in DOMAIN stack[u] :
        /\ stack[u][k].promise \in Promises
        /\ DOMAIN stack[u] = 1 .. Len(stack[u]) /\ Len(stack[u]) \in Nat
  BY DEF Inv, TypeOK, StackType
<1>5. SuppliedInv'
  <2> SUFFICES ASSUME NEW u \in Threads, NEW k \in DOMAIN stack'[u],
                      stack'[u][k].at = "function"
               PROVE  Fed(u, k)'
    BY DEF SuppliedInv, Fed
  <2>1. PICK p \in Promises : p = stack[u][k].promise /\ p = stack'[u][k].promise
    BY <1>1, <1>4
  <2>2. Supplied(p)
    <3>1. CASE u = t /\ k = n
      BY <1>1, <1>3, <2>1, <3>1
    <3>2. CASE ~(u = t /\ k = n)
      BY <1>1, <2>1, <3>2 DEF Means, SuppliedInv, Fed
    <3>3. QED
      BY <3>1, <3>2
  <2>3. Supplied(p)'
    BY <1>2, <2>2, SuppliedStays
  <2>4. QED
    BY <2>1, <2>3 DEF Fed, Supplied
<1>6. ChainInv'
  <2> SUFFICES ASSUME NEW u \in Threads, NEW k \in DOMAIN stack'[u], k < Len(stack'[u])
               PROVE  Follows(u, k)'
    BY DEF ChainInv
  <2>1. /\ k \in DOMAIN stack[u] /\ k + 1 \in DOMAIN stack[u]
        /\ k < Len(stack[u]) /\ ~(u = t /\ k = n)
    BY <1>1, <1>4
  <2>2. Follows(u, k)
    BY <2>1 DEF Means, ChainInv
  <2>3. /\ stack'[u][k].at = stack[u][k].at /\ stack'[u][k].promise = stack[u][k].promise
        /\ stack'[u][k + 1].promise = stack[u][k + 1].promise
    BY <1>1, <2>1
  <2>4. QED
    BY <1>2, <2>2, <2>3 DEF Follows
<1>7. QED
  BY <1>5, <1>6 DEF Means

\* The outcome o is what p comes to.
Worth(p, o) ==
  /\ source[p] # Nothing => once[source[p]] = "done"
  /\ IF source[p] # Nothing /\ outcome[source[p]].is # "value"
     THEN o = outcome[source[p]]
     ELSE /\ captured[p] # Nothing => once[captured[p]] = "done"
          /\ o = Made(p, Argument(source[p], outcome),
                      IF captured[p] = Nothing THEN Pending ELSE outcome[captured[p]])

LEMMA FinishMeans ==
  ASSUME Inv, Means, NEW t \in Threads, stack[t] # <<>>, Top(t).at # "await",
         NEW o, Finish(t, Top(t).promise, o), Worth(Top(t).promise, o)
  PROVE  Means'
<1>1. PICK p \in Promises : p = Top(t).promise
  BY TopType DEF Inv
<1>2. /\ once' = [once EXCEPT ![p] = "done"]
      /\ outcome' = [outcome EXCEPT ![p] = o]
      /\ GoTo(t, "await")
      /\ UNCHANGED <<graph, ran>>
      /\ source' = source /\ captured' = captured /\ does' = does
  BY <1>1 DEF Finish, graph
<1>3. once[p] = "running"
  BY <1>1, TopType DEF Inv, ActiveInv, Active, Top
<1>4. /\ Graphs
      /\ \A q \in Promises : once'[q] = IF q = p THEN "done" ELSE once[q]
      /\ \A q \in Promises : outcome'[q] = IF q = p THEN o ELSE outcome[q]
  BY <1>2 DEF Inv, TypeOK, OutcomeType
<1>5. Kept
  BY <1>3, <1>4 DEF Kept
<1>6. Settled(p)'
  <2>1. Worth(p, o)
    BY <1>1
  <2>2. /\ source[p] # Nothing => source[p] \in Promises /\ source[p] # p
        /\ captured[p] # Nothing => captured[p] \in Promises /\ captured[p] # p
    BY <1>4 DEF Graphs, Promises
  <2>3. source[p] # Nothing => once'[source[p]] = "done"
                               /\ outcome'[source[p]] = outcome[source[p]]
    BY <1>4, <2>1, <2>2 DEF Worth
  <2>4. outcome'[p] = o
    BY <1>4
  <2>5. CASE source[p] # Nothing /\ outcome[source[p]].is # "value"
    BY <1>2, <2>1, <2>3, <2>4, <2>5 DEF Settled, Worth
  <2>6. CASE ~(source[p] # Nothing /\ outcome[source[p]].is # "value")
    <3>1. captured[p] # Nothing => once'[captured[p]] = "done"
                                   /\ outcome'[captured[p]] = outcome[captured[p]]
      BY <1>4, <2>1, <2>2, <2>6 DEF Worth
    <3>2. Argument(source'[p], outcome') = Argument(source[p], outcome)
      BY <1>2, <2>3 DEF Argument
    <3>3. o = Made(p, Argument(source[p], outcome),
                   IF captured[p] = Nothing THEN Pending ELSE outcome[captured[p]])
      BY <2>1, <2>6 DEF Worth
    <3>4. ~(source'[p] # Nothing /\ outcome'[source'[p]].is # "value")
      BY <1>2, <2>3, <2>6
    <3>5. source'[p] # Nothing => once'[source'[p]] = "done"
      BY <1>2, <2>3
    <3>6. CASE captured[p] = Nothing
      BY <1>2, <2>4, <3>2, <3>3, <3>4, <3>5, <3>6 DEF Settled, Made
    <3>7. CASE captured[p] # Nothing
      BY <1>2, <2>4, <3>1, <3>2, <3>3, <3>4, <3>5, <3>7 DEF Settled, Made
    <3>8. QED
      BY <3>6, <3>7
  <2>7. QED
    BY <2>5, <2>6
<1>7. SettledInv'
  <2> SUFFICES ASSUME NEW q \in Promises, once'[q] = "done" PROVE Settled(q)'
    BY DEF SettledInv
  <2>1. CASE q = p
    BY <1>6, <2>1
  <2>2. CASE q # p
    <3>1. once[q] = "done" /\ Settled(q)
      BY <1>4, <2>2 DEF Means, SettledInv
    <3>2. QED
      BY <1>2, <1>4, <1>5, <3>1, SettledStays
  <2>3. QED
    BY <2>1, <2>2
<1>8. QED
  BY <1>2, <1>5, <1>7, GoToMeans DEF Places

LEMMA EnterMeans ==
  ASSUME Inv, Means, NEW t \in Threads, Enter(t)
  PROVE  Means'
<1>1. PICK p \in Promises : p = Top(t).promise
  BY TopType DEF Inv, Enter, TopIs
<1>2. /\ once[p] = "idle" /\ once' = [once EXCEPT ![p] = "running"]
      /\ GoTo(t, "source") /\ stack[t] # <<>>
      /\ UNCHANGED <<graph, outcome, ran>>
  BY <1>1 DEF Enter, MayEnter, TopIs
<1>3. Graphs /\ \A q \in Promises : once'[q] = IF q = p THEN "running" ELSE once[q]
  BY <1>2 DEF Inv, TypeOK
<1>4. Kept
  BY <1>2, <1>3 DEF Kept
<1>5. SettledInv'
  BY <1>2, <1>3, <1>4, SettledStays DEF Means, SettledInv
<1>6. QED
  BY <1>2, <1>4, <1>5, GoToMeans DEF Places

LEMMA CallFunctionMeans ==
  ASSUME Inv, Means, NEW t \in Threads, CallFunction(t)
  PROVE  Means'
<1>1. PICK p \in Promises : p = Top(t).promise
  BY TopType DEF Inv, CallFunction, TopIs
<1>2. /\ GoTo(t, "function") /\ stack[t] # <<>>
      /\ UNCHANGED <<graph, once, outcome>>
      /\ source[p] # Nothing => once[source[p]] = "done" /\ ~PassedOn(outcome[source[p]])
  BY <1>1 DEF CallFunction, TopIs
<1>3. Kept /\ Graphs
  BY <1>2 DEF Kept, Inv, TypeOK
<1>4. SettledInv'
  BY <1>2, <1>3, SettledStays DEF Means, SettledInv
<1>5. Supplied(p)
  BY <1>2, <1>3, GraphType DEF Supplied, PassedOn, Inv, TypeOK
<1>6. QED
  BY <1>1, <1>2, <1>3, <1>4, <1>5, GoToMeans DEF Places

LEMMA AwaitSourceMeans ==
  ASSUME Inv, Means, NEW t \in Threads, AwaitSource(t)
  PROVE  Means'
<1> DEFINE p == Top(t).promise
           s == source[p]
<1>1. TopIs(t, "source") /\ stack[t] # <<>> /\ Top(t).at # "await" /\ s # Nothing
  BY DEF AwaitSource, TopIs
<1>2. p \in Promises /\ s \in Promises
  BY <1>1, TopType, GraphType DEF Inv, TypeOK
<1>3. CASE /\ Push(t, s)
           /\ UNCHANGED <<graph, once, outcome, ran>>
  BY <1>1, <1>2, <1>3, PushMeans
<1>4. CASE /\ once[s] = "done" /\ PassedOn(outcome[s])
           /\ Finish(t, p, outcome[s])
  <2>1. Worth(p, outcome[s])
    BY <1>1, <1>4 DEF Worth, PassedOn
  <2>2. QED
    BY <1>1, <1>4, <2>1, FinishMeans
<1>5. QED
  BY <1>3, <1>4 DEF AwaitSource

LEMMA RunFunctionMeans ==
  ASSUME Inv, Means, NEW t \in Threads, RunFunction(t)
  PROVE  Means'
<1> DEFINE p == Top(t).promise
           c == captured[p]
           o == Made(p, Argument(source[p], outcome), IF c = Nothing THEN Pending ELSE outcome[c])
<1>1. /\ TopIs(t, "function") /\ stack[t] # <<>> /\ Top(t).at # "await"
      /\ p \in Promises /\ (c # Nothing => c \in Promises)
  BY TopType, GraphType DEF RunFunction, TopIs, Inv, TypeOK
<1>2. Supplied(p)
  <2>1. Fed(t, Len(stack[t]))
    BY <1>1, TopType DEF Means, SuppliedInv, Inv
  <2>2. QED
    BY <1>1, <2>1 DEF Fed, TopIs, Top
<1>3. CASE /\ c # Nothing /\ Push(t, c)
           /\ UNCHANGED <<graph, once, outcome, ran>>
  BY <1>1, <1>3, PushMeans
<1>4. CASE /\ c # Nothing => once[c] = "done"
           /\ Finish(t, p, o)
  <2>1. Worth(p, o)
    BY <1>2, <1>4 DEF Worth, Supplied
  <2> HIDE DEF o
  <2>2. QED
    BY <1>1, <1>4, <2>1, FinishMeans
<1>5. QED
  BY <1>3, <1>4 DEF RunFunction

LEMMA MeansInit == Init => Means
<1> SUFFICES ASSUME Init PROVE Means
  OBVIOUS
<1>0. DOMAIN <<>> = {}
  OBVIOUS
<1>1. \A t \in Threads : stack[t] = <<>> /\ DOMAIN stack[t] = {}
  BY <1>0 DEF Init
<1>2. SuppliedInv /\ ChainInv
  BY <1>1 DEF SuppliedInv, ChainInv
<1>3. ASSUME NEW p \in Promises, once[p] = "done" PROVE Settled(p)
  <2>1. p \in ready
    BY <1>3 DEF Init
  <2>2. source[p] = Nothing /\ captured[p] = Nothing /\ does[p] \in {"value", "error"}
    BY <2>1 DEF Init, Graphs
  <2>3. outcome[p] = IF does[p] = "value" THEN Value(<<p>>) ELSE Error(p)
    BY <2>1 DEF Init
  <2>4. Append(<<>>, p) = <<p>>
    OBVIOUS
  <2>5. Made(p, <<>>, Pending) = outcome[p]
    BY <2>2, <2>3, <2>4 DEF Made
  <2>6. QED
    BY <2>2, <2>5 DEF Settled, Argument
<1>4. QED
  BY <1>2, <1>3 DEF Means, SettledInv

LEMMA MeansInvariant == Spec => [](Inv /\ Means)
<1>1. Inv /\ Means /\ [Next]_vars => Means'
  <2> SUFFICES ASSUME Inv, Means, [Next]_vars PROVE Means'
    OBVIOUS
  <2>1. ASSUME NEW t \in Threads, Step(t) PROVE Means'
    BY <2>1, ReturnMeans, EnterMeans, AwaitSourceMeans, CallFunctionMeans, RunFunctionMeans
       DEF Step
  <2>2. ASSUME NEW t \in Threads, NEW p \in Promises, Await(t, p) PROVE Means'
    BY <2>2, PushMeans DEF Await
  <2>3. CASE UNCHANGED vars
    <3>1. Graphs /\ UNCHANGED graph /\ Kept /\ UNCHANGED <<once, outcome, stack>>
          /\ source' = source /\ captured' = captured
      BY <2>3 DEF Inv, TypeOK, vars, graph, Kept
    <3>2. SettledInv'
      BY <3>1, SettledStays DEF Means, SettledInv
    <3>3. SuppliedInv' /\ ChainInv'
      BY <3>1 DEF Means, SuppliedInv, Fed, Supplied, ChainInv, Follows
    <3>4. QED
      BY <3>2, <3>3 DEF Means
  <2>4. QED
    BY <2>1, <2>2, <2>3 DEF Next
<1>2. QED
  BY <1>1, Invariant, MeansInit, PTL DEF Spec

-----------------------------------------------------------------------------
(* The Meaning of every promise: that the recursion defines it.            *)

LEMMA SmallestOf ==
  ASSUME NEW S \in SUBSET Nat, S # {}
  PROVE  \E m \in S : \A j \in S : m <= j
<1>1. IsWellFoundedOn(OpToRel(<, Nat), Nat)
  BY NatLessThanWellFounded
<1>2. PICK m \in S : \A j \in S : ~ (<<j, m>> \in OpToRel(<, Nat))
  BY <1>1, WFMin
<1>3. ASSUME NEW j \in S PROVE m <= j
  <2>1. m \in Nat /\ j \in Nat /\ ~ (j < m)
    BY <1>2 DEF OpToRel
  <2>2. QED
    BY <2>1
<1>4. QED
  BY <1>3

\* What p is worth when w says what those before it are.
WorthBy(w, p) ==
  IF source[p] # Nothing /\ w[source[p]].is # "value" THEN w[source[p]]
  ELSE Made(p, Argument(source[p], w),
            IF captured[p] = Nothing THEN Pending ELSE w[captured[p]])

\* Functions that agree on what comes before p make the same of it.
LEMMA WorthByBefore ==
  ASSUME Graphs, NEW p \in Promises, NEW v, NEW w,
         \A q \in Promises : q < p => v[q] = w[q]
  PROVE  WorthBy(v, p) = WorthBy(w, p)
<1>1. /\ source[p] # Nothing => v[source[p]] = w[source[p]]
      /\ captured[p] # Nothing => v[captured[p]] = w[captured[p]]
  BY GraphType DEF Graphs
<1>2. Argument(source[p], v) = Argument(source[p], w)
  BY <1>1 DEF Argument
<1>3. QED
  BY <1>1, <1>2 DEF WorthBy

LEMMA WorthExists ==
  ASSUME Graphs
  PROVE  \E w : w = [p \in Promises |-> WorthBy(w, p)]
<1> DEFINE Upto(n, w) == w = [p \in 1 .. n |-> WorthBy(w, p)]
           bad == {n \in 0 .. MaxPromises : ~ \E w : Upto(n, w)}
<1>1. SUFFICES bad = {}
  <2>1. MaxPromises \in 0 .. MaxPromises
    BY PromisesAssumption
  <2>2. bad = {} => \E w : Upto(MaxPromises, w)
    BY <2>1
  <2>3. QED
    BY <1>1, <2>2 DEF Promises
<1>2. SUFFICES ASSUME bad # {} PROVE FALSE
  OBVIOUS
<1>3. PICK n \in bad : \A j \in bad : n <= j
  <2>1. bad \in SUBSET Nat
    OBVIOUS
  <2> HIDE DEF bad
  <2>2. QED
    BY <1>2, <2>1, SmallestOf
<1>4. n # 0
  <2> DEFINE e == [p \in 1 .. 0 |-> 0]
  <2>1. e = [p \in 1 .. 0 |-> WorthBy(e, p)]
    <3>1. \A p \in 1 .. 0 : FALSE
      OBVIOUS
    <3> HIDE DEF e
    <3>2. e = [p \in 1 .. 0 |-> 0]
      BY DEF e
    <3>3. QED
      BY <3>1, <3>2
  <2>2. Upto(0, e)
    BY <2>1
  <2>3. QED
    BY <1>3, <2>2
<1>5. n - 1 \in 0 .. MaxPromises /\ ~ (n <= n - 1)
  BY <1>3, <1>4, PromisesAssumption
<1>6. PICK w : Upto(n - 1, w)
  BY <1>3, <1>5
<1> DEFINE v == [p \in 1 .. n |-> WorthBy(w, p)]
<1>7. ASSUME NEW p \in 1 .. n PROVE v[p] = WorthBy(v, p)
  <2>1. p \in Promises
    BY <1>3, <1>7, PromisesAssumption DEF Promises
  <2>2. ASSUME NEW q \in Promises, q < p PROVE w[q] = v[q]
    <3>1. q \in 1 .. n - 1 /\ q \in 1 .. n
      BY <1>3, <1>7, <2>1, <2>2 DEF Promises
    <3>2. w[q] = WorthBy(w, q)
      <4>1. w = [r \in 1 .. n - 1 |-> WorthBy(w, r)]
        BY <1>6
      <4>2. QED
        BY <3>1, <4>1
    <3>3. QED
      BY <3>1, <3>2
  <2>3. v[p] = WorthBy(w, p)
    BY <1>7
  <2> HIDE DEF v
  <2>4. QED
    BY <2>1, <2>2, <2>3, WorthByBefore
<1>8. Upto(n, v)
  <2>1. v = [p \in 1 .. n |-> v[p]]
    OBVIOUS
  <2>2. v = [p \in 1 .. n |-> WorthBy(v, p)]
    <3> HIDE DEF v
    <3>1. QED
      BY <1>7, <2>1
  <2>3. QED
    BY <2>2
<1>9. QED
  BY <1>3, <1>8

LEMMA MeaningUnfolds ==
  ASSUME Graphs
  PROVE  \A p \in Promises : Meaning[p] = WorthBy(Meaning, p)
<1>1. Meaning = CHOOSE w : w = [p \in Promises |-> WorthBy(w, p)]
  BY DEF Meaning, WorthBy
<1> DEFINE M == Meaning
<1>2. M = [p \in Promises |-> WorthBy(M, p)]
  BY <1>1, WorthExists
<1> HIDE DEF M
<1>3. \A p \in Promises : M[p] = WorthBy(M, p)
  BY <1>2
<1>4. QED
  BY <1>3 DEF M

\* A promise holds what its functions mean, told from the functions alone:
\* neither who awaited it, nor in which order, nor what else was awaited
\* meanwhile has a part in it (promise.go:36-61).
THEOREM OutcomesMean == Spec => []OutcomeIsMeaning
<1>1. Inv /\ Means => OutcomeIsMeaning
  <2> DEFINE bad == {p \in Promises : once[p] = "done" /\ outcome[p] # Meaning[p]}
  <2>1. SUFFICES ASSUME Inv, Means, bad # {} PROVE FALSE
    BY DEF OutcomeIsMeaning
  <2>2. PICK p \in bad : \A q \in bad : p <= q
    <3>1. bad \in SUBSET Nat
      BY DEF Promises
    <3> HIDE DEF bad
    <3>2. QED
      BY <2>1, <3>1, SmallestOf
  <2>3. p \in Promises /\ once[p] = "done" /\ outcome[p] # Meaning[p] /\ Settled(p) /\ Graphs
    BY <2>1, <2>2 DEF Means, SettledInv, Inv, TypeOK
  <2>4. ASSUME NEW q \in Promises, q < p, once[q] = "done" PROVE Meaning[q] = outcome[q]
    BY <2>2, <2>3, <2>4 DEF Promises
  <2> HIDE DEF bad
  <2>5. /\ source[p] # Nothing => source[p] \in Promises /\ source[p] < p
        /\ captured[p] # Nothing => captured[p] \in Promises /\ captured[p] < p
    BY <2>3, GraphType DEF Graphs
  <2>6. source[p] # Nothing => Meaning[source[p]] = outcome[source[p]]
    BY <2>3, <2>4, <2>5 DEF Settled
  <2>7. Meaning[p] = WorthBy(Meaning, p)
    BY <2>3, MeaningUnfolds
  <2>8. CASE source[p] # Nothing /\ outcome[source[p]].is # "value"
    BY <2>3, <2>6, <2>7, <2>8 DEF Settled, WorthBy
  <2>9. CASE ~(source[p] # Nothing /\ outcome[source[p]].is # "value")
    <3>1. captured[p] # Nothing => Meaning[captured[p]] = outcome[captured[p]]
      BY <2>3, <2>4, <2>5, <2>9 DEF Settled
    <3>2. Argument(source[p], Meaning) = Argument(source[p], outcome)
      BY <2>6 DEF Argument
    <3>3. QED
      BY <2>3, <2>6, <2>7, <2>9, <3>1, <3>2 DEF Settled, WorthBy
  <2>10. QED
    BY <2>8, <2>9
<1>2. QED
  BY <1>1, MeansInvariant, PTL

-----------------------------------------------------------------------------
(* What an Await needs.                                                    *)

NeedsBy(w, p) ==
  {p} \cup (IF source[p] = Nothing THEN {} ELSE w[source[p]])
      \cup (IF captured[p] = Nothing
               \/ (source[p] # Nothing /\ Meaning[source[p]].is # "value") THEN {}
            ELSE w[captured[p]])

LEMMA NeedsByBefore ==
  ASSUME Graphs, NEW p \in Promises, NEW v, NEW w,
         \A q \in Promises : q < p => v[q] = w[q]
  PROVE  NeedsBy(v, p) = NeedsBy(w, p)
<1>1. /\ source[p] # Nothing => v[source[p]] = w[source[p]]
      /\ captured[p] # Nothing => v[captured[p]] = w[captured[p]]
  BY GraphType DEF Graphs
<1>2. QED
  BY <1>1 DEF NeedsBy

LEMMA NeedsExists ==
  ASSUME Graphs
  PROVE  \E w : w = [p \in Promises |-> NeedsBy(w, p)]
<1> DEFINE Upto(n, w) == w = [p \in 1 .. n |-> NeedsBy(w, p)]
           bad == {n \in 0 .. MaxPromises : ~ \E w : Upto(n, w)}
<1>1. SUFFICES bad = {}
  <2>1. MaxPromises \in 0 .. MaxPromises
    BY PromisesAssumption
  <2>2. bad = {} => \E w : Upto(MaxPromises, w)
    BY <2>1
  <2>3. QED
    BY <1>1, <2>2 DEF Promises
<1>2. SUFFICES ASSUME bad # {} PROVE FALSE
  OBVIOUS
<1>3. PICK n \in bad : \A j \in bad : n <= j
  <2>1. bad \in SUBSET Nat
    OBVIOUS
  <2> HIDE DEF bad
  <2>2. QED
    BY <1>2, <2>1, SmallestOf
<1>4. n # 0
  <2> DEFINE e == [p \in 1 .. 0 |-> 0]
  <2>1. e = [p \in 1 .. 0 |-> NeedsBy(e, p)]
    <3>1. \A p \in 1 .. 0 : FALSE
      OBVIOUS
    <3> HIDE DEF e
    <3>2. e = [p \in 1 .. 0 |-> 0]
      BY DEF e
    <3>3. QED
      BY <3>1, <3>2
  <2>2. Upto(0, e)
    BY <2>1
  <2>3. QED
    BY <1>3, <2>2
<1>5. n - 1 \in 0 .. MaxPromises /\ ~ (n <= n - 1)
  BY <1>3, <1>4, PromisesAssumption
<1>6. PICK w : Upto(n - 1, w)
  BY <1>3, <1>5
<1> DEFINE v == [p \in 1 .. n |-> NeedsBy(w, p)]
<1>7. ASSUME NEW p \in 1 .. n PROVE v[p] = NeedsBy(v, p)
  <2>1. p \in Promises
    BY <1>3, <1>7, PromisesAssumption DEF Promises
  <2>2. ASSUME NEW q \in Promises, q < p PROVE w[q] = v[q]
    <3>1. q \in 1 .. n - 1 /\ q \in 1 .. n
      BY <1>3, <1>7, <2>1, <2>2 DEF Promises
    <3>2. w[q] = NeedsBy(w, q)
      <4>1. w = [r \in 1 .. n - 1 |-> NeedsBy(w, r)]
        BY <1>6
      <4>2. QED
        BY <3>1, <4>1
    <3>3. QED
      BY <3>1, <3>2
  <2>3. v[p] = NeedsBy(w, p)
    BY <1>7
  <2> HIDE DEF v
  <2>4. QED
    BY <2>1, <2>2, <2>3, NeedsByBefore
<1>8. Upto(n, v)
  <2>1. v = [p \in 1 .. n |-> v[p]]
    OBVIOUS
  <2>2. v = [p \in 1 .. n |-> NeedsBy(v, p)]
    <3> HIDE DEF v
    <3>1. QED
      BY <1>7, <2>1
  <2>3. QED
    BY <2>2
<1>9. QED
  BY <1>3, <1>8

LEMMA NeedsUnfolds ==
  ASSUME Graphs
  PROVE  \A p \in Promises : Needs[p] = NeedsBy(Needs, p)
<1>1. Needs = CHOOSE w : w = [p \in Promises |-> NeedsBy(w, p)]
  BY DEF Needs, NeedsBy
<1> DEFINE N == Needs
<1>2. N = [p \in Promises |-> NeedsBy(N, p)]
  BY <1>1, NeedsExists
<1> HIDE DEF N
<1>3. \A p \in Promises : N[p] = NeedsBy(N, p)
  BY <1>2
<1>4. QED
  BY <1>3 DEF N

\* What is needed needs its source, and what its function captured if the
\* function is called.
Passes(p, S) ==
  /\ source[p] # Nothing => source[p] \in S
  /\ captured[p] # Nothing /\ (source[p] # Nothing => Meaning[source[p]].is = "value")
       => captured[p] \in S

LEMMA NeedsClosed ==
  ASSUME Graphs, NEW r \in Promises, NEW p \in Needs[r]
  PROVE  p \in Promises /\ Passes(p, Needs[r])
<1> DEFINE bad == {q \in Promises : \E n \in Needs[q] : n \notin Promises \/ ~Passes(n, Needs[q])}
<1>1. SUFFICES ASSUME bad # {} PROVE FALSE
  OBVIOUS
<1>2. PICK q \in bad : \A j \in bad : q <= j
  <2>1. bad \in SUBSET Nat
    BY DEF Promises
  <2> HIDE DEF bad
  <2>2. QED
    BY <1>1, <2>1, SmallestOf
<1>3. PICK n \in Needs[q] : n \notin Promises \/ ~Passes(n, Needs[q])
  BY <1>2
<1>4. q \in Promises
  BY <1>2
<1>5. ASSUME NEW k \in Promises, k < q, NEW m \in Needs[k]
      PROVE  m \in Promises /\ Passes(m, Needs[k])
  <2>1. k \notin bad
    BY <1>2, <1>4, <1>5 DEF Promises
  <2>2. QED
    BY <1>5, <2>1
<1> HIDE DEF bad
<1>6. Needs[q] = NeedsBy(Needs, q)
  BY <1>4, NeedsUnfolds
<1>7. \A k \in Promises : k \in Needs[k]
  BY NeedsUnfolds DEF NeedsBy
<1>8. /\ source[q] # Nothing => source[q] \in Promises /\ source[q] < q
      /\ captured[q] # Nothing => captured[q] \in Promises /\ captured[q] < q
  BY <1>4, GraphType DEF Graphs
<1>9. n = q => n \in Promises /\ Passes(n, Needs[q])
  BY <1>4, <1>6, <1>7, <1>8 DEF NeedsBy, Passes
<1>10. ASSUME NEW k \in Promises, k < q, n \in Needs[k], Needs[k] \subseteq Needs[q]
       PROVE  n \in Promises /\ Passes(n, Needs[q])
  BY <1>5, <1>10 DEF Passes
<1>11. \/ n = q
       \/ source[q] # Nothing /\ n \in Needs[source[q]] /\ Needs[source[q]] \subseteq Needs[q]
       \/ captured[q] # Nothing /\ n \in Needs[captured[q]]
            /\ Needs[captured[q]] \subseteq Needs[q]
  BY <1>3, <1>6 DEF NeedsBy
<1>12. QED
  BY <1>3, <1>8, <1>9, <1>10, <1>11

\* Whatever a goroutine has come to from an Await is needed by it.
LEMMA FramesNeeded ==
  ASSUME Inv, Means, OutcomeIsMeaning, NEW t \in Threads,
         NEW i \in DOMAIN stack[t], NEW k \in DOMAIN stack[t], i <= k
  PROVE  stack[t][k].promise \in Needs[stack[t][i].promise]
<1> DEFINE r == stack[t][i].promise
           bad == {j \in DOMAIN stack[t] : i <= j /\ stack[t][j].promise \notin Needs[r]}
<1>1. /\ DOMAIN stack[t] = 1 .. Len(stack[t]) /\ Len(stack[t]) \in Nat
      /\ \A j \in DOMAIN stack[t] : stack[t][j].promise \in Promises
      /\ Graphs
  BY DEF Inv, TypeOK, StackType
<1>2. i \in Nat /\ r \in Promises
  BY <1>1
<1>3. SUFFICES ASSUME bad # {} PROVE FALSE
  OBVIOUS
<1>4. PICK m \in bad : \A j \in bad : m <= j
  <2>1. bad \in SUBSET Nat
    BY <1>1
  <2> HIDE DEF bad
  <2>2. QED
    BY <1>3, <2>1, SmallestOf
<1>5. m # i
  <2>1. r \in Needs[r]
    BY <1>1, <1>2, NeedsUnfolds DEF NeedsBy
  <2>2. QED
    BY <1>4, <2>1
<1>6. /\ m - 1 \in DOMAIN stack[t] /\ m - 1 < Len(stack[t]) /\ m - 1 + 1 = m
      /\ m - 1 \notin bad /\ m \in DOMAIN stack[t]
  <2>1. m \in DOMAIN stack[t] /\ i <= m /\ \A j \in bad : m <= j
    BY <1>4
  <2> HIDE DEF bad
  <2>2. m - 1 \in 1 .. Len(stack[t]) /\ m - 1 < Len(stack[t]) /\ m - 1 + 1 = m
        /\ ~(m <= m - 1) /\ i <= m - 1
    BY <1>1, <1>2, <1>5, <2>1
  <2>3. QED
    BY <1>1, <2>1, <2>2
<1>7. PICK p \in Promises : p = stack[t][m - 1].promise /\ p \in Needs[r]
  <2>1. i <= m - 1
    BY <1>1, <1>2, <1>4, <1>5
  <2>2. QED
    BY <1>1, <1>6, <2>1
<1>8. stack[t][m].promise \notin Needs[r]
  BY <1>4
<1> HIDE DEF bad
<1>9. Follows(t, m - 1) /\ Fed(t, m - 1)
  BY <1>6 DEF Means, ChainInv, SuppliedInv
<1>10. Passes(p, Needs[r])
  BY <1>1, <1>2, <1>7, NeedsClosed
<1>11. CASE stack[t][m].promise = source[p] /\ stack[t][m].promise # Nothing
  BY <1>8, <1>10, <1>11 DEF Passes
<1>12. CASE /\ stack[t][m - 1].at = "function"
            /\ stack[t][m].promise = captured[p] /\ stack[t][m].promise # Nothing
  <2>1. Supplied(p)
    BY <1>7, <1>9, <1>12 DEF Fed
  <2>2. source[p] # Nothing => Meaning[source[p]].is = "value"
    BY <1>1, <2>1, GraphType DEF Supplied, OutcomeIsMeaning
  <2>3. QED
    BY <1>8, <1>10, <1>12, <2>2 DEF Passes
<1>13. QED
  BY <1>6, <1>7, <1>9, <1>11, <1>12 DEF Follows

\* A function is called only for an Await that needs it (promise.go:36-61): none
\* is called ahead, none behind a failure, and none for an Await of another promise.
THEOREM FunctionsAreNeeded == Spec => CalledWhenNeeded
<1> DEFINE Needed ==
      \A p \in Promises : ran'[p] # ran[p] =>
        \E t \in Threads : stack[t] # <<>> /\ p \in Needs[stack[t][1].promise]
<1>1. Inv /\ Means /\ OutcomeIsMeaning /\ [Next]_vars => [Needed]_vars
  <2> SUFFICES ASSUME Inv, Means, OutcomeIsMeaning, Next PROVE Needed
    OBVIOUS
  <2>1. ASSUME UNCHANGED ran PROVE Needed
    BY <2>1
  <2>2. ASSUME NEW t \in Threads, CallFunction(t) PROVE Needed
    <3>1. /\ stack[t] # <<>> /\ ran' = [ran EXCEPT ![Top(t).promise] = @ + 1]
          /\ Len(stack[t]) \in DOMAIN stack[t]
          /\ Top(t) = stack[t][Len(stack[t])]
          /\ 1 \in DOMAIN stack[t] /\ 1 <= Len(stack[t])
      BY <2>2, TopType DEF CallFunction, TopIs, Inv
    <3>2. Top(t).promise \in Needs[stack[t][1].promise]
      BY <3>1, FramesNeeded
    <3>3. \A p \in Promises : p # Top(t).promise => ran'[p] = ran[p]
      BY <3>1 DEF Inv, TypeOK
    <3>4. QED
      BY <3>1, <3>2, <3>3
  <2>3. ASSUME NEW t \in Threads, Step(t) PROVE Needed
    <3>1. CASE Return(t) \/ Enter(t) \/ AwaitSource(t) \/ RunFunction(t)
      BY <3>1, <2>1 DEF Return, Enter, AwaitSource, RunFunction, Finish
    <3>2. QED
      BY <2>2, <2>3, <3>1 DEF Step
  <2>4. ASSUME NEW t \in Threads, NEW p \in Promises, Await(t, p) PROVE Needed
    BY <2>4, <2>1 DEF Await
  <2>5. QED
    BY <2>3, <2>4 DEF Next
<1>2. QED
  BY <1>1, MeansInvariant, OutcomesMean, PTL DEF Spec, CalledWhenNeeded

-----------------------------------------------------------------------------
(* Nobody waits for ever: what a goroutine is blocked on is worked on.     *)

\* The goroutine waits in sync.Once for another one: Step has no other wait.
Blocked(t) == TopIs(t, "await") /\ once[Top(t).promise] = "running"

\* What is running is run by a frame.
HeldBy(p) ==
  \E t \in Threads : \E k \in DOMAIN stack[t] : Active(t, k) /\ stack[t][k].promise = p

HeldInv == \A p \in Promises : once[p] = "running" => HeldBy(p)

\* A frame stays, but the one that ends, and so does what it runs.
LEMMA HeldStays ==
  ASSUME NEW p \in Promises, HeldBy(p),
         \A u \in Threads : \A k \in DOMAIN stack[u] :
           Active(u, k) /\ stack[u][k].promise = p =>
             Active(u, k)' /\ stack'[u][k].promise = p
  PROVE  HeldBy(p)'
BY DEF HeldBy, Active

LEMMA PushHolds ==
  ASSUME Inv, HeldInv, NEW t \in Threads, NEW q \in Promises, Push(t, q), UNCHANGED once
  PROVE  HeldInv'
<1>1. \A u \in Threads : \A k \in DOMAIN stack[u] :
        k \in DOMAIN stack'[u] /\ stack'[u][k] = stack[u][k]
  BY PushAdds DEF Inv
<1>2. \A u \in Threads : \A k \in DOMAIN stack[u] : Active(u, k) => Active(u, k)'
  BY <1>1 DEF Active
<1>3. QED
  BY <1>1, <1>2, HeldStays DEF HeldInv

LEMMA ReturnHolds ==
  ASSUME Inv, HeldInv, NEW t \in Threads, Return(t)
  PROVE  HeldInv'
<1>1. /\ \A u \in Threads : u # t => stack'[u] = stack[u]
      /\ Len(stack[t]) \in Nat \ {0} /\ DOMAIN stack'[t] = 1 .. Len(stack[t]) - 1
      /\ \A k \in DOMAIN stack'[t] : stack'[t][k] = stack[t][k]
  BY ReturnDrops DEF Inv
<1>2. /\ Top(t) = stack[t][Len(stack[t])] /\ Top(t).at = "await"
      /\ DOMAIN stack[t] = 1 .. Len(stack[t]) /\ once' = once
  BY TopType DEF Return, TopIs, Inv
<1>3. ASSUME NEW u \in Threads, NEW k \in DOMAIN stack[u], Active(u, k)
      PROVE  Active(u, k)' /\ stack'[u][k] = stack[u][k]
  <2>1. CASE u # t
    BY <1>1, <1>3, <2>1 DEF Active
  <2>2. CASE u = t
    <3>1. k # Len(stack[t])
      BY <1>2, <1>3, <2>2 DEF Active
    <3>2. k \in DOMAIN stack'[t]
      BY <1>1, <1>2, <2>2, <3>1
    <3>3. QED
      BY <1>1, <1>3, <2>2, <3>2 DEF Active
  <2>3. QED
    BY <2>1, <2>2
<1>4. QED
  BY <1>2, <1>3, HeldStays DEF HeldInv

\* The running frame goes on and still runs.
LEMMA GoToHolds ==
  ASSUME Inv, HeldInv, NEW t \in Threads, stack[t] # <<>>,
         NEW at \in {"source", "function"}, GoTo(t, at),
         \A p \in Promises : once'[p] = "running" => once[p] = "running" \/ p = Top(t).promise
  PROVE  HeldInv'
<1>1. /\ \A u \in Threads : DOMAIN stack'[u] = DOMAIN stack[u]
      /\ \A u \in Threads : \A k \in DOMAIN stack[u] :
           /\ stack'[u][k].promise = stack[u][k].promise
           /\ stack'[u][k].at = IF u = t /\ k = Len(stack[t]) THEN at ELSE stack[u][k].at
  BY GoToMoves DEF Inv, Places
<1>2. Len(stack[t]) \in DOMAIN stack[t] /\ Top(t) = stack[t][Len(stack[t])]
  BY TopType DEF Inv
<1>3. \A u \in Threads : \A k \in DOMAIN stack[u] : Active(u, k) => Active(u, k)'
  BY <1>1 DEF Active
<1>4. Active(t, Len(stack[t]))' /\ stack'[t][Len(stack[t])].promise = Top(t).promise
  BY <1>1, <1>2 DEF Active
<1>5. ASSUME NEW p \in Promises, once'[p] = "running" PROVE HeldBy(p)'
  <2>1. CASE p = Top(t).promise
    BY <1>1, <1>2, <1>4, <2>1 DEF HeldBy
  <2>2. CASE once[p] = "running"
    BY <1>1, <1>3, <2>2, HeldStays DEF HeldInv
  <2>3. QED
    BY <1>5, <2>1, <2>2
<1>6. QED
  BY <1>5 DEF HeldInv

\* The frame that ends leaves its promise done.
LEMMA FinishHolds ==
  ASSUME Inv, HeldInv, NEW t \in Threads, stack[t] # <<>>, NEW o,
         Finish(t, Top(t).promise, o)
  PROVE  HeldInv'
<1>1. PICK q \in Promises : q = Top(t).promise
  BY TopType DEF Inv
<1>2. /\ once' = [once EXCEPT ![q] = "done"] /\ GoTo(t, "await")
  BY <1>1 DEF Finish
<1>3. \A p \in Promises : once'[p] = IF p = q THEN "done" ELSE once[p]
  BY <1>2 DEF Inv, TypeOK
<1>4. /\ \A u \in Threads : DOMAIN stack'[u] = DOMAIN stack[u]
      /\ \A u \in Threads : \A k \in DOMAIN stack[u] :
           /\ stack'[u][k].promise = stack[u][k].promise
           /\ ~(u = t /\ k = Len(stack[t])) => stack'[u][k].at = stack[u][k].at
  BY <1>2, GoToMoves DEF Inv, Places
<1>5. stack[t][Len(stack[t])].promise = q
  BY <1>1 DEF Top
<1>6. ASSUME NEW p \in Promises, once'[p] = "running" PROVE HeldBy(p)'
  <2>1. p # q /\ once[p] = "running"
    BY <1>3, <1>6
  <2>2. ASSUME NEW u \in Threads, NEW k \in DOMAIN stack[u],
               Active(u, k), stack[u][k].promise = p
        PROVE  Active(u, k)' /\ stack'[u][k].promise = p
    BY <1>4, <1>5, <2>1, <2>2 DEF Active
  <2>3. QED
    BY <2>1, <2>2, HeldStays DEF HeldInv
<1>7. QED
  BY <1>6 DEF HeldInv

LEMMA HeldInvariant == Spec => []HeldInv
<1>1. Init => HeldInv
  BY DEF Init, HeldInv
<1>2. Inv /\ HeldInv /\ [Next]_vars => HeldInv'
  <2> SUFFICES ASSUME Inv, HeldInv, [Next]_vars PROVE HeldInv'
    OBVIOUS
  <2>1. ASSUME NEW t \in Threads, Enter(t) PROVE HeldInv'
    <3>1. /\ stack[t] # <<>> /\ GoTo(t, "source") /\ Top(t).promise \in Promises
          /\ once' = [once EXCEPT ![Top(t).promise] = "running"]
      BY <2>1, TopType DEF Enter, TopIs, Inv
    <3>2. \A p \in Promises :
            once'[p] = "running" => once[p] = "running" \/ p = Top(t).promise
      BY <3>1 DEF Inv, TypeOK
    <3>3. QED
      BY <3>1, <3>2, GoToHolds
  <2>2. ASSUME NEW t \in Threads, CallFunction(t) PROVE HeldInv'
    BY <2>2, GoToHolds DEF CallFunction, TopIs
  <2>3. ASSUME NEW t \in Threads, AwaitSource(t) PROVE HeldInv'
    <3>1. stack[t] # <<>> /\ source[Top(t).promise] \in Promises
      BY <2>3, TopType, GraphType DEF AwaitSource, TopIs, Inv, TypeOK
    <3>2. QED
      BY <2>3, <3>1, PushHolds, FinishHolds DEF AwaitSource
  <2>4. ASSUME NEW t \in Threads, RunFunction(t) PROVE HeldInv'
    <3>1. /\ stack[t] # <<>>
          /\ captured[Top(t).promise] # Nothing => captured[Top(t).promise] \in Promises
      BY <2>4, TopType, GraphType DEF RunFunction, TopIs, Inv, TypeOK
    <3>2. QED
      BY <2>4, <3>1, PushHolds, FinishHolds DEF RunFunction
  <2>5. ASSUME NEW t \in Threads, Step(t) PROVE HeldInv'
    BY <2>1, <2>2, <2>3, <2>4, <2>5, ReturnHolds DEF Step
  <2>6. ASSUME NEW t \in Threads, NEW p \in Promises, Await(t, p) PROVE HeldInv'
    BY <2>6, PushHolds DEF Await
  <2>7. CASE UNCHANGED vars
    BY <2>7 DEF vars, HeldInv, HeldBy, Active
  <2>8. QED
    BY <2>5, <2>6, <2>7 DEF Next
<1>3. QED
  BY <1>1, <1>2, Invariant, PTL DEF Spec

\* Frames further up a stack are of promises that come before.
LEMMA FramesDescend ==
  ASSUME Inv, Means, NEW t \in Threads, NEW i \in DOMAIN stack[t],
         NEW k \in DOMAIN stack[t], i < k
  PROVE  stack[t][k].promise < stack[t][i].promise
<1> DEFINE below == stack[t][i].promise
           bad == {j \in DOMAIN stack[t] : i < j /\ ~(stack[t][j].promise < below)}
<1>1. /\ DOMAIN stack[t] = 1 .. Len(stack[t]) /\ Len(stack[t]) \in Nat
      /\ \A j \in DOMAIN stack[t] : stack[t][j].promise \in Promises
      /\ Graphs
  BY DEF Inv, TypeOK, StackType
<1>2. SUFFICES ASSUME bad # {} PROVE FALSE
  OBVIOUS
<1>3. PICK m \in bad : \A j \in bad : m <= j
  <2>1. bad \in SUBSET Nat
    BY <1>1
  <2> HIDE DEF bad
  <2>2. QED
    BY <1>2, <2>1, SmallestOf
<1>4. m \in DOMAIN stack[t] /\ i < m /\ ~(stack[t][m].promise < below)
  BY <1>3
<1>5. /\ m - 1 \in DOMAIN stack[t] /\ i <= m - 1 /\ m - 1 < Len(stack[t])
      /\ m - 1 + 1 = m /\ m - 1 < m
  BY <1>1, <1>4
<1>6. stack[t][m - 1].promise <= below
  <2>1. CASE i = m - 1
    BY <1>1, <2>1 DEF Promises
  <2>2. CASE i # m - 1
    <3>1. m - 1 \notin bad /\ i < m - 1
      BY <1>1, <1>3, <1>5, <2>2
    <3>2. QED
      BY <1>1, <1>5, <3>1 DEF Promises
  <2>3. QED
    BY <2>1, <2>2
<1>7. stack[t][m].promise < stack[t][m - 1].promise
  <2>1. Follows(t, m - 1)
    BY <1>5 DEF Means, ChainInv
  <2>2. QED
    BY <1>1, <1>4, <1>5, <2>1 DEF Follows, Graphs
<1>8. QED
  BY <1>1, <1>4, <1>5, <1>6, <1>7 DEF Promises

\* Needs of what is needed are needed.
LEMMA NeedsNest ==
  ASSUME Graphs, NEW r \in Promises, NEW p \in Needs[r]
  PROVE  Needs[p] \subseteq Needs[r]
<1> DEFINE bad == {q \in Promises : q \in Needs[r] /\ ~(Needs[q] \subseteq Needs[r])}
<1>1. SUFFICES ASSUME bad # {} PROVE FALSE
  BY NeedsClosed
<1>2. PICK q \in bad : \A j \in bad : q <= j
  <2>1. bad \in SUBSET Nat
    BY DEF Promises
  <2> HIDE DEF bad
  <2>2. QED
    BY <1>1, <2>1, SmallestOf
<1>3. q \in Promises /\ q \in Needs[r] /\ ~(Needs[q] \subseteq Needs[r])
  BY <1>2
<1>4. ASSUME NEW j \in Promises, j < q, j \in Needs[r] PROVE Needs[j] \subseteq Needs[r]
  BY <1>2, <1>3, <1>4 DEF Promises
<1> HIDE DEF bad
<1>5. /\ source[q] # Nothing => source[q] \in Promises /\ source[q] < q
      /\ captured[q] # Nothing => captured[q] \in Promises /\ captured[q] < q
  BY <1>3, GraphType DEF Graphs
<1>6. Passes(q, Needs[r])
  BY <1>3, NeedsClosed
<1>7. Needs[q] = NeedsBy(Needs, q)
  BY <1>3, NeedsUnfolds
<1>8. source[q] # Nothing => Needs[source[q]] \subseteq Needs[r]
  BY <1>4, <1>5, <1>6 DEF Passes
<1>9. captured[q] = Nothing \/ (source[q] # Nothing /\ Meaning[source[q]].is # "value")
        \/ Needs[captured[q]] \subseteq Needs[r]
  BY <1>4, <1>5, <1>6 DEF Passes
<1>10. QED
  BY <1>3, <1>7, <1>8, <1>9 DEF NeedsBy

\* A goroutine that can go on runs something that p needs.
WorkedOn(p) ==
  \E u \in Threads : \E k \in DOMAIN stack[u] :
    ~Blocked(u) /\ Active(u, k) /\ stack[u][k].promise \in Needs[p]

NobodyWaitsInVain == \A t \in Threads : Blocked(t) => WorkedOn(Top(t).promise)

\* Goroutines wait for each other in sync.Once (promise.go:17), each with the
\* promises it is in the middle of still running.  However many there are and
\* whatever they share, none waits in a ring: for every goroutine that waits
\* there is one that does not, and that works on what the first is waiting for.
THEOREM NobodyDeadlocks == Spec => []NobodyWaitsInVain
<1>1. Inv /\ Means /\ OutcomeIsMeaning /\ HeldInv => NobodyWaitsInVain
  <2> SUFFICES ASSUME Inv, Means, OutcomeIsMeaning, HeldInv PROVE NobodyWaitsInVain
    OBVIOUS
  <2> DEFINE bad == {p \in Promises : once[p] = "running" /\ ~WorkedOn(p)}
  <2>1. SUFFICES bad = {}
    <3>1. ASSUME NEW t \in Threads, Blocked(t) PROVE WorkedOn(Top(t).promise)
      <4>1. Top(t).promise \in Promises /\ once[Top(t).promise] = "running"
        BY <3>1, TopType DEF Blocked, TopIs, Inv
      <4>2. QED
        BY <2>1, <4>1
    <3>2. QED
      BY <3>1 DEF NobodyWaitsInVain
  <2>2. SUFFICES ASSUME bad # {} PROVE FALSE
    OBVIOUS
  <2>3. PICK p \in bad : \A j \in bad : p <= j
    <3>1. bad \in SUBSET Nat
      BY DEF Promises
    <3> HIDE DEF bad
    <3>2. QED
      BY <2>2, <3>1, SmallestOf
  <2>4. p \in Promises /\ once[p] = "running" /\ ~WorkedOn(p)
    BY <2>3
  <2>5. ASSUME NEW q \in Promises, q < p, once[q] = "running" PROVE WorkedOn(q)
    BY <2>3, <2>4, <2>5 DEF Promises
  <2> HIDE DEF bad
  <2>6. PICK u \in Threads : \E k \in DOMAIN stack[u] : Active(u, k) /\ stack[u][k].promise = p
    BY <2>4 DEF HeldInv, HeldBy
  <2>7. PICK k \in DOMAIN stack[u] : Active(u, k) /\ stack[u][k].promise = p
    BY <2>6
  <2>8. Graphs /\ p \in Needs[p]
    BY <2>4, NeedsUnfolds DEF Inv, TypeOK, NeedsBy
  <2>9. Blocked(u)
    BY <2>4, <2>7, <2>8 DEF WorkedOn
  <2> DEFINE n == Len(stack[u])
  <2>10. /\ n \in DOMAIN stack[u] /\ stack[u][n].at = "await"
         /\ Top(u) = stack[u][n] /\ DOMAIN stack[u] = 1 .. n /\ n \in Nat
    BY <2>9, TopType DEF Blocked, TopIs, Inv
  <2>11. k < n /\ k <= n
    BY <2>7, <2>10 DEF Active
  <2>12. PICK q \in Promises : q = stack[u][n].promise /\ once[q] = "running"
    BY <2>9, <2>10, TopType DEF Blocked, TopIs, Inv
  <2> HIDE DEF n
  <2>13. q < p /\ q \in Needs[p]
    BY <2>7, <2>10, <2>11, <2>12, FramesDescend, FramesNeeded
  <2>14. WorkedOn(q)
    BY <2>5, <2>12, <2>13
  <2>15. Needs[q] \subseteq Needs[p]
    BY <2>4, <2>8, <2>13, NeedsNest
  <2>16. QED
    BY <2>4, <2>14, <2>15 DEF WorkedOn
<1>2. QED
  BY <1>1, MeansInvariant, OutcomesMean, HeldInvariant, PTL
=============================================================================
