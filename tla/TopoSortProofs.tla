--------------------------- MODULE TopoSortProofs ---------------------------
(***************************************************************************)
(* Proofs about TopoSort for every finite set of Functions, every graph    *)
(* and every list of roots.                                                *)
(***************************************************************************)
EXTENDS TopoSort, FiniteSetTheorems, TLAPS

OnStack == {stack[i].node : i \in DOMAIN stack}
Sorted == {sorted[p] : p \in DOMAIN sorted}

(* The stack is a path of distinct Functions: each frame's last child is   *)
(* the next frame's node.                                                  *)
StackIsPath ==
    /\ \A i \in DOMAIN stack : stack[i].child_idx <= Len(next[stack[i].node])
    /\ \A i, j \in DOMAIN stack : stack[i].node = stack[j].node => i = j
    /\ \A i \in DOMAIN stack : i < Len(stack) =>
          /\ stack[i].child_idx >= 1
          /\ next[stack[i].node][stack[i].child_idx] = stack[i + 1].node

(* The sets kept beside the stack and the result say what they should. *)
Bookkeeping ==
    /\ on_stack = OnStack
    /\ visited = OnStack \cup Sorted
    /\ OnStack \cap Sorted = {}

(* Every child a frame has passed is null, sorted, or the next frame. *)
PassedChildren ==
    status # "cycle" =>
        \A i \in DOMAIN stack : \A k \in 1 .. stack[i].child_idx :
            LET c == next[stack[i].node][k]
            IN  \/ c = Null
                \/ c \in Sorted
                \/ i < Len(stack) /\ c = stack[i + 1].node

RootsTaken == \A i \in 1 .. root_idx : roots[i] = Null \/ roots[i] \in visited

(* Whatever has been visited lies in every closed set around the roots. *)
OnlyReachable ==
    \A S \in SUBSET Function :
        RootSet \subseteq S /\ Closed(next, Null, S) => visited \subseteq S

Outcome ==
    /\ status = "done" => stack = <<>> /\ root_idx = Len(roots)
    /\ status = "cycle" =>
          /\ stack # <<>>
          /\ Top.child_idx >= 1
          /\ next[Top.node][Top.child_idx] \in OnStack

(* The inductive invariant. *)
IInv ==
    /\ TypeOK
    /\ StackIsPath
    /\ Bookkeeping
    /\ PassedChildren
    /\ SortedIsPostOrder
    /\ RootsTaken
    /\ OnlyReachable
    /\ Outcome
-----------------------------------------------------------------------------
USE NullAssumption, GraphsAssumption, RootsAssumption

LEMMA InitIInv == Init => IInv
<1> SUFFICES ASSUME Init PROVE IInv
    OBVIOUS
<1> USE DEF Init
<1>1. TypeOK
    BY DEF TypeOK
<1>2. DOMAIN stack = {} /\ DOMAIN sorted = {} /\ OnStack = {} /\ Sorted = {}
    BY DEF OnStack, Sorted
<1>3. StackIsPath /\ Bookkeeping /\ PassedChildren
    BY <1>2 DEF StackIsPath, Bookkeeping, PassedChildren
<1>4. SortedIsPostOrder
    BY <1>2 DEF SortedIsPostOrder, IsInjective, ChildrenFirst
<1>5. RootsTaken /\ OnlyReachable /\ Outcome
    BY DEF RootsTaken, OnlyReachable, Outcome
<1> QED
    BY <1>1, <1>3, <1>4, <1>5 DEF IInv

(* The graph and the roots are inputs: the closed sets stay the same. *)
LEMMA PushIInv ==
    ASSUME IInv, status = "running", UNCHANGED <<next, roots, sorted, status>>,
           root_idx' \in 0 .. Len(roots),
           NEW frames \in Seq(Frame), Len(frames) = Len(stack),
           \A i \in DOMAIN stack : frames[i].node = stack[i].node,
           \A i \in DOMAIN stack : i < Len(stack) => frames[i] = stack[i],
           NEW n \in Function, n \notin visited,
           Push(frames, n),
           Len(stack) = 0 => \E i \in DOMAIN roots : roots[i] = n,
           Len(stack) > 0 =>
              /\ frames[Len(stack)].child_idx = stack[Len(stack)].child_idx + 1
              /\ frames[Len(stack)].child_idx <= Len(next[stack[Len(stack)].node])
              /\ next[stack[Len(stack)].node][frames[Len(stack)].child_idx] = n,
           \A i \in 1 .. root_idx' : i <= root_idx \/ roots[i] = n
    PROVE  IInv'
<1> DEFINE L == Len(stack)
<1> USE DEF IInv
<1>0. L \in Nat /\ DOMAIN stack = 1 .. L /\ DOMAIN frames = 1 .. L /\ next' = next
    BY DEF TypeOK
<1>a. \A i \in 1 .. L : stack[i] \in Frame /\ frames[i] \in Frame
    BY <1>0 DEF TypeOK
<1>b. \A i \in 1 .. L : /\ stack[i].node \in Function /\ stack[i].child_idx \in Nat
                        /\ frames[i].node \in Function /\ frames[i].child_idx \in Nat
    BY <1>a DEF Frame
<1>c. \A f \in Function : next[f] \in Seq(Function \cup {Null})
    BY DEF TypeOK
<1>1. /\ Len(stack') = L + 1
      /\ DOMAIN stack' = 1 .. L + 1
      /\ stack'[L + 1] = [node |-> n, child_idx |-> 0]
      /\ \A i \in 1 .. L : stack'[i] = frames[i]
      /\ stack' \in Seq(Frame)
    BY <1>0 DEF Push, Frame
<1>2. \A i \in 1 .. L : stack'[i].node = stack[i].node /\ (i < L => stack'[i] = stack[i])
    BY <1>0, <1>1
<1>3. OnStack' = OnStack \cup {n} /\ Sorted' = Sorted
  <2>1. \A x \in OnStack' : x \in OnStack \cup {n}
      BY <1>0, <1>1, <1>2 DEF OnStack
  <2>2. \A x \in OnStack : x \in OnStack'
      BY <1>0, <1>1, <1>2 DEF OnStack
  <2>3. n \in OnStack'
      BY <1>0, <1>1 DEF OnStack
  <2>4. Sorted' = Sorted
      BY DEF Sorted
  <2> QED
      BY <2>1, <2>2, <2>3, <2>4
<1>4. n \notin OnStack /\ n \notin Sorted
    BY DEF Bookkeeping
<1>5. TypeOK'
    BY <1>1 DEF TypeOK, Push
<1>6. StackIsPath'
  <2>1. \A i \in 1 .. L + 1 : stack'[i].child_idx <= Len(next[stack'[i].node])
    <3>1. \A i \in 1 .. L : i < L => stack'[i].child_idx <= Len(next[stack'[i].node])
        BY <1>0, <1>2 DEF StackIsPath
    <3>2. L > 0 => stack'[L].child_idx <= Len(next[stack'[L].node])
        BY <1>0, <1>1, <1>2
    <3>3. stack'[L + 1].child_idx <= Len(next[stack'[L + 1].node])
        BY <1>1 DEF TypeOK
    <3> QED
        BY <1>0, <3>1, <3>2, <3>3
  <2>2. \A i, j \in 1 .. L + 1 : stack'[i].node = stack'[j].node => i = j
    <3>1. \A i \in 1 .. L : stack'[i].node # n
        BY <1>0, <1>2, <1>4 DEF OnStack
    <3>2. \A i, j \in 1 .. L : stack'[i].node = stack'[j].node => i = j
        BY <1>0, <1>2 DEF StackIsPath
    <3> QED
        BY <1>0, <1>1, <3>1, <3>2
  <2>3. \A i \in 1 .. L + 1 : i < L + 1 =>
            /\ stack'[i].child_idx >= 1
            /\ next[stack'[i].node][stack'[i].child_idx] = stack'[i + 1].node
    <3>1. \A i \in 1 .. L : i < L =>
            /\ stack'[i].child_idx >= 1
            /\ next[stack'[i].node][stack'[i].child_idx] = stack'[i + 1].node
        BY <1>0, <1>2 DEF StackIsPath
    <3>2. L > 0 => stack[L].child_idx \in Nat
        BY <1>0, <1>b
    <3>3. L > 0 => /\ stack'[L].child_idx >= 1
                   /\ next[stack'[L].node][stack'[L].child_idx] = stack'[L + 1].node
        BY <1>0, <1>1, <1>2, <3>2
    <3> QED
        BY <1>0, <3>1, <3>3
  <2> QED
      BY <1>0, <1>1, <2>1, <2>2, <2>3 DEF StackIsPath
<1>7. Bookkeeping'
    BY <1>3, <1>4 DEF Bookkeeping, Push
<1>8. PassedChildren'
  <2> SUFFICES ASSUME NEW i \in 1 .. L + 1, NEW k \in 1 .. stack'[i].child_idx
               PROVE  LET c == next[stack'[i].node][k]
                      IN  c = Null \/ c \in Sorted \/ (i < L + 1 /\ c = stack'[i + 1].node)
      BY <1>0, <1>1, <1>3 DEF PassedChildren
  <2>1. CASE i < L
    <3>1. i \in DOMAIN stack /\ i + 1 \in 1 .. L /\ stack'[i] = stack[i]
        BY <2>1, <1>0, <1>2
    <3>2. stack'[i + 1].node = stack[i + 1].node
        BY <3>1, <1>2
    <3> QED
        BY <2>1, <3>1, <3>2, <1>0 DEF PassedChildren
  <2>2. CASE i = L /\ L > 0
    <3>1. stack[L].child_idx \in Nat /\ stack'[L].child_idx = stack[L].child_idx + 1
        BY <2>2, <1>0, <1>1, <1>b
    <3>2. CASE k <= stack[L].child_idx
        BY <2>2, <3>1, <3>2, <1>0, <1>1, <1>2 DEF PassedChildren
    <3>3. CASE k = stack[L].child_idx + 1
        BY <2>2, <3>1, <3>3, <1>0, <1>1, <1>2
    <3> QED
        BY <2>2, <3>1, <3>2, <3>3
  <2>3. CASE i = L + 1
      BY <2>3, <1>1
  <2> QED
      BY <1>0, <2>1, <2>2, <2>3
<1>9. SortedIsPostOrder'
    BY DEF SortedIsPostOrder, IsInjective, ChildrenFirst, Children
<1>10. RootsTaken'
    BY DEF RootsTaken, Push, TypeOK
<1>11. OnlyReachable'
  <2> SUFFICES ASSUME NEW S \in SUBSET Function, RootSet \subseteq S, Closed(next, Null, S)
               PROVE  n \in S
      BY DEF OnlyReachable, Push, RootSet, Closed, Children
  <2>1. CASE L = 0
      BY <2>1 DEF RootSet
  <2>2. CASE L > 0
    <3>1. stack[L].node \in S
        BY <2>2, <1>0 DEF OnlyReachable, Bookkeeping, OnStack
    <3>2. frames[L].child_idx \in DOMAIN next[stack[L].node]
        BY <2>2, <1>0, <1>b, <1>c
    <3>3. n \in Children(next, Null, stack[L].node)
        BY <2>2, <1>0, <3>2 DEF Children
    <3> QED
        BY <3>1, <3>3 DEF Closed
  <2> QED
      BY <1>0, <2>1, <2>2
<1>12. Outcome'
    BY DEF Outcome
<1> QED
    BY <1>5, <1>6, <1>7, <1>8, <1>9, <1>10, <1>11, <1>12

(* Advancing the top frame keeps the path; what it may break is            *)
(* PassedChildren, for the child that has just been passed.                *)
LEMMA AdvanceSeqFacts ==
    ASSUME IInv, HasNextChild
    PROVE  /\ Len(stack) \in Nat \ {0} /\ DOMAIN stack = 1 .. Len(stack)
           /\ Top \in Frame /\ Top.node \in Function /\ Top.child_idx \in Nat
           /\ Top.child_idx + 1 \in DOMAIN next[Top.node]
           /\ NextChild \in Function \cup {Null}
           /\ Advanced \in Seq(Frame) /\ Len(Advanced) = Len(stack)
           /\ DOMAIN Advanced = 1 .. Len(stack)
           /\ \A i \in 1 .. Len(stack) : Advanced[i].node = stack[i].node
           /\ \A i \in 1 .. Len(stack) : i < Len(stack) => Advanced[i] = stack[i]
           /\ Advanced[Len(stack)].child_idx = Top.child_idx + 1
<1> DEFINE L == Len(stack)
<1>1. L \in Nat \ {0} /\ DOMAIN stack = 1 .. L /\ stack \in Seq(Frame)
    BY DEF IInv, TypeOK, HasNextChild
<1>2. Top \in Frame
    BY <1>1 DEF Top
<1>3. Top.node \in Function /\ Top.child_idx \in Nat
    BY <1>2 DEF Frame
<1>4. next[Top.node] \in Seq(Function \cup {Null})
    BY <1>3 DEF IInv, TypeOK
<1>5. Top.child_idx + 1 \in DOMAIN next[Top.node]
    BY <1>3, <1>4 DEF HasNextChild
<1>6. NextChild \in Function \cup {Null}
    BY <1>4, <1>5 DEF NextChild
<1> DEFINE F == [stack[L] EXCEPT !.child_idx = @ + 1]
<1>7. F = [node |-> Top.node, child_idx |-> Top.child_idx + 1]
    BY <1>2 DEF Top, Frame
<1>8. Advanced = [i \in 1 .. L |-> IF i = L THEN F ELSE stack[i]]
    BY <1>1 DEF Advanced
<1>9. F \in Frame
    BY <1>3, <1>7 DEF Frame
<1>10. Advanced \in Seq(Frame) /\ Len(Advanced) = L /\ DOMAIN Advanced = 1 .. L
    BY <1>1, <1>8, <1>9
<1>11. \A i \in 1 .. L : Advanced[i].node = stack[i].node
    BY <1>1, <1>7, <1>8 DEF Top
<1>12. \A i \in 1 .. L : i < L => Advanced[i] = stack[i]
    BY <1>1, <1>8
<1>13. Advanced[L].child_idx = Top.child_idx + 1
    BY <1>1, <1>7, <1>8
<1> QED
    BY <1>1, <1>2, <1>3, <1>5, <1>6, <1>10, <1>11, <1>12, <1>13

(* SkipChild and DetectCycle change nothing but the top child_idx. *)
LEMMA AdvanceIInv ==
    ASSUME IInv, HasNextChild, stack' = Advanced,
           UNCHANGED <<next, roots, root_idx, visited, on_stack, sorted>>,
           status' \in {"running", "cycle"},
           status' = "running" => NextChild = Null \/ NextChild \in Sorted,
           status' = "cycle" => NextChild \in OnStack
    PROVE  IInv'
<1> DEFINE L == Len(stack)
<1>0. /\ L \in Nat \ {0} /\ DOMAIN stack = 1 .. L
      /\ Top.node \in Function /\ Top.child_idx \in Nat
      /\ Top.child_idx + 1 \in DOMAIN next[Top.node]
      /\ stack' \in Seq(Frame) /\ Len(stack') = L /\ DOMAIN stack' = 1 .. L
      /\ \A i \in 1 .. L : stack'[i].node = stack[i].node
      /\ \A i \in 1 .. L : i < L => stack'[i] = stack[i]
      /\ stack'[L].child_idx = Top.child_idx + 1
    BY AdvanceSeqFacts
<1>l. L \in Nat
    BY <1>0
<1>1. next' = next /\ Top = stack[L] /\ Top' = stack'[L] /\ status = "running"
    BY <1>0 DEF Top, HasNextChild
<1>2. OnStack' = OnStack /\ Sorted' = Sorted
  <2>1. OnStack = {stack[i].node : i \in 1 .. L}
      BY <1>0 DEF OnStack
  <2>2. OnStack' = {stack'[i].node : i \in 1 .. L}
      BY <1>0 DEF OnStack
  <2>3. Sorted' = Sorted
      BY DEF Sorted
  <2>4. \A i \in 1 .. L : stack'[i].node = stack[i].node
      BY <1>0
  <2> QED
      BY <2>1, <2>2, <2>3, <2>4
<1>3. TypeOK'
    BY <1>0 DEF IInv, TypeOK
<1>4. next[Top.node] \in Seq(Function \cup {Null})
    BY <1>0 DEF IInv, TypeOK
<1>5. StackIsPath'
  <2>1. \A i \in 1 .. L : stack'[i].child_idx <= Len(next[stack'[i].node])
    <3>1. \A i \in 1 .. L : i < L => stack'[i].child_idx <= Len(next[stack'[i].node])
        BY <1>0 DEF IInv, StackIsPath
    <3>2. stack'[L].child_idx <= Len(next[stack'[L].node])
        BY <1>0, <1>1, <1>4
    <3> QED
        BY <1>0, <3>1, <3>2
  <2>2. \A i, j \in 1 .. L : stack'[i].node = stack'[j].node => i = j
      BY <1>0 DEF IInv, StackIsPath
  <2>3. \A i \in 1 .. L : i < L =>
            /\ stack'[i].child_idx >= 1
            /\ next[stack'[i].node][stack'[i].child_idx] = stack'[i + 1].node
    <3> SUFFICES ASSUME NEW i \in 1 .. L, i < L
                 PROVE  /\ stack'[i].child_idx >= 1
                        /\ next[stack'[i].node][stack'[i].child_idx] = stack'[i + 1].node
        OBVIOUS
    <3>1. i + 1 \in 1 .. L /\ stack'[i] = stack[i] /\ stack'[i + 1].node = stack[i + 1].node
        BY <1>0
    <3> QED
        BY <3>1, <1>0 DEF IInv, StackIsPath
  <2> QED
      BY <1>0, <1>1, <2>1, <2>2, <2>3 DEF StackIsPath
<1>6. Bookkeeping'
    BY <1>2 DEF IInv, Bookkeeping
<1>p. DOMAIN stack' = 1 .. L /\ Len(stack') = L /\ next' = next /\ Sorted' = Sorted
    BY <1>0, <1>1, <1>2
<1>q. status' # "cycle" => status' = "running"
    OBVIOUS
<1>7. PassedChildren'
  <2> SUFFICES ASSUME status' = "running",
                      NEW i \in 1 .. L, NEW k \in 1 .. stack'[i].child_idx
               PROVE  LET c == next[stack'[i].node][k]
                      IN  c = Null \/ c \in Sorted \/ (i < L /\ c = stack'[i + 1].node)
      BY <1>p, <1>q DEF PassedChildren
  <2>1. CASE i < L
    <3>1. i + 1 \in 1 .. L /\ stack'[i] = stack[i] /\ stack'[i + 1].node = stack[i + 1].node
        BY <2>1, <1>0
    <3> QED
        BY <2>1, <3>1, <1>0, <1>1 DEF IInv, PassedChildren
  <2>2. CASE i = L
    <3>1. CASE k <= Top.child_idx
        BY <2>2, <3>1, <1>0, <1>1 DEF IInv, PassedChildren
    <3>2. CASE k = Top.child_idx + 1
        BY <2>2, <3>2, <1>0, <1>1 DEF NextChild
    <3> QED
        BY <2>2, <3>1, <3>2, <1>0
  <2>3. i < L \/ i = L
      BY <1>l
  <2> QED
      BY <2>1, <2>2, <2>3
<1>8. SortedIsPostOrder'
    BY DEF IInv, SortedIsPostOrder, IsInjective, ChildrenFirst, Children
<1>9. RootsTaken' /\ OnlyReachable'
    BY DEF IInv, RootsTaken, OnlyReachable, RootSet, Closed, Children
<1>10. Outcome'
  <2>1. status' # "done" /\ stack' # <<>>
      BY <1>0
  <2>2. status' = "cycle" => next[Top'.node][Top'.child_idx] \in OnStack
      BY <1>0, <1>1 DEF NextChild
  <2> QED
      BY <1>0, <1>1, <1>2, <2>1, <2>2 DEF Outcome
<1> QED
    BY <1>3, <1>5, <1>6, <1>7, <1>8, <1>9, <1>10 DEF IInv

LEMMA TakeRootIInv == IInv /\ TakeRoot => IInv'
<1> SUFFICES ASSUME IInv, TakeRoot PROVE IInv'
    OBVIOUS
<1> DEFINE r == roots[root_idx + 1]
<1>0. /\ root_idx \in Nat /\ root_idx + 1 \in 1 .. Len(roots) /\ Len(roots) \in Nat
      /\ DOMAIN roots = 1 .. Len(roots)
      /\ root_idx' = root_idx + 1 /\ r \in Function \cup {Null}
    BY DEF TakeRoot, IInv, TypeOK
<1>1. CASE r = Null \/ r \in visited
  <2>1. UNCHANGED <<next, roots, stack, visited, on_stack, sorted, status>>
      BY <1>1 DEF TakeRoot
  <2>2. TypeOK'
      BY <2>1, <1>0 DEF IInv, TypeOK
  <2>a. OnStack' = OnStack /\ Sorted' = Sorted
      BY <2>1 DEF OnStack, Sorted
  <2>b. StackIsPath' /\ Bookkeeping'
      BY <2>1, <2>a DEF IInv, StackIsPath, Bookkeeping
  <2>c. PassedChildren'
      BY <2>1, <2>a DEF IInv, PassedChildren
  <2>d. SortedIsPostOrder'
      BY <2>1 DEF IInv, SortedIsPostOrder, IsInjective, ChildrenFirst, Children
  <2>3. StackIsPath' /\ Bookkeeping' /\ PassedChildren' /\ SortedIsPostOrder'
      BY <2>b, <2>c, <2>d
  <2>4. RootsTaken'
      BY <2>1, <1>0, <1>1 DEF IInv, RootsTaken
  <2>5. OnlyReachable'
      BY <2>1 DEF IInv, OnlyReachable, RootSet, Closed, Children
  <2>6. Outcome'
      BY <2>1 DEF TakeRoot, Outcome
  <2> QED
      BY <2>2, <2>3, <2>4, <2>5, <2>6 DEF IInv
<1>2. CASE r # Null /\ r \notin visited
  <2>1. Push(<<>>, r) /\ UNCHANGED <<next, roots, sorted, status>> /\ status = "running"
      BY <1>2 DEF TakeRoot
  <2>2. PICK n : n = r
      OBVIOUS
  <2>3. n \in Function /\ n \notin visited /\ Push(<<>>, n)
      BY <1>0, <1>2, <2>1, <2>2
  <2>4. stack = <<>> /\ Len(stack) = 0 /\ DOMAIN stack = {}
      BY DEF TakeRoot
  <2>5. \E j \in DOMAIN roots : roots[j] = n
      BY <1>0, <2>2
  <2>6. \A j \in 1 .. root_idx' : j <= root_idx \/ roots[j] = n
      BY <1>0, <2>2
  <2>7. PICK frames : frames = <<>>
      OBVIOUS
  <2>9. /\ frames \in Seq(Frame) /\ Len(frames) = Len(stack)
        /\ \A i \in DOMAIN stack : frames[i].node = stack[i].node
        /\ \A i \in DOMAIN stack : i < Len(stack) => frames[i] = stack[i]
        /\ Push(frames, n) /\ ~(Len(stack) > 0)
      BY <2>3, <2>4, <2>7
  <2>8. root_idx' \in 0 .. Len(roots)
      BY <1>0
  <2> QED
      BY <2>1, <2>3, <2>5, <2>6, <2>8, <2>9, PushIInv
<1> QED
    BY <1>1, <1>2

LEMMA DescendChildIInv == IInv /\ DescendChild => IInv'
<1> SUFFICES ASSUME IInv, DescendChild PROVE IInv'
    OBVIOUS
<1>1. PICK frames : frames = Advanced
    OBVIOUS
<1>2. PICK n : n = NextChild
    OBVIOUS
<1> DEFINE L == Len(stack)
<1>3. HasNextChild /\ Push(frames, n) /\ n # Null /\ n \notin visited
    BY <1>1, <1>2 DEF DescendChild
<1>4. UNCHANGED <<next, roots, root_idx, sorted, status>> /\ status = "running"
    BY DEF DescendChild, HasNextChild
<1>5. /\ L \in Nat \ {0} /\ DOMAIN stack = 1 .. L
      /\ Top.node \in Function /\ Top.child_idx \in Nat
      /\ Top.child_idx + 1 \in DOMAIN next[Top.node]
      /\ n \in Function \cup {Null}
      /\ frames \in Seq(Frame) /\ Len(frames) = L
      /\ \A i \in 1 .. L : frames[i].node = stack[i].node
      /\ \A i \in 1 .. L : i < L => frames[i] = stack[i]
      /\ frames[L].child_idx = Top.child_idx + 1
    BY <1>1, <1>2, <1>3, AdvanceSeqFacts
<1>6. Top = stack[L] /\ next[Top.node][Top.child_idx + 1] = n
    BY <1>2 DEF Top, NextChild
<1>7. next[Top.node] \in Seq(Function \cup {Null})
    BY <1>5 DEF IInv, TypeOK
<1>8. /\ frames[L].child_idx = stack[L].child_idx + 1
      /\ frames[L].child_idx <= Len(next[stack[L].node])
      /\ next[stack[L].node][frames[L].child_idx] = n
    BY <1>5, <1>6, <1>7
<1>9. root_idx' \in 0 .. Len(roots) /\ \A i \in 1 .. root_idx' : i <= root_idx \/ roots[i] = n
    BY <1>4 DEF IInv, TypeOK
<1>10. n \in Function
    BY <1>3, <1>5
<1>11. UNCHANGED <<next, roots, sorted, status>>
    BY <1>4
<1> HIDE DEF Push
<1> QED
    BY <1>3, <1>4, <1>5, <1>8, <1>9, <1>10, <1>11, PushIInv

LEMMA EmitNodeIInv == IInv /\ EmitNode => IInv'
<1> SUFFICES ASSUME IInv, EmitNode PROVE IInv'
    OBVIOUS
<1> DEFINE L == Len(stack)
           M == Len(sorted)
           n == Top.node
<1>0. /\ L \in Nat \ {0} /\ DOMAIN stack = 1 .. L /\ stack \in Seq(Frame)
      /\ M \in Nat /\ DOMAIN sorted = 1 .. M /\ sorted \in Seq(Function)
      /\ UNCHANGED <<next, roots, root_idx, visited, status>> /\ status = "running"
    BY DEF IInv, TypeOK, EmitNode
<1>l. L \in Nat /\ L > 0 /\ M \in Nat
    BY <1>0
<1>1. stack[L] \in Frame /\ Top = stack[L]
    BY <1>0 DEF Top
<1>2. n \in Function /\ Top.child_idx \in Nat
    BY <1>1 DEF Frame
<1>3. /\ stack' \in Seq(Frame) /\ Len(stack') = L - 1 /\ DOMAIN stack' = 1 .. L - 1
      /\ \A i \in 1 .. L - 1 : stack'[i] = stack[i]
    BY <1>0 DEF EmitNode
<1>4. /\ sorted' \in Seq(Function) /\ DOMAIN sorted' = 1 .. M + 1
      /\ sorted'[M + 1] = n /\ \A p \in 1 .. M : sorted'[p] = sorted[p]
    BY <1>0, <1>2 DEF EmitNode
<1>5. TypeOK'
    BY <1>0, <1>3, <1>4 DEF IInv, TypeOK, EmitNode
<1>6. Sorted' = Sorted \cup {n}
  <2>1. \A x \in Sorted' : x \in Sorted \cup {n}
    <3> SUFFICES ASSUME NEW p \in 1 .. M + 1 PROVE sorted'[p] \in Sorted \cup {n}
        BY <1>4 DEF Sorted
    <3>1. p \in 1 .. M \/ p = M + 1
        BY <1>l
    <3> QED
        BY <3>1, <1>0, <1>4 DEF Sorted
  <2>2. \A x \in Sorted : x \in Sorted'
      BY <1>0, <1>4 DEF Sorted
  <2>3. n \in Sorted'
      BY <1>0, <1>4 DEF Sorted
  <2> QED
      BY <2>1, <2>2, <2>3
<1>7. OnStack' = OnStack \ {n} /\ n \in OnStack
  <2>1. \A x \in OnStack' : x \in OnStack
      BY <1>0, <1>3 DEF OnStack
  <2>2. n \in OnStack
    <3>1. L \in DOMAIN stack /\ n = stack[L].node
        BY <1>0, <1>1 DEF Top
    <3> QED
        BY <3>1 DEF OnStack
  <2>3. n \notin OnStack'
    <3> SUFFICES ASSUME NEW i \in 1 .. L - 1 PROVE stack[i].node # n
        BY <1>3 DEF OnStack
    <3>1. i \in 1 .. L /\ L \in 1 .. L /\ i # L
        BY <1>l
    <3> QED
        BY <3>1, <1>0, <1>1 DEF IInv, StackIsPath
  <2>4. \A x \in OnStack : x # n => x \in OnStack'
    <3> SUFFICES ASSUME NEW i \in 1 .. L, stack[i].node # n PROVE stack[i].node \in OnStack'
        BY <1>0 DEF OnStack
    <3>1. i \in 1 .. L - 1
        BY <1>0, <1>1
    <3> QED
        BY <3>1, <1>3 DEF OnStack
  <2> QED
      BY <2>1, <2>2, <2>3, <2>4
<1>8. StackIsPath'
  <2>1. \A i \in 1 .. L - 1 : stack'[i].child_idx <= Len(next[stack'[i].node])
      BY <1>0, <1>3 DEF IInv, StackIsPath
  <2>2. \A i, j \in 1 .. L - 1 : stack'[i].node = stack'[j].node => i = j
    <3>1. \A i, j \in 1 .. L : stack[i].node = stack[j].node => i = j
        BY <1>0 DEF IInv, StackIsPath
    <3>2. \A i \in 1 .. L - 1 : i \in 1 .. L /\ stack'[i] = stack[i]
        BY <1>l, <1>3
    <3> QED
        BY <3>1, <3>2
  <2>3. \A i \in 1 .. L - 1 : i < L - 1 =>
            /\ stack'[i].child_idx >= 1
            /\ next[stack'[i].node][stack'[i].child_idx] = stack'[i + 1].node
    <3> SUFFICES ASSUME NEW i \in 1 .. L - 1, i < L - 1
                 PROVE  /\ stack'[i].child_idx >= 1
                        /\ next[stack'[i].node][stack'[i].child_idx] = stack'[i + 1].node
        OBVIOUS
    <3>1. i + 1 \in 1 .. L - 1 /\ i \in 1 .. L /\ i < L
        BY <1>0
    <3> QED
        BY <3>1, <1>0, <1>3 DEF IInv, StackIsPath
  <2> QED
      BY <1>0, <1>3, <2>1, <2>2, <2>3 DEF StackIsPath
<1>9. Bookkeeping'
    BY <1>0, <1>6, <1>7 DEF IInv, Bookkeeping, EmitNode
<1>10. PassedChildren'
  <2> SUFFICES ASSUME NEW i \in 1 .. L - 1, NEW k \in 1 .. stack[i].child_idx
               PROVE  LET c == next[stack[i].node][k]
                      IN  c = Null \/ c \in Sorted' \/ (i < L - 1 /\ c = stack'[i + 1].node)
      BY <1>0, <1>3 DEF PassedChildren
  <2>1. i \in DOMAIN stack /\ i < L /\ i + 1 \in 1 .. L
      BY <1>0
  <2>2. \/ next[stack[i].node][k] = Null
        \/ next[stack[i].node][k] \in Sorted
        \/ next[stack[i].node][k] = stack[i + 1].node
      BY <2>1, <1>0 DEF IInv, PassedChildren
  <2>3. CASE next[stack[i].node][k] = stack[i + 1].node /\ i = L - 1
      BY <2>3, <1>0, <1>1, <1>6
  <2>4. CASE next[stack[i].node][k] = stack[i + 1].node /\ i < L - 1
    <3>1. i + 1 \in 1 .. L - 1
        BY <2>4, <1>0
    <3> QED
        BY <2>4, <3>1, <1>3
  <2>5. i = L - 1 \/ i < L - 1
      BY <1>l
  <2> QED
      BY <2>2, <2>3, <2>4, <2>5, <1>6
<1>11. SortedIsPostOrder'
  <2>1. IsInjective(sorted')
    <3>1. \A p \in 1 .. M : sorted[p] # n
        BY <1>0, <1>7 DEF IInv, Bookkeeping, Sorted
    <3>2. \A p, q \in 1 .. M : sorted[p] = sorted[q] => p = q
        BY <1>0 DEF IInv, SortedIsPostOrder, IsInjective
    <3> QED
        BY <3>1, <3>2, <1>0, <1>4 DEF IsInjective
  <2>2. ASSUME NEW p \in 1 .. M + 1, NEW c \in Children(next, Null, sorted'[p])
        PROVE  \E q \in 1 .. M + 1 : q < p /\ sorted'[q] = c
    <3>1. CASE p \in 1 .. M
      <4>1. PICK q \in 1 .. M : q < p /\ sorted[q] = c
          BY <2>2, <3>1, <1>0, <1>4 DEF IInv, SortedIsPostOrder, ChildrenFirst
      <4> QED
          BY <4>1, <1>0, <1>4
    <3>2. CASE p = M + 1
      <4>a. next[n] \in Seq(Function \cup {Null})
          BY <1>2 DEF IInv, TypeOK
      <4>b. L \in DOMAIN stack
          BY <1>0, <1>l
      <4>c. Top.child_idx <= Len(next[n])
          BY <4>b, <1>1 DEF IInv, StackIsPath
      <4>d. Top.child_idx >= Len(next[n])
          BY DEF EmitNode, AllChildrenVisited
      <4>1. next[n] \in Seq(Function \cup {Null}) /\ Top.child_idx = Len(next[n])
          BY <4>a, <4>c, <4>d, <1>2
      <4>2. PICK k \in DOMAIN next[n] : c = next[n][k]
          BY <2>2, <3>2, <1>4 DEF Children
      <4>3. c # Null /\ k \in 1 .. Top.child_idx
          BY <2>2, <3>2, <1>4, <4>1, <4>2 DEF Children
      <4>4. c \in Sorted
        <5>1. \/ next[stack[L].node][k] = Null
              \/ next[stack[L].node][k] \in Sorted
              \/ L < L
            BY <4>b, <4>3, <1>0, <1>1 DEF IInv, PassedChildren
        <5> QED
            BY <5>1, <4>2, <4>3, <1>1, <1>l
      <4>5. PICK q \in 1 .. M : sorted[q] = c
          BY <4>4, <1>0 DEF Sorted
      <4> QED
          BY <4>5, <3>2, <1>0, <1>4
    <3> QED
        BY <3>1, <3>2, <1>0
  <2>3. ChildrenFirst(next', Null, sorted')
      BY <2>2, <1>0, <1>4 DEF ChildrenFirst
  <2> QED
      BY <2>1, <2>3 DEF SortedIsPostOrder
<1>12. RootsTaken' /\ OnlyReachable'
    BY <1>0 DEF IInv, RootsTaken, OnlyReachable, RootSet, Closed, Children
<1>13. Outcome'
    BY <1>0 DEF Outcome
<1> QED
    BY <1>5, <1>8, <1>9, <1>10, <1>11, <1>12, <1>13 DEF IInv

LEMMA StepIInv == IInv /\ [Next]_vars => IInv'
<1> SUFFICES ASSUME IInv, [Next]_vars PROVE IInv'
    OBVIOUS
<1>1. CASE TakeRoot
    BY <1>1, TakeRootIInv
<1>2. CASE SkipChild
  <2>1. HasNextChild /\ stack' = Advanced /\ status' = "running" /\ status = "running"
      BY <1>2 DEF SkipChild, HasNextChild
  <2>2. NextChild = Null \/ NextChild \in Sorted
      BY <1>2 DEF SkipChild, IInv, Bookkeeping
  <2>3. UNCHANGED <<next, roots, root_idx, visited, on_stack, sorted>>
      BY <1>2 DEF SkipChild
  <2> QED
      BY <2>1, <2>2, <2>3, AdvanceIInv
<1>3. CASE DetectCycle
  <2>1. HasNextChild /\ stack' = Advanced /\ status' = "cycle"
      BY <1>3 DEF DetectCycle
  <2>2. NextChild \in OnStack
      BY <1>3 DEF DetectCycle, IInv, Bookkeeping
  <2>3. UNCHANGED <<next, roots, root_idx, visited, on_stack, sorted>>
      BY <1>3 DEF DetectCycle
  <2> QED
      BY <2>1, <2>2, <2>3, AdvanceIInv
<1>4. CASE DescendChild
    BY <1>4, DescendChildIInv
<1>5. CASE EmitNode
    BY <1>5, EmitNodeIInv
<1>6. CASE UNCHANGED <<next, roots, root_idx, stack, visited, on_stack, sorted>>
           /\ (status' = status \/ Return)
  <2>a. OnStack' = OnStack /\ Sorted' = Sorted
      BY <1>6 DEF OnStack, Sorted
  <2>1. TypeOK'
      BY <1>6 DEF IInv, TypeOK, Return
  <2>2. StackIsPath' /\ Bookkeeping'
      BY <1>6, <2>a DEF IInv, StackIsPath, Bookkeeping
  <2>3. PassedChildren'
      BY <1>6, <2>a DEF IInv, PassedChildren, Return
  <2>4. SortedIsPostOrder'
      BY <1>6 DEF IInv, SortedIsPostOrder, IsInjective, ChildrenFirst, Children
  <2>5. RootsTaken' /\ OnlyReachable'
      BY <1>6 DEF IInv, RootsTaken, OnlyReachable, RootSet, Closed, Children
  <2>6. Outcome'
      BY <1>6, <2>a DEF IInv, Outcome, Return, Top
  <2> QED
      BY <2>1, <2>2, <2>3, <2>4, <2>5, <2>6 DEF IInv
<1>7. Return => UNCHANGED <<next, roots, root_idx, stack, visited, on_stack, sorted>>
    BY DEF Return
<1> QED
    BY <1>1, <1>2, <1>3, <1>4, <1>5, <1>6, <1>7 DEF Next, vars

LEMMA Invariant == Spec => []IInv
<1> QED
    BY InitIInv, StepIInv, PTL DEF Spec

(* The sort's state is always well formed. *)
THEOREM TypeCorrect == Spec => []TypeOK
<1>1. IInv => TypeOK
    BY DEF IInv
<1> QED
    BY <1>1, Invariant, PTL

(* On every graph the sorted part has each Function once, after its        *)
(* children: the order execute() relies on (engine.cpp 437, 890-894).      *)
THEOREM PostOrder == Spec => []SortedIsPostOrder
<1>1. IInv => SortedIsPostOrder
    BY DEF IInv
<1> QED
    BY <1>1, Invariant, PTL

(* A visited Function is reachable: it is in every closed set that holds   *)
(* the roots.                                                              *)
LEMMA VisitedReachable ==
    ASSUME IInv PROVE visited \subseteq ReachableFrom(next, Null, RootSet)
<1>1. DOMAIN next = Function /\ visited \subseteq Function
    BY DEF IInv, TypeOK
<1> QED
    BY <1>1 DEF IInv, OnlyReachable, ReachableFrom

(* A sort that returns has sorted exactly what is below its roots, so no   *)
(* Function's gradient is dropped and none outside the graph is run.       *)
THEOREM ExactlyReachable == Spec => []SortsExactlyReachable
<1>1. ASSUME IInv, status = "done"
      PROVE  Sorted = ReachableFrom(next, Null, RootSet)
  <2>1. stack = <<>> /\ root_idx = Len(roots) /\ DOMAIN stack = {}
      BY <1>1 DEF IInv, Outcome
  <2>2. OnStack = {} /\ visited = Sorted
      BY <1>1, <2>1 DEF IInv, Bookkeeping, OnStack
  <2>3. RootSet \subseteq Sorted
    <3>1. DOMAIN roots = 1 .. root_idx
        BY <1>1, <2>1 DEF IInv, TypeOK
    <3> QED
        BY <1>1, <2>2, <3>1 DEF IInv, RootsTaken, RootSet
  <2>4. Closed(next, Null, Sorted)
      BY <1>1 DEF IInv, SortedIsPostOrder, ChildrenFirst, Closed, Sorted
  <2>5. Sorted \subseteq Function /\ DOMAIN next = Function
      BY <1>1, <2>2 DEF IInv, TypeOK
  <2>6. ReachableFrom(next, Null, RootSet) \subseteq Sorted
      BY <2>3, <2>4, <2>5 DEF ReachableFrom
  <2> QED
      BY <1>1, <2>2, <2>6, VisitedReachable
<1>2. IInv => SortsExactlyReachable
    BY <1>1 DEF SortsExactlyReachable, Sorted
<1> QED
    BY <1>2, Invariant, PTL

(* "Cycle detected" is thrown only for a real cycle below the roots. *)
THEOREM CycleTruth == Spec => []CycleReportIsTrue
<1>1. ASSUME IInv, status = "cycle"
      PROVE  HasCycleIn(next, Null, ReachableFrom(next, Null, RootSet))
  <2> DEFINE L == Len(stack)
  <2>1. /\ L \in Nat \ {0} /\ DOMAIN stack = 1 .. L
        /\ Top = stack[L] /\ stack[L].child_idx >= 1
        /\ next[stack[L].node][stack[L].child_idx] \in OnStack
      BY <1>1 DEF IInv, TypeOK, Outcome, Top
  <2>2. PICK k \in 1 .. L : stack[k].node = next[stack[L].node][stack[L].child_idx]
      BY <2>1 DEF OnStack
  <2>a. L \in Nat /\ k \in Nat
      BY <2>1, <2>2
  <2> DEFINE C == {stack[i].node : i \in k .. L}
  <2>3. \A i \in k .. L : /\ i \in 1 .. L /\ stack[i] \in Frame
                          /\ stack[i].node \in Function /\ stack[i].node \in visited
    <3>1. \A i \in k .. L : i \in 1 .. L
        BY <2>1, <2>2
    <3>2. \A i \in 1 .. L : stack[i] \in Frame
        BY <1>1, <2>1 DEF IInv, TypeOK
    <3>3. \A i \in 1 .. L : stack[i].node \in visited
        BY <1>1, <2>1 DEF IInv, Bookkeeping, OnStack
    <3> QED
        BY <3>1, <3>2, <3>3 DEF Frame
  <2>4. C # {} /\ C \subseteq ReachableFrom(next, Null, RootSet)
    <3>1. L \in k .. L
        BY <2>1, <2>2
    <3> QED
        BY <1>1, <2>3, <3>1, VisitedReachable
  <2>5. ASSUME NEW i \in k .. L
        PROVE  Children(next, Null, stack[i].node) \cap C # {}
    <3> DEFINE c == next[stack[i].node][stack[i].child_idx]
    <3>1. stack[i].child_idx \in Nat /\ stack[i].child_idx <= Len(next[stack[i].node])
        BY <1>1, <2>1, <2>3 DEF IInv, StackIsPath, Frame
    <3>2. i < L \/ i = L
        BY <2>a
    <3>3. stack[i].child_idx >= 1 /\ c \in C
      <4>1. CASE i = L
        <5>1. k \in k .. L
            BY <2>1, <2>2
        <5> QED
            BY <4>1, <5>1, <2>1, <2>2
      <4>2. CASE i < L
        <5>1. i + 1 \in k .. L /\ i \in DOMAIN stack
            BY <4>2, <2>1, <2>2, <2>3
        <5>2. stack[i].child_idx >= 1 /\ c = stack[i + 1].node
            BY <4>2, <5>1, <1>1 DEF IInv, StackIsPath
        <5> QED
            BY <5>1, <5>2
      <4> QED
          BY <3>2, <4>1, <4>2
    <3>4. next[stack[i].node] \in Seq(Function \cup {Null})
        BY <1>1, <2>3 DEF IInv, TypeOK
    <3>5. stack[i].child_idx \in DOMAIN next[stack[i].node]
        BY <3>1, <3>3, <3>4
    <3>6. c # Null
        BY <3>3, <2>3
    <3>7. c \in Children(next, Null, stack[i].node)
        BY <3>5, <3>6 DEF Children
    <3> QED
        BY <3>3, <3>7
  <2>6. \A n \in C : Children(next, Null, n) \cap C # {}
      BY <2>5
  <2> HIDE DEF C
  <2> QED
      BY <2>4, <2>6 DEF HasCycleIn
<1>2. IInv => CycleReportIsTrue
    BY <1>1 DEF CycleReportIsTrue
<1> QED
    BY <1>2, Invariant, PTL
-----------------------------------------------------------------------------
(* A finished sort is one of the topological orders: a bijection from its  *)
(* positions to what is reachable.                                         *)
LEMMA SortedIsAnOrder ==
    ASSUME NEW nx, NEW R, NEW s \in Seq(Function), IsInjective(s), ChildrenFirst(nx, Null, s),
           {s[p] : p \in DOMAIN s} = ReachableFrom(nx, Null, R)
    PROVE  s \in TopologicalOrders(nx, Null, R)
<1>1. PICK S : S = ReachableFrom(nx, Null, R)
    OBVIOUS
<1>2. Len(s) \in Nat /\ DOMAIN s = 1 .. Len(s) /\ {s[p] : p \in DOMAIN s} = S
    BY <1>1
<1>4. s \in [1 .. Len(s) -> S]
    BY <1>2
<1>5. \A p, q \in 1 .. Len(s) : s[p] = s[q] => p = q
    BY <1>2 DEF IsInjective
<1>6. \A x \in S : \E p \in 1 .. Len(s) : s[p] = x
    BY <1>2
<1>7. s \in Bijection(1 .. Len(s), S)
    BY <1>4, <1>5, <1>6 DEF Bijection, Injection, Surjection, IsInjective
<1>8. IsFiniteSet(1 .. Len(s)) /\ Cardinality(1 .. Len(s)) = Len(s)
  <2>1. 1 \in Int /\ Len(s) \in Int
      BY <1>2
  <2>2. /\ IsFiniteSet(1 .. Len(s))
        /\ Cardinality(1 .. Len(s)) = IF 1 > Len(s) THEN 0 ELSE Len(s) - 1 + 1
      BY <2>1, FS_Interval
  <2> QED
      BY <1>2, <2>2
<1>9. Cardinality(S) = Len(s)
    BY <1>7, <1>8, FS_Bijection DEF ExistsBijection
<1> QED
    BY <1>1, <1>4, <1>9 DEF TopologicalOrders

(* The loop, iteration by iteration, implements the contract that the      *)
(* engine's walk is built on: nothing visible happens until it returns one *)
(* of the topological orders, or throws because of a real cycle.           *)
THEOREM ImplementsContract == Spec => ContractSpec
<1>1. Init => Abstract!Init
    BY DEF Init, Abstract!Init
<1>2. ASSUME IInv, SortsExactlyReachable', CycleReportIsTrue', [Next]_vars
      PROVE  [Abstract!Next]_(Abstract!vars)
  <2>1. CASE TakeRoot \/ SkipChild \/ DescendChild \/ EmitNode
    <3>1. UNCHANGED <<next, roots, status>> /\ status = "running"
        BY <2>1 DEF TakeRoot, SkipChild, DescendChild, EmitNode, HasNextChild
    <3> QED
        BY <3>1 DEF Abstract!vars
  <2>2. CASE DetectCycle
    <3>1. /\ UNCHANGED <<next, roots>> /\ status = "running" /\ status' = "cycle"
        BY <2>2 DEF DetectCycle, HasNextChild
    <3>2. HasCycleIn(next, Null, ReachableFrom(next, Null, RootSet))
        BY <1>2, <3>1 DEF CycleReportIsTrue, RootSet
    <3>3. Abstract!Throw
        BY <3>1, <3>2 DEF Abstract!Throw, Abstract!RootSet, RootSet, Abstract!HasCycleIn, HasCycleIn,
           Abstract!ReachableFrom, ReachableFrom, Abstract!Closed, Closed,
           Abstract!Children, Children
    <3> QED
        BY <3>3 DEF Abstract!Next
  <2>3. CASE Return
    <3>1. /\ UNCHANGED <<next, roots, sorted>> /\ status = "running" /\ status' = "done"
        BY <2>3 DEF Return
    <3>2. {sorted[p] : p \in DOMAIN sorted} = ReachableFrom(next, Null, RootSet)
        BY <1>2, <3>1 DEF SortsExactlyReachable, RootSet
    <3>3. sorted \in TopologicalOrders(next, Null, RootSet)
        BY <1>2, <3>2, SortedIsAnOrder DEF IInv, TypeOK, SortedIsPostOrder
    <3>4. Abstract!TopologicalOrders(next, Null, RootSet) = TopologicalOrders(next, Null, RootSet)
      <4>1. Abstract!ReachableFrom(next, Null, RootSet) = ReachableFrom(next, Null, RootSet)
          BY DEF Abstract!ReachableFrom, ReachableFrom, Abstract!Closed, Closed,
                 Abstract!Children, Children
      <4>2. \A s : Abstract!ChildrenFirst(next, Null, s) <=> ChildrenFirst(next, Null, s)
          BY DEF Abstract!ChildrenFirst, ChildrenFirst, Abstract!Children, Children
      <4>3. \A s : Abstract!IsInjective(s) <=> IsInjective(s)
          BY DEF Abstract!IsInjective, IsInjective
      <4>4. \A S : Abstract!Cardinality(S) = Cardinality(S)
          BY DEF Abstract!Cardinality, Cardinality
      <4> QED
          BY <4>1, <4>2, <4>3, <4>4 DEF Abstract!TopologicalOrders, TopologicalOrders
    <3>5. Abstract!RootSet = RootSet
        BY DEF Abstract!RootSet, RootSet
    <3>6. Abstract!Sort
        BY <3>1, <3>3, <3>4, <3>5 DEF Abstract!Sort
    <3> QED
        BY <3>6 DEF Abstract!Next
  <2>4. CASE UNCHANGED vars
      BY <2>4 DEF vars, Abstract!vars
  <2> QED
      BY <1>2, <2>1, <2>2, <2>3, <2>4 DEF Next
<1> QED
    BY <1>1, <1>2, Invariant, ExactlyReachable, CycleTruth, PTL
       DEF Spec, ContractSpec, Abstract!Spec
=============================================================================
