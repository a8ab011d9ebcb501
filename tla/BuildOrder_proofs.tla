-------------------------- MODULE BuildOrder_proofs --------------------------
(***************************************************************************)
(* The order of a run with --order puts requirements first, for any spec   *)
(* files, any requirements between them, cyclic ones included, and any     *)
(* list of them.                                                           *)
(***************************************************************************)
EXTENDS BuildOrder, TLAPS

\* What is processed has its place in the order.
ProcessedIsPlaced ==
    \A s \in SpecFile : color[s] = 2 => \E j \in DOMAIN orders : orders[j] = s

\* What is being processed is on the stack.
ProcessingIsStacked ==
    \A s \in SpecFile : color[s] = 1 => \E k \in DOMAIN stack : stack[k].spec = s

\* A call has still to look at some of its requirements; the others are
\* processed, but for the one whose call is the next on the stack.
CallsProgress ==
    \A k \in DOMAIN stack :
        /\ stack[k].todo \subseteq requires[stack[k].spec]
        /\ \A r \in requires[stack[k].spec] \ stack[k].todo :
              \/ color[r] = 2
              \/ k < Len(stack) /\ stack[k + 1].spec = r

\* Everything above a call on the stack is what its spec file leads to.  It is
\* stated for closed sets, which needs no notion of a path.
StackIsPath ==
    \A k, m \in DOMAIN stack : k < m =>
        \A S \in SUBSET SpecFile :
            requires[stack[k].spec] \subseteq S /\ Closed(S) => stack[m].spec \in S

OrderInv ==
    /\ OrderTypeOK
    /\ ProcessedIsPlaced
    /\ ProcessingIsStacked
    /\ CallsProgress
    /\ StackIsPath
    /\ RequirementsFirst

-----------------------------------------------------------------------------
(* Before the search anything holds.                                       *)
LEMMA OrderStarts ==
  ASSUME requires \in [SpecFile -> SUBSET SpecFile], specs \in Seq(SpecFile),
         nextspec \in Nat, stack = <<>>, color = [s \in SpecFile |-> 0], orders = <<>>
  PROVE  OrderInv
<1>1. DOMAIN stack = {} /\ DOMAIN orders = {}
  OBVIOUS
<1>2. OrderTypeOK
  BY DEF OrderTypeOK
<1> QED  BY <1>1, <1>2 DEF OrderInv, ProcessedIsPlaced, ProcessingIsStacked, CallsProgress,
                          StackIsPath, RequirementsFirst

(* A spec file that is not on a cycle may be appended to the order when    *)
(* all it requires is processed.                                           *)
LEMMA OrderGrows ==
  ASSUME OrderInv, NEW s \in SpecFile, UNCHANGED requires, orders' = Append(orders, s),
         OnCycle(s) \/ \A r \in requires[s] : color[r] = 2
  PROVE  /\ RequirementsFirst'
         /\ orders' \in Seq(SpecFile)
         /\ \A t \in SpecFile : t = s \/ color[t] = 2 => \E j \in DOMAIN orders' : orders'[j] = t
<1>1. orders \in Seq(SpecFile)
  BY DEF OrderInv, OrderTypeOK
<1>2. /\ orders' \in Seq(SpecFile)
      /\ DOMAIN orders' = 1..(Len(orders) + 1) /\ DOMAIN orders = 1..Len(orders)
      /\ orders'[Len(orders) + 1] = s
      /\ \A j \in DOMAIN orders : orders'[j] = orders[j]
  BY <1>1
<1>3. ASSUME NEW i \in DOMAIN orders', ~OnCycle(orders[i])'
      PROVE  ~OnCycle(orders'[i])
  BY <1>3 DEF OnCycle, Closed
<1>4. ASSUME NEW i \in DOMAIN orders', ~OnCycle(orders[i])', NEW r \in requires'[orders'[i]]
      PROVE  \E j \in 1..(i - 1) : orders'[j] = r
  <2>1. orders'[i] \in SpecFile
    BY <1>2
  <2>2. ~OnCycle(orders'[i])
    BY <1>3, <1>4
  <2>3. CASE i \in DOMAIN orders
    <3>1. PICK j \in 1..(i - 1) : orders[j] = r
      BY <1>2, <1>4, <2>2, <2>3 DEF OrderInv, RequirementsFirst
    <3>2. j \in DOMAIN orders
      BY <1>2, <2>3, <3>1
    <3> QED  BY <1>2, <3>1, <3>2
  <2>4. CASE i = Len(orders) + 1
    <3>1. color[r] = 2 /\ r \in SpecFile
      BY <1>2, <1>4, <2>2, <2>4 DEF OrderInv, OrderTypeOK
    <3>2. PICK j \in DOMAIN orders : orders[j] = r
      BY <3>1 DEF OrderInv, ProcessedIsPlaced
    <3> QED  BY <1>2, <2>4, <3>2
  <2> QED  BY <1>2, <2>3, <2>4
<1>5. RequirementsFirst'
  BY <1>4 DEF RequirementsFirst
<1>6. ASSUME NEW t \in SpecFile, t = s \/ color[t] = 2
      PROVE  \E j \in DOMAIN orders' : orders'[j] = t
  <2>1. CASE t = s
    BY <1>2, <2>1, <1>1
  <2>2. CASE color[t] = 2
    BY <1>2, <2>2 DEF OrderInv, ProcessedIsPlaced
  <2> QED  BY <1>6, <2>1, <2>2
<1> QED  BY <1>2, <1>5, <1>6

(* The order is not touched: what can be read from it stays.               *)
LEMMA OrderStays ==
  ASSUME OrderInv, UNCHANGED <<requires, orders>>
  PROVE  RequirementsFirst'
BY DEF OrderInv, RequirementsFirst, OnCycle, Closed

(* The loop takes the next spec file.                                      *)
LEMMA NextSpecKeeps ==
  ASSUME OrderInv, NextSpec
  PROVE  OrderInv'
<1> DEFINE s == specs[nextspec]
<1>1. stack = <<>> /\ s \in SpecFile /\ UNCHANGED <<requires, specs, orders>> /\ nextspec' \in Nat
  BY DEF NextSpec, OrderInv, OrderTypeOK
<1>2. RequirementsFirst'
  BY <1>1, OrderStays
<1>3. CASE color[s] = 0
  <2>1. stack' = <<Call(s)>> /\ color' = [color EXCEPT ![s] = 1]
    BY <1>3 DEF NextSpec
  <2>2. Call(s) \in Frame
    BY <1>1 DEF Call, Frame, OrderInv, OrderTypeOK
  <2>3. DOMAIN stack' = {1} /\ stack'[1] = Call(s) /\ stack' \in Seq(Frame) /\ Len(stack') = 1
    BY <2>1, <2>2
  <2>4. OrderTypeOK'
    BY <1>1, <2>1, <2>3 DEF OrderInv, OrderTypeOK
  <2>5. ProcessedIsPlaced'
    BY <1>1, <2>1 DEF OrderInv, OrderTypeOK, ProcessedIsPlaced
  <2>6. ProcessingIsStacked'
    <3>1. \A t \in SpecFile : color'[t] = 1 => t = s
      BY <1>1, <2>1 DEF OrderInv, OrderTypeOK, ProcessingIsStacked
    <3> QED  BY <2>3, <3>1 DEF ProcessingIsStacked, Call
  <2>7. CallsProgress'
    BY <1>1, <2>3 DEF CallsProgress, Call
  <2>8. StackIsPath'
    BY <2>3 DEF StackIsPath
  <2> QED  BY <1>2, <2>4, <2>5, <2>6, <2>7, <2>8 DEF OrderInv
<1>4. CASE color[s] # 0
  BY <1>1, <1>2, <1>4 DEF NextSpec, OrderInv, OrderTypeOK, ProcessedIsPlaced, ProcessingIsStacked,
                          CallsProgress, StackIsPath
<1> QED  BY <1>3, <1>4

-----------------------------------------------------------------------------
(* A call on the stack is one of a spec file.                              *)
LEMMA CallType ==
  ASSUME OrderInv, NEW k \in DOMAIN stack
  PROVE  /\ stack[k] \in Frame /\ stack[k].spec \in SpecFile
         /\ requires[stack[k].spec] \subseteq SpecFile
<1>1. stack[k] \in Frame /\ requires \in [SpecFile -> SUBSET SpecFile]
  BY DEF OrderInv, OrderTypeOK
<1>2. stack[k].spec \in SpecFile
  BY <1>1 DEF Frame
<1> QED  BY <1>1, <1>2

(* What looking at one requirement makes of the top call.                  *)
LEMMA TopCall ==
  ASSUME OrderInv, stack # <<>>, NEW s \in Top.todo
  PROVE  LET n == Len(stack) IN
         /\ n \in Nat \ {0} /\ DOMAIN stack = 1..n /\ Top = stack[n]
         /\ s \in SpecFile /\ s \in requires[stack[n].spec]
         /\ Without(s) \in Seq(Frame) /\ Len(Without(s)) = n
         /\ \A k \in 1..n : Without(s)[k].spec = stack[k].spec
         /\ \A k \in 1..(n - 1) : Without(s)[k] = stack[k]
         /\ Without(s)[n].todo = stack[n].todo \ {s}
<1>1. stack \in Seq(Frame) /\ requires \in [SpecFile -> SUBSET SpecFile]
  BY DEF OrderInv, OrderTypeOK
<1>2. Len(stack) \in Nat \ {0} /\ DOMAIN stack = 1..Len(stack) /\ Top = stack[Len(stack)]
  BY <1>1 DEF Top
<1>3. stack[Len(stack)] \in Frame
  BY <1>1, <1>2
<1>4. s \in SpecFile /\ s \in requires[stack[Len(stack)].spec]
  BY <1>2, <1>3 DEF Frame, OrderInv, CallsProgress
<1>5. [stack[Len(stack)] EXCEPT !.todo = @ \ {s}] \in Frame
  BY <1>3 DEF Frame
<1>6. Without(s) = [stack EXCEPT ![Len(stack)] = [stack[Len(stack)] EXCEPT !.todo = @ \ {s}]]
  BY DEF Without
<1>7. Without(s) \in Seq(Frame) /\ Len(Without(s)) = Len(stack)
  BY <1>1, <1>2, <1>5, <1>6
<1> QED  BY <1>1, <1>2, <1>3, <1>4, <1>6, <1>7 DEF Frame

(* A call on the stack that a call above it requires again is on a cycle.  *)
LEMMA CallsOnCycle ==
  ASSUME OrderInv, stack # <<>>, NEW s \in Top.todo, color[s] = 1
  PROVE  OnCycle(s)
<1> DEFINE n == Len(stack)
<1>1. /\ n \in Nat \ {0} /\ DOMAIN stack = 1..n /\ s \in SpecFile
      /\ s \in requires[stack[n].spec]
  BY TopCall
<1>2. PICK k \in DOMAIN stack : stack[k].spec = s
  BY <1>1 DEF OrderInv, ProcessingIsStacked
<1>3. SUFFICES ASSUME NEW S \in SUBSET SpecFile, requires[s] \subseteq S, Closed(S)
               PROVE  s \in S
  BY DEF OnCycle
<1>4. CASE k = n
  BY <1>1, <1>2, <1>3, <1>4
<1>5. CASE k < n
  <2>1. stack[n].spec \in S
    BY <1>1, <1>2, <1>3, <1>5 DEF OrderInv, StackIsPath
  <2> QED  BY <1>1, <1>3, <2>1 DEF Closed
<1> QED  BY <1>1, <1>2, <1>4, <1>5

(* A call of a requirement that is new.                                    *)
LEMMA VisitNewKeeps ==
  ASSUME OrderInv, stack # <<>>, NEW s \in Top.todo, VisitNew(s)
  PROVE  OrderInv'
<1> DEFINE n == Len(stack)
<1>1. /\ n \in Nat \ {0} /\ DOMAIN stack = 1..n
      /\ s \in SpecFile /\ s \in requires[stack[n].spec]
      /\ Without(s) \in Seq(Frame) /\ Len(Without(s)) = n
      /\ \A k \in 1..n : Without(s)[k].spec = stack[k].spec
      /\ \A k \in 1..(n - 1) : Without(s)[k] = stack[k]
      /\ Without(s)[n].todo = stack[n].todo \ {s}
  BY TopCall
<1>2. color[s] = 0 /\ UNCHANGED <<requires, specs, nextspec, orders>>
  BY DEF VisitNew
<1>3. Call(s) \in Frame /\ Call(s).spec = s /\ Call(s).todo = requires[s]
  BY <1>1 DEF Call, Frame, OrderInv, OrderTypeOK
<1>4. stack' = Append(Without(s), Call(s))
  BY DEF VisitNew
<1>5. /\ stack' \in Seq(Frame) /\ Len(stack') = n + 1 /\ DOMAIN stack' = 1..(n + 1)
      /\ stack'[n + 1] = Call(s)
      /\ \A k \in 1..n : stack'[k] = Without(s)[k]
  BY <1>1, <1>3, <1>4
<1>6. color \in [SpecFile -> 0..2] /\ color' = [color EXCEPT ![s] = 1]
  BY DEF VisitNew, OrderInv, OrderTypeOK
<1>6a. color' \in [SpecFile -> 0..2]
  BY <1>1, <1>6
<1>7. \A t \in SpecFile : /\ color'[t] = IF t = s THEN 1 ELSE color[t]
                          /\ color[t] = 2 => t # s
  BY <1>2, <1>6 DEF OrderInv, OrderTypeOK
<1>8. OrderTypeOK'
  BY <1>2, <1>5, <1>6a DEF OrderInv, OrderTypeOK
<1>9. ProcessedIsPlaced'
  BY <1>2, <1>7 DEF OrderInv, ProcessedIsPlaced
<1>10. ProcessingIsStacked'
  <2>1. ASSUME NEW t \in SpecFile, color'[t] = 1
        PROVE  \E k \in DOMAIN stack' : stack'[k].spec = t
    <3>1. CASE t = s
      BY <1>1, <1>3, <1>5, <3>1
    <3>2. CASE t # s
      <4>1. PICK k \in DOMAIN stack : stack[k].spec = t
        BY <1>7, <2>1, <3>2 DEF OrderInv, ProcessingIsStacked
      <4> QED  BY <1>1, <1>5, <4>1
    <3> QED  BY <3>1, <3>2
  <2> QED  BY <2>1 DEF ProcessingIsStacked
<1>11. CallsProgress'
  <2>1. ASSUME NEW k \in DOMAIN stack'
        PROVE  /\ stack'[k].todo \subseteq requires[stack'[k].spec]
               /\ \A r \in requires[stack'[k].spec] \ stack'[k].todo :
                     color'[r] = 2 \/ (k < n + 1 /\ stack'[k + 1].spec = r)
    <3>1. CASE k = n + 1
      BY <1>3, <1>5, <3>1
    <3>2. CASE k = n
      <4>1. stack'[k].spec = stack[n].spec /\ stack'[k].todo = stack[n].todo \ {s}
        BY <1>1, <1>5, <3>2
      <4>2. stack[n].todo \subseteq requires[stack[n].spec]
        BY <1>1 DEF OrderInv, CallsProgress
      <4>3. \A r \in requires[stack[n].spec] \ stack[n].todo : color[r] = 2
        BY <1>1 DEF OrderInv, CallsProgress
      <4>4. requires[stack[n].spec] \subseteq SpecFile
        BY <1>1, CallType
      <4> QED  BY <1>1, <1>3, <1>5, <1>7, <3>2, <4>1, <4>2, <4>3, <4>4
    <3>3. CASE k \in 1..(n - 1)
      <4>1. stack'[k] = stack[k] /\ stack'[k + 1].spec = stack[k + 1].spec
        BY <1>1, <1>5, <3>3
      <4>3. requires[stack[k].spec] \subseteq SpecFile
        BY <1>1, <3>3, CallType
      <4> QED  BY <1>1, <1>7, <3>3, <4>1, <4>3 DEF OrderInv, CallsProgress
    <3> QED  BY <1>1, <1>5, <2>1, <3>1, <3>2, <3>3
  <2> QED  BY <1>2, <1>5, <2>1 DEF CallsProgress
<1>12. StackIsPath'
  <2>1. ASSUME NEW k \in DOMAIN stack', NEW m \in DOMAIN stack', k < m,
               NEW S \in SUBSET SpecFile, requires[stack'[k].spec] \subseteq S, Closed(S)
        PROVE  stack'[m].spec \in S
    <3>1. k \in 1..n /\ stack'[k].spec = stack[k].spec
      BY <1>1, <1>5, <2>1
    <3>2. CASE m \in 1..n
      BY <1>1, <1>5, <2>1, <3>1, <3>2 DEF OrderInv, StackIsPath
    <3>3. CASE m = n + 1
      <4>1. k = n \/ stack[n].spec \in S
        BY SMTT(30), <1>1, <2>1, <3>1 DEF OrderInv, StackIsPath
      <4> QED  BY <1>1, <1>3, <1>5, <2>1, <3>1, <3>3, <4>1 DEF Closed
    <3> QED  BY <1>1, <1>5, <3>2, <3>3
  <2> QED  BY <1>2, <2>1 DEF StackIsPath, Closed
<1>13. RequirementsFirst'
  BY <1>2, OrderStays
<1> QED  BY <1>8, <1>9, <1>10, <1>11, <1>12, <1>13 DEF OrderInv

(* The calls that are left are where they were.                            *)
LEMMA PathStays ==
  ASSUME OrderInv, UNCHANGED requires, DOMAIN stack' \subseteq DOMAIN stack,
         \A k \in DOMAIN stack' : stack'[k].spec = stack[k].spec
  PROVE  StackIsPath'
<1>1. ASSUME NEW k \in DOMAIN stack', NEW m \in DOMAIN stack', k < m,
             NEW S \in SUBSET SpecFile, requires[stack[k].spec] \subseteq S, Closed(S)
      PROVE  stack[m].spec \in S
  BY <1>1 DEF OrderInv, StackIsPath
<1> QED  BY <1>1 DEF StackIsPath, Closed

(* A requirement that needs no call: the top call goes on, and colors only *)
(* grow.                                                                   *)
LEMMA TopGoesOn ==
  ASSUME OrderInv, stack # <<>>, NEW s \in Top.todo,
         UNCHANGED <<requires, specs, nextspec>>, stack' = Without(s),
         color' \in [SpecFile -> 0..2], color'[s] = 2,
         \A t \in SpecFile \ {s} : color'[t] = color[t],
         orders' \in Seq(SpecFile), RequirementsFirst',
         \A t \in SpecFile : t = s \/ color[t] = 2 => \E j \in DOMAIN orders' : orders'[j] = t
  PROVE  OrderInv'
<1> DEFINE n == Len(stack)
<1>1. /\ n \in Nat \ {0} /\ DOMAIN stack = 1..n /\ s \in SpecFile
      /\ s \in requires[stack[n].spec]
      /\ stack' \in Seq(Frame) /\ Len(stack') = n
      /\ \A k \in 1..n : stack'[k].spec = stack[k].spec
      /\ \A k \in 1..(n - 1) : stack'[k] = stack[k]
      /\ stack'[n].todo = stack[n].todo \ {s}
  BY TopCall
<1>0. n \in Nat /\ n # 0
  BY <1>1
<1>2. DOMAIN stack' = 1..n
  BY <1>1
<1>3. OrderTypeOK'
  BY <1>1 DEF OrderInv, OrderTypeOK
<1>4. ProcessedIsPlaced'
  BY DEF ProcessedIsPlaced
<1>5. ProcessingIsStacked'
  BY <1>1, <1>2 DEF OrderInv, ProcessingIsStacked
<1>6. CallsProgress'
  <2>1. ASSUME NEW k \in 1..n
        PROVE  /\ stack'[k].todo \subseteq requires[stack'[k].spec]
               /\ \A r \in requires[stack'[k].spec] \ stack'[k].todo :
                     color'[r] = 2 \/ (k < n /\ stack'[k + 1].spec = r)
    <3>1. /\ stack[k].todo \subseteq requires[stack[k].spec]
          /\ \A r \in requires[stack[k].spec] \ stack[k].todo :
                color[r] = 2 \/ (k < n /\ stack[k + 1].spec = r)
      BY <1>1 DEF OrderInv, CallsProgress
    <3>3. requires[stack[k].spec] \subseteq SpecFile
      BY <1>1, CallType
    <3>4. stack'[k].todo \subseteq stack[k].todo /\ stack[k].todo \subseteq stack'[k].todo \cup {s}
      <4>1. CASE k = n
        BY <1>1, <4>1
      <4>2. CASE k \in 1..(n - 1)
        BY <1>1, <4>2
      <4>3. k = n \/ k \in 1..(n - 1)
        BY <1>0, <2>1
      <4> QED  BY <4>1, <4>2, <4>3
    <3>5. \A r \in SpecFile : color[r] = 2 \/ r = s => color'[r] = 2
      OBVIOUS
    <3>6. k < n => stack'[k + 1].spec = stack[k + 1].spec
      BY <1>1
    <3> QED  BY <1>1, <3>1, <3>3, <3>4, <3>5, <3>6
  <2> QED  BY <1>1, <1>2, <2>1 DEF CallsProgress
<1>7. StackIsPath'
  BY <1>1, <1>2, PathStays
<1> QED  BY <1>3, <1>4, <1>5, <1>6, <1>7 DEF OrderInv

(* A cycle, and a requirement that has its place already.                  *)
LEMMA VisitCycleKeeps ==
  ASSUME OrderInv, stack # <<>>, NEW s \in Top.todo, VisitCycle(s)
  PROVE  OrderInv'
<1>1. s \in SpecFile
  BY TopCall
<1>2. OnCycle(s)
  BY CallsOnCycle DEF VisitCycle
<1>3. /\ RequirementsFirst'
      /\ orders' \in Seq(SpecFile)
      /\ \A t \in SpecFile : t = s \/ color[t] = 2 => \E j \in DOMAIN orders' : orders'[j] = t
  BY <1>1, <1>2, OrderGrows DEF VisitCycle
<1>4. color' \in [SpecFile -> 0..2] /\ color'[s] = 2 /\ \A t \in SpecFile \ {s} : color'[t] = color[t]
  BY <1>1 DEF VisitCycle, OrderInv, OrderTypeOK
<1> QED  BY <1>3, <1>4, TopGoesOn DEF VisitCycle

LEMMA VisitDoneKeeps ==
  ASSUME OrderInv, stack # <<>>, NEW s \in Top.todo, VisitDone(s)
  PROVE  OrderInv'
<1>1. s \in SpecFile /\ color[s] = 2 /\ UNCHANGED <<requires, color, orders>>
  BY TopCall DEF VisitDone
<1>2. RequirementsFirst'
  BY <1>1, OrderStays
<1>3. /\ orders' \in Seq(SpecFile) /\ color' \in [SpecFile -> 0..2]
      /\ \A t \in SpecFile : t = s \/ color[t] = 2 => \E j \in DOMAIN orders' : orders'[j] = t
  BY <1>1 DEF OrderInv, OrderTypeOK, ProcessedIsPlaced
<1> QED  BY <1>1, <1>2, <1>3, TopGoesOn DEF VisitDone

(* The end of a call: all it requires is processed.                        *)
LEMMA FinishKeeps ==
  ASSUME OrderInv, Finish
  PROVE  OrderInv'
<1> DEFINE n == Len(stack)
           s == stack[n].spec
<1>1. stack \in Seq(Frame) /\ n \in Nat \ {0} /\ DOMAIN stack = 1..n /\ Top = stack[n]
  BY DEF Finish, Top, OrderInv, OrderTypeOK
<1>0. n \in Nat /\ n # 0
  BY <1>1
<1>2. stack[n] \in Frame /\ s \in SpecFile /\ requires[s] \subseteq SpecFile
  BY <1>1, CallType
<1>3. \A r \in requires[s] : color[r] = 2
  BY <1>1 DEF Finish, OrderInv, CallsProgress
<1>4. UNCHANGED <<requires, specs, nextspec>> /\ orders' = Append(orders, s)
  BY <1>1 DEF Finish
<1>5. /\ RequirementsFirst'
      /\ orders' \in Seq(SpecFile)
      /\ \A t \in SpecFile : t = s \/ color[t] = 2 => \E j \in DOMAIN orders' : orders'[j] = t
  BY <1>2, <1>3, <1>4, OrderGrows
<1>6. stack' \in Seq(Frame) /\ Len(stack') = n - 1 /\ DOMAIN stack' = 1..(n - 1)
      /\ \A k \in 1..(n - 1) : stack'[k] = stack[k]
  BY <1>1 DEF Finish
<1>7. color' = [color EXCEPT ![s] = 2] /\ color' \in [SpecFile -> 0..2]
  BY <1>1, <1>2 DEF Finish, OrderInv, OrderTypeOK
<1>8. \A t \in SpecFile : color'[t] = IF t = s THEN 2 ELSE color[t]
  BY <1>2, <1>7 DEF OrderInv, OrderTypeOK
<1>9. OrderTypeOK'
  BY <1>4, <1>5, <1>6, <1>7 DEF OrderInv, OrderTypeOK
<1>10. ProcessedIsPlaced'
  BY <1>5, <1>8 DEF ProcessedIsPlaced
<1>11. ProcessingIsStacked'
  <2>1. ASSUME NEW t \in SpecFile, color'[t] = 1
        PROVE  \E k \in DOMAIN stack' : stack'[k].spec = t
    <3>1. t # s /\ color[t] = 1
      BY <1>8, <2>1
    <3>2. PICK k \in DOMAIN stack : stack[k].spec = t
      BY <3>1 DEF OrderInv, ProcessingIsStacked
    <3>3. k \in 1..(n - 1)
      BY <1>1, <3>1, <3>2
    <3> QED  BY <1>6, <3>2, <3>3
  <2> QED  BY <2>1 DEF ProcessingIsStacked
<1>12. CallsProgress'
  <2>1. ASSUME NEW k \in 1..(n - 1)
        PROVE  /\ stack[k].todo \subseteq requires[stack[k].spec]
               /\ \A r \in requires[stack[k].spec] \ stack[k].todo :
                     color'[r] = 2 \/ (k < n - 1 /\ stack'[k + 1].spec = r)
    <3>1. /\ stack[k].todo \subseteq requires[stack[k].spec]
          /\ \A r \in requires[stack[k].spec] \ stack[k].todo :
                color[r] = 2 \/ stack[k + 1].spec = r
      BY <1>1 DEF OrderInv, CallsProgress
    <3>3. requires[stack[k].spec] \subseteq SpecFile
      BY <1>1, CallType
    <3>4. \A r \in SpecFile : color[r] = 2 => color'[r] = 2
      BY <1>8
    <3>5. CASE k = n - 1
      <4>1. k + 1 = n
        BY <1>1, <3>5
      <4>2. \A r \in requires[stack[k].spec] : stack[k + 1].spec = r => color'[r] = 2
        BY <1>2, <1>8, <3>3, <4>1
      <4> QED  BY <3>1, <3>3, <3>4, <4>2
    <3>6. CASE k # n - 1
      <4>1. k < n - 1 /\ k + 1 \in 1..(n - 1)
        BY <1>0, <2>1, <3>6
      <4>2. stack'[k + 1] = stack[k + 1]
        BY <1>6, <4>1
      <4> QED  BY <3>1, <3>3, <3>4, <4>1, <4>2
    <3> QED  BY <3>5, <3>6
  <2> QED  BY <1>4, <1>6, <2>1 DEF CallsProgress
<1>13. StackIsPath'
  <2>1. DOMAIN stack' \subseteq DOMAIN stack
    BY <1>1, <1>6
  <2>2. \A k \in DOMAIN stack' : stack'[k].spec = stack[k].spec
    BY <1>6
  <2> QED  BY <1>4, <2>1, <2>2, PathStays
<1> QED  BY <1>5, <1>9, <1>10, <1>11, <1>12, <1>13 DEF OrderInv

(* Every step of compute_order keeps the invariant.                        *)
LEMMA OrderStep ==
  ASSUME OrderInv, ComputeOrder
  PROVE  OrderInv'
<1>1. CASE NextSpec
  BY <1>1, NextSpecKeeps
<1>2. ASSUME stack # <<>>, NEW s \in Top.todo, VisitNew(s) \/ VisitCycle(s) \/ VisitDone(s)
      PROVE  OrderInv'
  BY <1>2, VisitNewKeeps, VisitCycleKeeps, VisitDoneKeeps
<1>3. CASE Finish
  BY <1>3, FinishKeeps
<1> QED  BY <1>1, <1>2, <1>3 DEF ComputeOrder, Visit
=============================================================================
