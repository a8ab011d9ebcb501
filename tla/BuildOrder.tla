----------------------------- MODULE BuildOrder -----------------------------
(***************************************************************************)
(* RpmSpecCollection.compute_order: the order in which dlrn --order builds *)
(* the projects, a depth first search of what their spec files require.    *)
(* The recursion of _visit is a stack; a frame holds the spec file and the *)
(* requirements it has still to look at, in no order (they are a set).     *)
(***************************************************************************)
EXTENDS Naturals, Sequences

CONSTANTS SpecFile

VARIABLES
    requires,  \* of each spec file: the others whose packages it requires
    specs,     \* self.specs
    nextspec,  \* the loop over it
    stack,     \* the calls of _visit in progress
    color,     \* self.color
    orders     \* self.order

orderVars == <<requires, specs, nextspec, stack, color, orders>>

Frame == [spec : SpecFile, todo : SUBSET SpecFile]

InitOrder(graph, list) ==
    /\ requires = graph
    /\ specs = list
    /\ nextspec = 1
    /\ stack = <<>>
    /\ color = [s \in SpecFile |-> 0]
    /\ orders = <<>>

Call(s) == [spec |-> s, todo |-> requires[s]]

-----------------------------------------------------------------------------
\* The loop of compute_order
NextSpec ==
    LET s == specs[nextspec] IN
    /\ stack = <<>>
    /\ nextspec \in DOMAIN specs
    /\ nextspec' = nextspec + 1
    /\ IF color[s] = 0 THEN /\ stack' = <<Call(s)>>
                            /\ color' = [color EXCEPT ![s] = 1]
       ELSE UNCHANGED <<stack, color>>
    /\ UNCHANGED <<requires, specs, orders>>

Top == stack[Len(stack)]

\* The caller, once the requirement s has been dealt with.
Without(s) == [stack EXCEPT ![Len(stack)].todo = @ \ {s}]

VisitNew_Preorder(s) ==
    /\ color[s] = 0
    /\ stack' = Append(Without(s), Call(s))
    /\ color' = [color EXCEPT ![s] = 1]
    /\ orders' = Append(orders, s)
    /\ UNCHANGED <<requires, specs, nextspec>>

\* _visit of a requirement that is not processed: a call, ...
VisitNew(s) ==
    /\ color[s] = 0
    /\ stack' = Append(Without(s), Call(s))
    /\ color' = [color EXCEPT ![s] = 1]
    /\ UNCHANGED <<requires, specs, nextspec, orders>>

\* ... of one that is being processed: a cycle.  It is reported, and the
\* requirement counts as processed from now on.
VisitCycle(s) ==
    /\ color[s] = 1
    /\ stack' = Without(s)
    /\ color' = [color EXCEPT ![s] = 2]
    /\ orders' = Append(orders, s)
    /\ UNCHANGED <<requires, specs, nextspec>>

\* ... and of one that has been processed: nothing.
VisitDone(s) ==
    /\ color[s] = 2
    /\ stack' = Without(s)
    /\ UNCHANGED <<requires, specs, nextspec, color, orders>>

Visit ==
    /\ stack # <<>>
    /\ \E s \in Top.todo : VisitNew(s) \/ VisitCycle(s) \/ VisitDone(s)

\* The end of _visit
Finish ==
    /\ stack # <<>>
    /\ Top.todo = {}
    /\ stack' = SubSeq(stack, 1, Len(stack) - 1)
    /\ color' = [color EXCEPT ![Top.spec] = 2]
    /\ orders' = Append(orders, Top.spec)
    /\ UNCHANGED <<requires, specs, nextspec>>

ComputeOrder == NextSpec \/ Visit \/ Finish

Computed == stack = <<>> /\ nextspec > Len(specs)

-----------------------------------------------------------------------------
OrderTypeOK ==
    /\ requires \in [SpecFile -> SUBSET SpecFile]
    /\ specs \in Seq(SpecFile)
    /\ nextspec \in Nat
    /\ stack \in Seq(Frame)
    /\ color \in [SpecFile -> 0..2]
    /\ orders \in Seq(SpecFile)

Closed(S) == \A s \in S : requires[s] \subseteq S

\* A spec file requires itself, at last: everything its requirements lead to
\* includes it.
OnCycle(s) ==
    \A S \in SUBSET SpecFile : requires[s] \subseteq S /\ Closed(S) => s \in S

\* What a project requires is built before it, whatever cycles there are
\* elsewhere, unless it is on a cycle itself.  The position of a project is
\* that of its first occurrence (orders.index).
RequirementsFirst ==
    \A i \in DOMAIN orders : ~OnCycle(orders[i]) =>
        \A r \in requires[orders[i]] : \E j \in 1..(i - 1) : orders[j] = r
=============================================================================
