--------------------------- MODULE ReaderPoolProofs ---------------------------
(***************************************************************************)
(* How many connections the reads need: with four, one export and one      *)
(* matcher at a time, and any number of other requests, never wait for one *)
(* another in a circle.                                                    *)
(***************************************************************************)
EXTENDS ReaderPool, TLAPS, SequenceTheorems, FiniteSetTheorems

\* The connections a statement and those inside it need at a time.
Height(s) == IF s = "records" THEN 3
             ELSE IF s \in {"seasons", "rounds", "collections", "titles"} THEN 2 ELSE 1

\* The connections a task needs at a time.
Reach(t) == IF t \in Exports THEN 3 ELSE IF t \in Matchers THEN 2 ELSE 1

\* What is open leaves room for what runs inside it.
Nested == \A t \in Task : \A i \in DOMAIN open[t] : i - 1 + Height(open[t][i].of) <= Reach(t)

RestsEmpty == \A t \in Task : step[t] = 0 => open[t] = <<>>

IInv == TypeOK /\ RestsEmpty /\ Nested

Enough ==
    /\ IsFiniteSet(Connections) /\ Cardinality(Connections) >= 4
    /\ \A e, f \in Exports : e = f
    /\ \A m, n \in Matchers : m = n

-----------------------------------------------------------------------------
(* The statements inside a statement need fewer connections than it does.  *)
LEMMA InnerIsLower ==
    ASSUME NEW s \in Statements
    PROVE  /\ Height(s) \in 1..3
           /\ \A i \in DOMAIN Inner(s) : /\ Inner(s)[i] \in Statements
                                         /\ Height(Inner(s)[i]) < Height(s)
<1>1. CASE s = "records"
    BY <1>1 DEF Statements, Leaves, Height, Inner
<1>2. CASE s = "seasons"
    BY <1>2 DEF Statements, Leaves, Height, Inner
<1>3. CASE s = "rounds"
    BY <1>3 DEF Statements, Leaves, Height, Inner
<1>4. CASE s = "collections"
    BY <1>4 DEF Statements, Leaves, Height, Inner
<1>5. CASE s = "titles"
    BY <1>5 DEF Statements, Leaves, Height, Inner
<1>6. CASE s \notin {"records", "seasons", "rounds", "collections", "titles"}
  <2>1. Inner(s) = <<>>
    BY <1>6 DEF Inner
  <2> QED BY <1>6, <2>1 DEF Height
<1> QED BY <1>1, <1>2, <1>3, <1>4, <1>5, <1>6

(* The statements of a program are statements, within the reach of a task. *)
LEMMA ProgramInReach ==
    ASSUME NEW t \in Task, NEW i \in 1..Len(Program(t))
    PROVE  Program(t)[i] \in Statements /\ Height(Program(t)[i]) <= Reach(t)
<1> USE TasksAreDistinct
<1>1. CASE t \in Exports
    BY <1>1 DEF Program, Statements, Leaves, Height, Reach
<1>2. CASE t \in Matchers
    BY <1>2 DEF Program, Statements, Leaves, Height, Reach
<1>3. CASE t \in Requests
    BY <1>3 DEF Program, Statements, Leaves, Height, Reach
<1> QED BY <1>1, <1>2, <1>3 DEF Task

(* A task that waits has room for one more statement, the one it wants. *)
LEMMA WantedFits ==
    ASSUME IInv, NEW t \in Task, Waits(t)
    PROVE  /\ Wanted(t) \in Statements
           /\ Depth(t) + Height(Wanted(t)) <= Reach(t)
<1>1. open[t] \in Seq(Frame) /\ step[t] \in Nat /\ step[t] <= Len(Program(t)) /\ step[t] # 0
    BY DEF IInv, TypeOK, Waits
<1>2. CASE Depth(t) = 0
  <2>1. step[t] \in 1..Len(Program(t))
    BY <1>1 DEF Program
  <2>2. Wanted(t) = Program(t)[step[t]]
    BY <1>2 DEF Wanted
  <2>3. Program(t)[step[t]] \in Statements /\ Height(Program(t)[step[t]]) <= Reach(t)
    BY <2>1, ProgramInReach
  <2> QED BY <1>2, <2>2, <2>3 DEF Height, Reach
<1>3. CASE Depth(t) # 0
  <2>1. InRow(t)
    BY <1>3 DEF Waits
  <2>2. Depth(t) \in 1..Len(open[t]) /\ DOMAIN open[t] = 1..Len(open[t])
    BY <1>1, <1>3, LenProperties DEF Depth
  <2>3. Top(t) \in Frame
    BY <1>1, <2>2, ElementOfSeq DEF Top
  <2>4. Top(t).of \in Statements /\ Top(t).next \in DOMAIN Inner(Top(t).of)
    BY <2>1, <2>3 DEF Frame, InRow
  <2>5. Wanted(t) = Inner(Top(t).of)[Top(t).next]
    BY <1>3 DEF Wanted
  <2>6. Wanted(t) \in Statements /\ Height(Wanted(t)) < Height(Top(t).of)
    BY <2>4, <2>5, InnerIsLower
  <2>7. Depth(t) - 1 + Height(Top(t).of) <= Reach(t)
    BY <2>2 DEF IInv, Nested, Top
  <2>8. Depth(t) \in Nat
    BY <2>2
  <2> QED BY <2>6, <2>7, <2>8 DEF Height, Reach
<1> QED BY <1>2, <1>3

-----------------------------------------------------------------------------
(* The invariant holds in the initial state. *)
LEMMA InitIInv == Init => IInv
<1> SUFFICES ASSUME Init PROVE IInv
    OBVIOUS
<1>1. \A t \in Task : step[t] = 0 /\ open[t] = <<>>
    BY DEF Init
<1>2. step \in [Task -> Nat] /\ open \in [Task -> Seq(Frame)]
    BY DEF Init
<1>3. \A t \in Task : Len(Program(t)) \in Nat
    BY DEF Program
<1> QED BY <1>1, <1>2, <1>3 DEF IInv, TypeOK, RestsEmpty, Nested

(* A step of a task that leaves its stack and its place in order keeps the *)
(* invariant: the others are as they were.                                 *)
LEMMA OneTask ==
    ASSUME IInv, NEW t \in Task, NEW n \in Nat, NEW stack \in Seq(Frame),
           n <= Len(Program(t)), n = 0 => stack = <<>>,
           \A i \in DOMAIN stack : i - 1 + Height(stack[i].of) <= Reach(t),
           step' = [step EXCEPT ![t] = n], open' = [open EXCEPT ![t] = stack]
    PROVE  IInv'
<1>1. step \in [Task -> Nat] /\ open \in [Task -> Seq(Frame)]
    BY DEF IInv, TypeOK
<1>2. \A u \in Task : /\ step'[u] = IF u = t THEN n ELSE step[u]
                      /\ open'[u] = IF u = t THEN stack ELSE open[u]
    BY <1>1
<1>3. TypeOK'
  <2>1. step' \in [Task -> Nat] /\ open' \in [Task -> Seq(Frame)]
    BY <1>1
  <2>2. \A u \in Task : step'[u] <= Len(Program(u))
    BY <1>2 DEF IInv, TypeOK
  <2> QED BY <2>1, <2>2 DEF TypeOK, Task, Program, Frame, Statements, Leaves
<1>4. RestsEmpty'
    BY <1>2 DEF IInv, RestsEmpty, Task
<1>5. Nested'
    BY <1>2 DEF IInv, Nested, Reach, Height, Task
<1> QED BY <1>3, <1>4, <1>5 DEF IInv

(* Every step keeps the invariant. *)
LEMMA NextIInv == IInv /\ [Next]_vars => IInv'
<1> SUFFICES ASSUME IInv, [Next]_vars PROVE IInv'
    OBVIOUS
<1>1. CASE UNCHANGED vars
    BY <1>1 DEF IInv, TypeOK, RestsEmpty, Nested, vars, Depth, Task, Program, Frame,
                Statements, Leaves, Reach, Height
<1>2. ASSUME NEW t \in Task, Begin(t) \/ Query(t) \/ NextRow(t) \/ Close(t) \/ HangUp(t)
      PROVE  IInv'
  <2>1. /\ step \in [Task -> Nat] /\ open \in [Task -> Seq(Frame)]
        /\ open[t] \in Seq(Frame) /\ step[t] \in Nat /\ step[t] <= Len(Program(t))
        /\ Len(Program(t)) \in Nat \ {0}
    BY <1>2 DEF IInv, TypeOK, Program
  <2>2. DOMAIN open[t] = 1..Len(open[t]) /\ Len(open[t]) \in Nat
    BY <2>1, LenProperties
  <2>3. \A i \in 1..Len(open[t]) :
            open[t][i] \in Frame /\ i - 1 + Height(open[t][i].of) <= Reach(t)
    BY <2>1, <2>2, ElementOfSeq DEF IInv, Nested
  <2>4. open' = [open EXCEPT ![t] = open'[t]] /\ step' = [step EXCEPT ![t] = step'[t]]
    BY <1>2, <2>1 DEF Begin, Query, NextRow, Close, HangUp
  <2>5. CASE Begin(t)
    <3>1. step' = [step EXCEPT ![t] = 1] /\ open' = [open EXCEPT ![t] = <<>>]
      BY <2>1, <2>5 DEF Begin, IInv, RestsEmpty
    <3>2. 1 \in Nat /\ 1 <= Len(Program(t)) /\ 1 # 0
      BY <2>1
    <3>3. <<>> \in Seq(Frame) /\ \A i \in DOMAIN <<>> : i - 1 + Height(<<>>[i].of) <= Reach(t)
      BY EmptySeq
    <3> QED BY <3>1, <3>2, <3>3, OneTask
  <2>6. CASE Query(t)
    <3>1. Wanted(t) \in Statements /\ Len(open[t]) + Height(Wanted(t)) <= Reach(t) /\ step[t] # 0
      BY <2>6, WantedFits DEF Query, Waits, Depth
    <3>2. PICK rows \in IF Inner(Wanted(t)) = <<>> THEN {0} ELSE 0..MaxRows :
             open' = [open EXCEPT ![t] = Append(@,
                [of |-> Wanted(t), conn |-> CHOOSE c \in Free : TRUE, left |-> rows, next |-> 0])]
      BY <2>6 DEF Query
    <3> DEFINE frame == [of |-> Wanted(t), conn |-> CHOOSE c \in Free : TRUE,
                         left |-> rows, next |-> 0]
    <3>3. frame \in Frame
      <4>1. (CHOOSE c \in Free : TRUE) \in Connections
        BY <2>6 DEF Query, Free
      <4>2. rows \in Nat
        BY <3>2, RowsAreBounded
      <4> QED BY <3>1, <4>1, <4>2 DEF Frame
    <3>4. /\ Append(open[t], frame) \in Seq(Frame)
          /\ Len(Append(open[t], frame)) = Len(open[t]) + 1
          /\ \A i \in 1..Len(open[t]) : Append(open[t], frame)[i] = open[t][i]
          /\ Append(open[t], frame)[Len(open[t]) + 1] = frame
      BY <2>1, <3>3, AppendProperties
    <3>5. \A i \in DOMAIN Append(open[t], frame) :
              i - 1 + Height(Append(open[t], frame)[i].of) <= Reach(t)
      <4>1. DOMAIN Append(open[t], frame) = 1..(Len(open[t]) + 1)
        BY <3>4, LenProperties
      <4>2. frame.of = Wanted(t)
        OBVIOUS
      <4> QED BY <2>2, <2>3, <3>1, <3>4, <4>1, <4>2
    <3>6. step' = [step EXCEPT ![t] = step[t]] /\ open' = [open EXCEPT ![t] = Append(open[t], frame)]
      BY <2>1, <2>6, <3>2 DEF Query
    <3> QED BY <2>1, <3>1, <3>4, <3>5, <3>6, OneTask
  <2>7. CASE NextRow(t)
    <3> DEFINE top == [Top(t) EXCEPT !.left = @ - 1, !.next = 1]
               stack == [open[t] EXCEPT ![Len(open[t])] = top]
    <3>1. Len(open[t]) \in 1..Len(open[t]) /\ Top(t) = open[t][Len(open[t])]
      BY <2>2, <2>7 DEF NextRow, Depth, Top
    <3>2. top \in Frame /\ top.of = Top(t).of
      <4>1. Top(t) \in Frame /\ Top(t).left > 0
        BY <2>3, <2>7, <3>1 DEF NextRow
      <4>2. Top(t).left - 1 \in Nat
        BY <4>1 DEF Frame
      <4> QED BY <4>1, <4>2 DEF Frame
    <3>3. /\ stack \in Seq(Frame) /\ Len(stack) = Len(open[t])
          /\ \A i \in 1..Len(open[t]) : stack[i] = IF i = Len(open[t]) THEN top ELSE open[t][i]
      BY <2>1, <3>1, <3>2, ExceptSeq
    <3>4. \A i \in DOMAIN stack : i - 1 + Height(stack[i].of) <= Reach(t)
      BY <2>3, <3>1, <3>2, <3>3, LenProperties
    <3>5. step' = [step EXCEPT ![t] = step[t]] /\ open' = [open EXCEPT ![t] = stack]
      BY <2>1, <2>7, <3>1 DEF NextRow, Depth
    <3>6. step[t] # 0
      BY <2>1, <3>1 DEF IInv, RestsEmpty
    <3> QED BY <2>1, <3>3, <3>4, <3>5, <3>6, OneTask
  <2>8. CASE Close(t)
    <3> DEFINE outer == SubSeq(open[t], 1, Len(open[t]) - 1)
    <3>1. Len(open[t]) \in Nat \ {0}
      BY <2>2, <2>8 DEF Close, Depth
    <3>2. /\ outer \in Seq(Frame) /\ Len(outer) = Len(open[t]) - 1
          /\ \A i \in 1..(Len(open[t]) - 1) : outer[i] = open[t][i]
      <4>1. \A i \in 1..(Len(open[t]) - 1) : open[t][i] \in Frame
        BY <2>3, <3>1
      <4> QED BY <3>1, <4>1, SubSeqProperties
    <3> HIDE DEF outer
    <3>3. CASE outer = <<>>
      <4>1. /\ open' = [open EXCEPT ![t] = <<>>]
            /\ step' = [step EXCEPT ![t] = IF step[t] = Len(Program(t)) THEN 0 ELSE step[t] + 1]
        BY <2>8, <3>3 DEF Close, Depth, outer
      <4>2. /\ (IF step[t] = Len(Program(t)) THEN 0 ELSE step[t] + 1) \in Nat
            /\ (IF step[t] = Len(Program(t)) THEN 0 ELSE step[t] + 1) <= Len(Program(t))
        BY <2>1
      <4>3. <<>> \in Seq(Frame) /\ \A i \in DOMAIN <<>> : i - 1 + Height(<<>>[i].of) <= Reach(t)
        BY EmptySeq
      <4> QED BY <4>1, <4>2, <4>3, OneTask
    <3>4. CASE outer # <<>>
      <4> DEFINE last == [outer[Len(outer)] EXCEPT !.next = @ + 1]
                 stack == [outer EXCEPT ![Len(outer)] = last]
      <4>1. Len(outer) \in 1..Len(outer)
        BY <3>1, <3>2, <3>4, EmptySeq
      <4>2. last \in Frame /\ last.of = outer[Len(outer)].of
        <5>1. outer[Len(outer)] \in Frame
          BY <3>2, <4>1, ElementOfSeq
        <5>2. outer[Len(outer)].next + 1 \in Nat
          BY <5>1 DEF Frame
        <5> QED BY <5>1, <5>2 DEF Frame
      <4>3. /\ stack \in Seq(Frame) /\ Len(stack) = Len(outer)
            /\ \A i \in 1..Len(outer) : stack[i] = IF i = Len(outer) THEN last ELSE outer[i]
        BY <3>2, <4>1, <4>2, ExceptSeq
      <4>4. \A i \in DOMAIN stack : i - 1 + Height(stack[i].of) <= Reach(t)
        BY <2>3, <3>1, <3>2, <4>1, <4>2, <4>3, LenProperties
      <4>5. step' = [step EXCEPT ![t] = step[t]] /\ open' = [open EXCEPT ![t] = stack]
        BY <2>1, <2>8, <3>4 DEF Close, Depth, outer
      <4>6. step[t] # 0
        BY <2>1, <3>1, EmptySeq DEF IInv, RestsEmpty
      <4> QED BY <2>1, <4>3, <4>4, <4>5, <4>6, OneTask
    <3> QED BY <3>3, <3>4
  <2>9. CASE HangUp(t)
    <3>1. step' = [step EXCEPT ![t] = 0] /\ open' = [open EXCEPT ![t] = <<>>]
      BY <2>9 DEF HangUp
    <3>2. <<>> \in Seq(Frame) /\ \A i \in DOMAIN <<>> : i - 1 + Height(<<>>[i].of) <= Reach(t)
      BY EmptySeq
    <3>3. 0 \in Nat /\ 0 <= Len(Program(t))
      BY <2>1
    <3> QED BY <3>1, <3>2, <3>3, OneTask
  <2> QED BY <1>2, <2>5, <2>6, <2>7, <2>8, <2>9
<1> QED BY <1>1, <1>2 DEF Next

-----------------------------------------------------------------------------
(* Three connections are all that waiting tasks can keep. *)
LEMMA ThreeAreNotEnough ==
    ASSUME NEW a, NEW b, NEW c
    PROVE  IsFiniteSet({a, b, c}) /\ Cardinality({a, b, c}) <= 3
<1>1. IsFiniteSet({a}) /\ Cardinality({a}) = 1
    BY FS_Singleton
<1>2. IsFiniteSet({a} \cup {b}) /\ Cardinality({a} \cup {b}) \in 1..2
    BY <1>1, FS_AddElement
<1>3. /\ IsFiniteSet(({a} \cup {b}) \cup {c})
      /\ Cardinality(({a} \cup {b}) \cup {c}) <= 3
    BY <1>2, FS_AddElement
<1>4. {a, b, c} = ({a} \cup {b}) \cup {c}
    OBVIOUS
<1> QED BY <1>3, <1>4

(* The invariant rules a circle out: a task that waits has two connections *)
(* if it is the export, one if it is the matcher, and none otherwise.      *)
LEMMA IInvNeverStuck ==
    ASSUME Enough, IInv
    PROVE  NeverStuck
<1> SUFFICES ASSUME Free = {}, \A t \in Task : Depth(t) > 0 => Waits(t)
             PROVE  FALSE
    BY DEF NeverStuck
<1> DEFINE e == CHOOSE t \in Exports : TRUE
           m == CHOOSE t \in Matchers : TRUE
           kept == {open[e][1].conn, open[e][2].conn, open[m][1].conn}
<1>1. ASSUME NEW c \in Connections PROVE c \in kept
  <2>1. PICK t \in Task : c \in Held(t)
    BY DEF Free
  <2>2. PICK i \in DOMAIN open[t] : c = open[t][i].conn
    BY <2>1 DEF Held
  <2>3. open[t] \in Seq(Frame) /\ DOMAIN open[t] = 1..Len(open[t]) /\ Len(open[t]) \in Nat
    BY LenProperties DEF IInv, TypeOK
  <2>4. i \in 1..Depth(t) /\ Depth(t) \in Nat /\ Depth(t) > 0
    BY <2>2, <2>3 DEF Depth
  <2>5. Depth(t) + Height(Wanted(t)) <= Reach(t)
    BY <2>4, WantedFits
  <2>6. Depth(t) + 1 <= Reach(t)
    BY <2>4, <2>5 DEF Height, Reach
  <2>7. CASE t \in Exports
    <3>1. t = e /\ i \in 1..2
      BY <2>4, <2>6, <2>7 DEF Enough, Reach
    <3> QED BY <2>2, <3>1
  <2>8. CASE t \in Matchers
    <3>1. t = m /\ i = 1
      BY <2>4, <2>6, <2>8, TasksAreDistinct DEF Enough, Reach
    <3> QED BY <2>2, <3>1
  <2>9. CASE t \notin Exports \cup Matchers
    BY <2>4, <2>6, <2>9 DEF Reach
  <2> QED BY <2>7, <2>8, <2>9
<1>2. Connections \subseteq kept
    BY <1>1
<1>3. IsFiniteSet(kept) /\ Cardinality(kept) <= 3
    BY ThreeAreNotEnough
<1>4. Cardinality(Connections) <= Cardinality(kept)
    BY <1>2, <1>3, FS_Subset
<1>5. Cardinality(kept) \in Nat /\ Cardinality(Connections) \in Nat
    BY <1>3, FS_CardinalityType DEF Enough
<1> QED BY <1>3, <1>4, <1>5 DEF Enough

(* Every variable has its type, whatever the size of the pool. *)
THEOREM TypeCorrect == Spec => []TypeOK
<1>1. IInv => TypeOK
    BY DEF IInv
<1> QED BY <1>1, InitIInv, NextIInv, PTL DEF Spec

(* Four connections are enough for one export, one matcher and any number  *)
(* of other requests: their reads never wait for one another in a circle.  *)
THEOREM FourSuffice ==
    ASSUME Enough
    PROVE  Spec => []NeverStuck
<1>1. IInv => NeverStuck
    BY IInvNeverStuck
<1> QED BY <1>1, InitIInv, NextIInv, PTL DEF Spec

=============================================================================
