----------------------- MODULE ExceptionRuntimeProofs -----------------------
(***************************************************************************)
(* Theorems about ExceptionRuntime, for every size of the array and of the *)
(* table and every set of classes.                                         *)
(***************************************************************************)
EXTENDS ExceptionRuntime, FiniteSetTheorems, SequenceTheorems, WellFoundedInduction, TLAPS

(* An entry appended to a sequence of entries. *)
LEMMA AppendEntry ==
  ASSUME NEW S, NEW s \in Seq(S), NEW x \in S
  PROVE  Append(s, x) \in Seq(S)
  OBVIOUS

LEMMA EntryOf ==
  ASSUME NEW S, NEW s \in Seq(S), NEW i \in 1..Len(s)
  PROVE  s[i] \in S
  OBVIOUS

-----------------------------------------------------------------------------
(* The index of the array and the slots under it.  The range of the index  *)
(* is inductive only together with UsedSlotsFilled: __lpl_try_enter        *)
(* increments first and looks at the limit afterwards.                     *)

Inv == TypeOK /\ UsedSlotsFilled

(* The empty array satisfies the invariant. *)
LEMMA InitInv == Init => Inv
  BY LimitsAssumption DEF Init, Inv, TypeOK, UsedSlotsFilled, Slots

(* Every call of the runtime keeps the invariant. *)
LEMMA NextInv == Inv /\ [Next]_vars => Inv'
<1> SUFFICES ASSUME Inv, [Next]_vars PROVE Inv'
  OBVIOUS
<1> USE LimitsAssumption DEF Inv, TypeOK, UsedSlotsFilled, Slots
<1>1. ASSUME NEW c \in Types, NEW p \in Types, RegisterType(c, p) PROVE Inv'
  <2> DEFINE R == [child : Types, parent : Types]
  <2>1. [child |-> c, parent |-> p] \in R
    OBVIOUS
  <2>2. Append(type_relations, [child |-> c, parent |-> p]) \in Seq(R)
    BY <2>1, AppendEntry, Zenon
  <2>3. type_relations' \in Seq(R)
    BY <1>1, <2>2 DEF RegisterType
  <2>4. declared' \in SUBSET (Types \X Types)
    BY <1>1 DEF RegisterType
  <2> QED BY <1>1, <2>3, <2>4 DEF RegisterType
<1>2. CASE Start
  BY <1>2 DEF Start
<1>3. ASSUME NEW h \in Handlers, TryEnter(h) PROVE Inv'
  <2>1. CASE exception_stack_top + 1 >= MaxHandlers
    BY <1>3, <2>1 DEF TryEnter
  <2>2. CASE exception_stack_top + 1 < MaxHandlers
    BY SMTT(40), <1>3, <2>2 DEF TryEnter
  <2> QED BY <2>1, <2>2
<1>4. CASE TryLeave
  BY <1>4 DEF TryLeave
<1>5. ASSUME NEW t \in Types, Throw(t) PROVE Inv'
  BY <1>5 DEF Throw
<1>6. CASE Clear
  BY <1>6 DEF Clear
<1>7. CASE Halted \/ UNCHANGED vars
  BY <1>7 DEF Halted, vars
<1> QED BY <1>1, <1>2, <1>3, <1>4, <1>5, <1>6, <1>7 DEF Next

(* The state of the runtime is always well typed (lplrt.c:88-109). *)
THEOREM TypeCorrect == Spec => []TypeOK
<1>1. Inv => TypeOK
  BY DEF Inv
<1> QED BY InitInv, NextInv, <1>1, PTL DEF Spec

(* No throw jumps to a buffer that was never filled, and no try writes     *)
(* past the array, however many try statements are open (lplrt.c:106-130). *)
THEOREM NoUnfilledHandler == Spec => []UsedSlotsFilled
<1>1. Inv => UsedSlotsFilled
  BY DEF Inv
<1> QED BY InitInv, NextInv, <1>1, PTL DEF Spec

-----------------------------------------------------------------------------
(* The array and its index implement a stack. *)

(* How many handlers the stack holds. *)
Depth == IF exception_stack_top < MaxHandlers THEN exception_stack_top + 1 ELSE MaxHandlers

InUseFacts ==
  /\ Depth \in Nat
  /\ InUse \in Seq(Handlers)
  /\ Len(InUse) = Depth
  /\ \A i \in 1..Depth : InUse[i] = exception_stack[i - 1]

(* The handlers in use, as a sequence. *)
LEMMA InUseSeq == Inv => InUseFacts
<1> SUFFICES ASSUME Inv PROVE InUseFacts
  OBVIOUS
<1> USE LimitsAssumption DEF Inv, TypeOK, UsedSlotsFilled, Slots
<1>1. Depth \in Nat
  BY DEF Depth
<1>2. InUse = [i \in 1..Depth |-> exception_stack[i - 1]]
  BY DEF InUse, Depth
<1>3. ASSUME NEW i \in 1..Depth PROVE exception_stack[i - 1] \in Handlers
  BY DEF Depth
<1> HIDE DEF Inv, Depth
<1> QED BY <1>1, <1>2, <1>3 DEF InUseFacts

(* The same in the next state. *)
LEMMA InUseSeqNext == Inv' => InUseFacts'
  BY InUseSeq, PTL

(* A try statement, if there is room, puts its handler on top; if there is *)
(* none the stack stays as it is.                                          *)
LEMMA TryEnterImplements ==
  ASSUME Inv, Inv', NEW h \in Handlers, TryEnter(h)
  PROVE  Abstract!Enter(h) \/ UNCHANGED InUse
<1> USE LimitsAssumption
<1>1. CASE exception_stack_top + 1 >= MaxHandlers
  <2>1. exception_stack' = exception_stack /\ Depth' = Depth
    BY <1>1 DEF TryEnter, Inv, TypeOK, UsedSlotsFilled, Depth
  <2>2. InUse' = InUse
    BY <1>1 DEF TryEnter, InUse, Inv, TypeOK, UsedSlotsFilled
  <2> QED BY <2>2
<1>2. CASE exception_stack_top + 1 < MaxHandlers
  <2>1. Depth' = Depth + 1 /\ Depth = exception_stack_top + 1
    BY <1>2 DEF TryEnter, Inv, TypeOK, Depth
  <2>2. \A i \in 0..(Depth - 1) : exception_stack'[i] = exception_stack[i]
    BY <1>2, <2>1 DEF TryEnter, Inv, TypeOK, Slots
  <2>3. exception_stack'[Depth] = h
    BY <1>2, <2>1 DEF TryEnter, Inv, TypeOK, Slots
  <2>4. Append(InUse, h) \in Seq(Handlers) /\ Len(Append(InUse, h)) = Depth + 1
    BY InUseSeq DEF InUseFacts
  <2>5. InUse' \in Seq(Handlers) /\ Len(InUse') = Depth'
    BY InUseSeqNext DEF InUseFacts
  <2>6. ASSUME NEW i \in 1..(Depth + 1) PROVE InUse'[i] = Append(InUse, h)[i]
    <3>1. InUse'[i] = exception_stack'[i - 1]
      BY <2>1, InUseSeqNext DEF InUseFacts
    <3>2. CASE i = Depth + 1
      BY <3>1, <3>2, <2>3, InUseSeq DEF InUseFacts
    <3>3. CASE i \in 1..Depth
      BY <3>1, <3>3, <2>2, InUseSeq DEF InUseFacts
    <3> QED BY <3>2, <3>3, InUseSeq DEF InUseFacts
  <2>7. InUse' = Append(InUse, h)
    BY <2>1, <2>4, <2>5, <2>6, SeqEqual
  <2> QED BY <2>7 DEF Abstract!Enter
<1> QED BY <1>1, <1>2 DEF Inv, TypeOK

(* What is left of the stack when the index goes down. *)
LEMMA IndexDown ==
  ASSUME Inv, Inv', exception_stack_top >= 0,
         exception_stack_top < MaxHandlers,
         exception_stack_top' = exception_stack_top - 1,
         exception_stack' = exception_stack
  PROVE  InUse # <<>> /\ InUse' = Abstract!Pop(InUse)
<1> USE LimitsAssumption
<1>1. Depth' = Depth - 1 /\ Depth >= 1
  BY DEF Inv, TypeOK, Depth
<1>2. Len(InUse) = Depth /\ InUse \in Seq(Handlers)
  BY InUseSeq DEF InUseFacts
<1>3. Len(InUse') = Depth' /\ InUse' \in Seq(Handlers)
  BY InUseSeqNext DEF InUseFacts
<1>4. SubSeq(InUse, 1, Len(InUse) - 1) \in Seq(Handlers)
      /\ Len(SubSeq(InUse, 1, Len(InUse) - 1)) = Depth - 1
  BY <1>1, <1>2, InUseSeq DEF InUseFacts
<1>5. ASSUME NEW i \in 1..(Depth - 1)
      PROVE  InUse'[i] = SubSeq(InUse, 1, Len(InUse) - 1)[i]
  <2>1. InUse'[i] = exception_stack[i - 1]
    BY <1>1, InUseSeqNext DEF InUseFacts
  <2>2. InUse[i] = exception_stack[i - 1]
    BY <1>1, InUseSeq DEF InUseFacts
  <2> QED BY <2>1, <2>2, <1>1, <1>2, InUseSeq DEF InUseFacts
<1>6. InUse' = SubSeq(InUse, 1, Len(InUse) - 1)
  BY <1>1, <1>3, <1>4, <1>5, SeqEqual
<1> QED BY <1>6, <1>1, <1>2, InUseSeq DEF InUseFacts, Abstract!Pop

(* Every call of the runtime is a step of the stack or leaves it alone.    *)
LEMMA NextImplements ==
  Inv /\ Inv' /\ [Next]_vars => [Abstract!Next]_<<InUse, landed>>
<1> SUFFICES ASSUME Inv, Inv', [Next]_vars PROVE [Abstract!Next]_<<InUse, landed>>
  OBVIOUS
<1>1. ASSUME UNCHANGED <<exception_stack, exception_stack_top, landed>>
      PROVE  UNCHANGED <<InUse, landed>>
  BY <1>1 DEF InUse
<1>2. ASSUME NEW c \in Types, NEW p \in Types, RegisterType(c, p)
      PROVE  UNCHANGED <<exception_stack, exception_stack_top, landed>>
  BY <1>2 DEF RegisterType
<1>3. CASE Start \/ Clear \/ Halted \/ UNCHANGED vars
  BY <1>3, <1>1 DEF Start, Clear, Halted, vars
<1>4. ASSUME NEW h \in Handlers, TryEnter(h)
      PROVE  (Abstract!Enter(h) \/ UNCHANGED InUse) /\ UNCHANGED landed
  BY <1>4, TryEnterImplements DEF TryEnter
<1>5. CASE TryLeave
  <2>1. CASE exception_stack_top >= 0
    <3>1. exception_stack_top < MaxHandlers
      BY <1>5 DEF Inv, UsedSlotsFilled, TryLeave
    <3>2. InUse # <<>> /\ InUse' = Abstract!Pop(InUse)
      BY <1>5, <2>1, <3>1, IndexDown DEF TryLeave
    <3> QED BY <1>5, <3>2 DEF TryLeave, Abstract!Next, Abstract!Leave
  <2>2. CASE ~(exception_stack_top >= 0)
    BY <1>5, <2>2, <1>1 DEF TryLeave
  <2> QED BY <2>1, <2>2
<1>6. ASSUME NEW t \in Types, Throw(t) PROVE [Abstract!Next]_<<InUse, landed>>
  <2>1. CASE exception_stack_top < 0
    BY <1>6, <2>1, <1>1 DEF Throw
  <2>2. CASE ~(exception_stack_top < 0)
    <3>1. exception_stack_top >= 0 /\ exception_stack_top < MaxHandlers
      BY <1>6, <2>2, LimitsAssumption DEF Inv, UsedSlotsFilled, TypeOK, Throw
    <3>2. InUse # <<>> /\ InUse' = Abstract!Pop(InUse)
      BY <1>6, <2>2, <3>1, IndexDown DEF Throw
    <3>3. Abstract!Top = exception_stack[exception_stack_top]
      BY <3>1, InUseSeq, LimitsAssumption DEF InUseFacts, Abstract!Top, Depth, Inv, TypeOK
    <3>4. landed' = Abstract!Top
      BY <1>6, <2>2, <3>3 DEF Throw
    <3> QED BY <3>2, <3>4 DEF Abstract!Next, Abstract!Raise
  <2> QED BY <2>1, <2>2
<1> QED BY <1>1, <1>2, <1>3, <1>4, <1>5, <1>6 DEF Next, Abstract!Next

(* The array with its index behaves as a stack of handlers: a throw goes   *)
(* to the innermost handler entered and not left, and what is left over in *)
(* the array above the index never comes back (lplrt.c:106-130).           *)
THEOREM RuntimeIsAStack == Spec => ImplementsStack
<1>1. Init => Abstract!Init
  <2> SUFFICES ASSUME Init PROVE InUse = <<>>
    BY DEF Abstract!Init
  <2>1. Len(InUse) = 0 /\ InUse \in Seq(Handlers)
    BY InitInv, InUseSeq, LimitsAssumption DEF InUseFacts, Init, Depth
  <2> QED BY <2>1
<1> QED BY <1>1, InitInv, NextInv, NextImplements, PTL DEF Spec, ImplementsStack, Abstract!Spec

-----------------------------------------------------------------------------
(* The type test. *)

LessThan == OpToRel(<, Nat)

LEMMA LessThanHolds == \A x, y \in Nat : x < y => <<x, y>> \in LessThan
  BY Zenon DEF OpToRel, LessThan

(* A set of natural numbers that is not empty has a least one. *)
LEMMA LeastNumber ==
  ASSUME NEW T \in SUBSET Nat, T # {}
  PROVE  \E x \in T : \A y \in T : x <= y
<1>1. IsWellFoundedOn(LessThan, Nat)
  BY NatLessThanWellFounded, Zenon DEF LessThan
<1>2. PICK x \in T : \A y \in T : ~(<<y, x>> \in LessThan)
  BY <1>1, WFMin, Zenon
<1>3. ASSUME NEW y \in T PROVE x <= y
  <2>1. ~(y < x)
    BY <1>2, LessThanHolds, Zenon
  <2> QED BY <2>1
<1> QED BY <1>3, Zenon

(* The class t and its ancestors, as a set. *)
Line(rel, t) == {u \in Types : IsAncestor(rel, t, u)}

(* They are the least set that has t and is closed under rel. *)
LEMMA LineFacts ==
  ASSUME NEW rel \in SUBSET (Types \X Types), NEW t \in Types
  PROVE  /\ Line(rel, t) \in SUBSET Types /\ t \in Line(rel, t)
         /\ \A p \in rel : p[1] \in Line(rel, t) => p[2] \in Line(rel, t)
         /\ \A S \in SUBSET Types :
              t \in S /\ (\A p \in rel : p[1] \in S => p[2] \in S) => Line(rel, t) \subseteq S
<1>1. Line(rel, t) \in SUBSET Types /\ t \in Line(rel, t)
  BY DEF Line, IsAncestor
<1>2. ASSUME NEW p \in rel, p[1] \in Line(rel, t) PROVE p[2] \in Line(rel, t)
  <2>1. p[2] \in Types
    OBVIOUS
  <2>2. ASSUME NEW S \in SUBSET Types, t \in S, \A q \in rel : q[1] \in S => q[2] \in S
        PROVE  p[2] \in S
    BY <1>2, <2>2 DEF Line, IsAncestor
  <2> QED BY <2>1, <2>2 DEF Line, IsAncestor
<1>3. ASSUME NEW S \in SUBSET Types, t \in S, \A p \in rel : p[1] \in S => p[2] \in S
      PROVE  Line(rel, t) \subseteq S
  BY <1>3 DEF Line, IsAncestor
<1> QED BY <1>1, <1>2, <1>3

(* No class is its own ancestor. *)
Acyclic(rel) == \A p \in rel : p[1] \notin Line(rel, p[2])

LEMMA LineLeast ==
  ASSUME NEW rel \in SUBSET (Types \X Types), NEW t \in Types, NEW S \in SUBSET Types,
         t \in S, \A p \in rel : p[1] \in S => p[2] \in S
  PROVE  Line(rel, t) \subseteq S
  BY DEF Line, IsAncestor

(* A class that gets a parent of which it is no ancestor closes no circle. *)
LEMMA AcyclicAdd ==
  ASSUME NEW rel \in SUBSET (Types \X Types), Acyclic(rel),
         NEW c \in Types, NEW d \in Types, c \notin Line(rel, d)
  PROVE  Acyclic(rel \cup {<<c, d>>})
<1>1. PICK new \in SUBSET (Types \X Types) : new = rel \cup {<<c, d>>}
  <2>1. rel \cup {<<c, d>>} \in SUBSET (Types \X Types)
    OBVIOUS
  <2> QED BY <2>1, Zenon
<1>2. PICK A \in SUBSET Types :
        /\ A = Line(rel, d) /\ d \in A /\ c \notin A
        /\ \A p \in rel : p[1] \in A => p[2] \in A
  <2>1. /\ Line(rel, d) \in SUBSET Types /\ d \in Line(rel, d)
        /\ \A p \in rel : p[1] \in Line(rel, d) => p[2] \in Line(rel, d)
    BY LineFacts, Zenon
  <2> QED BY <2>1, Zenon
<1>3. \A p \in new : p[1] \in A => p[2] \in A
  BY <1>1, <1>2
<1> SUFFICES ASSUME NEW a \in Types, NEW b \in Types, <<a, b>> \in new PROVE a \notin Line(new, b)
  <2>1. ASSUME NEW p \in new PROVE p[1] \notin Line(new, p[2])
    <3>1. p[1] \in Types /\ p[2] \in Types /\ p = <<p[1], p[2]>>
      OBVIOUS
    <3> QED BY <3>1
  <2> QED BY <1>1, <2>1 DEF Acyclic
<1>4. CASE a = c /\ b = d
  <2>1. Line(new, d) \subseteq A
    BY <1>1, <1>2, <1>3, LineLeast
  <2> QED BY <1>2, <1>4, <2>1
<1>5. CASE <<a, b>> \in rel
  <2>1. a \notin Line(rel, b)
    <3>1. <<a, b>>[1] \notin Line(rel, <<a, b>>[2])
      BY <1>5 DEF Acyclic
    <3> QED BY <3>1
  <2>2. PICK B \in SUBSET Types :
          /\ B = Line(rel, b) /\ b \in B
          /\ \A q \in rel : q[1] \in B => q[2] \in B
    <3>1. /\ Line(rel, b) \in SUBSET Types /\ b \in Line(rel, b)
          /\ \A q \in rel : q[1] \in Line(rel, b) => q[2] \in Line(rel, b)
      BY LineFacts, Zenon
    <3> QED BY <3>1, Zenon
  <2>3. CASE c \notin B
    <3>1. \A q \in new : q[1] \in B => q[2] \in B
      BY <1>1, <2>2, <2>3
    <3>2. Line(new, b) \subseteq B
      BY <2>2, <3>1, LineLeast
    <3> QED BY <2>1, <2>2, <3>2
  <2>4. CASE c \in B
    <3>1. a \notin A
      <4> SUFFICES ASSUME a \in A PROVE FALSE
        OBVIOUS
      <4>1. b \in A
        BY <1>2, <1>5
      <4>2. B \subseteq A
        BY <1>2, <2>2, <4>1, LineLeast
      <4> QED BY <1>2, <2>4, <4>2
    <3>2. PICK C \in SUBSET Types : C = A \cup B
      OBVIOUS
    <3>3. \A q \in new : q[1] \in C => q[2] \in C
      BY <1>1, <1>2, <2>2, <3>2
    <3>4. b \in C
      BY <2>2, <3>2
    <3>5. Line(new, b) \subseteq C
      BY <3>3, <3>4, LineLeast
    <3> QED BY <2>1, <2>2, <3>1, <3>2, <3>5
  <2> QED BY <2>3, <2>4
<1> QED BY <1>1, <1>4, <1>5

(* Among finitely many classes one has no parent. *)
LEMMA RootExists ==
  ASSUME IsFiniteSet(Types), Types # {}, NEW rel \in SUBSET (Types \X Types), Acyclic(rel)
  PROVE  \E r \in Types : \A p \in rel : p[1] # r
<1> DEFINE Size(t) == Cardinality(Line(rel, t))
           T == {Size(t) : t \in Types}
<1>1. \A t \in Types : IsFiniteSet(Line(rel, t)) /\ Size(t) \in Nat
  <2> SUFFICES ASSUME NEW t \in Types PROVE IsFiniteSet(Line(rel, t)) /\ Size(t) \in Nat
    OBVIOUS
  <2>1. Line(rel, t) \in SUBSET Types
    BY LineFacts
  <2>2. IsFiniteSet(Line(rel, t))
    BY <2>1, FS_Subset
  <2> QED BY <2>2, FS_CardinalityType
<1>2. T \in SUBSET Nat /\ T # {}
  BY <1>1
<1>3. PICK n \in T : \A m \in T : n <= m
  <2> HIDE DEF T
  <2> QED BY <1>2, LeastNumber
<1>4. PICK r \in Types : n = Size(r)
  OBVIOUS
<1>5. ASSUME NEW p \in rel, p[1] = r PROVE FALSE
  <2>1. p[2] \in Types /\ r \notin Line(rel, p[2])
    BY <1>5 DEF Acyclic
  <2>2. p[2] \in Line(rel, r) /\ r \in Line(rel, r)
    BY <1>5, LineFacts
  <2>3. Line(rel, p[2]) \subseteq Line(rel, r)
    BY <2>1, <2>2, LineFacts
  <2>4. Line(rel, p[2]) # Line(rel, r)
    BY <2>1, <2>2
  <2>5. Size(p[2]) < Size(r)
    BY <1>1, <2>3, <2>4, FS_Subset
  <2>6. n <= Size(p[2])
    BY <1>3, <2>1
  <2> QED BY <1>1, <1>4, <2>1, <2>5, <2>6
<1> QED BY <1>5

(* The entries of the table are those the program has declared, one for    *)
(* each class that has a parent.                                           *)
TableIs(table, rel) ==
  /\ table \in Seq([child : Types, parent : Types]) /\ rel \in SUBSET (Types \X Types)
  /\ \A i \in 1..Len(table) : <<table[i].child, table[i].parent>> \in rel
  /\ \A p \in rel : \E i \in 1..Len(table) : table[i].child = p[1] /\ table[i].parent = p[2]
  /\ \A i, j \in 1..Len(table) : table[i].child = table[j].child => i = j
  /\ Acyclic(rel)

TableOK == TableIs(type_relations, declared)

(* A table for a program of finitely many classes has an entry less than   *)
(* there are classes, at most.                                             *)
LEMMA TableSize ==
  ASSUME IsFiniteSet(Types), Types # {}, NEW table, NEW rel, TableIs(table, rel)
  PROVE  Len(table) <= Cardinality(Types) - 1
<1>1. table \in Seq([child : Types, parent : Types]) /\ Len(table) \in Nat
  BY DEF TableIs
<1>2. PICK r \in Types : \A p \in rel : p[1] # r
  BY RootExists DEF TableIs
<1> DEFINE f == [i \in 1..Len(table) |-> table[i].child]
           R == Types \ {r}
<1>3. f \in Injection(1..Len(table), R)
  <2>1. ASSUME NEW i \in 1..Len(table) PROVE table[i].child \in R
    <3>1. table[i] \in [child : Types, parent : Types]
      BY <1>1, EntryOf
    <3>2. <<table[i].child, table[i].parent>> \in rel
      BY DEF TableIs
    <3>3. <<table[i].child, table[i].parent>>[1] # r
      BY <1>2, <3>2
    <3>4. table[i].child \in Types /\ table[i].child # r
      BY <3>1, <3>3
    <3> QED BY <3>4
  <2>2. \A i, j \in 1..Len(table) : f[i] = f[j] => i = j
    BY DEF TableIs
  <2> QED BY <2>1, <2>2 DEF Injection, IsInjective
<1>4. IsFiniteSet(R) /\ Cardinality(R) = Cardinality(Types) - 1
  BY FS_RemoveElement
<1> HIDE DEF f, R
<1>5. Cardinality(1..Len(table)) <= Cardinality(R)
  BY <1>3, <1>4, FS_Injection
<1>6. Cardinality(1..Len(table)) = Len(table)
  <2>1. PICK n \in Nat : n = Len(table)
    BY <1>1
  <2>2. n \in Int /\ 1 \in Int
    OBVIOUS
  <2>3. Cardinality(1..n) = IF 1 > n THEN 0 ELSE n - 1 + 1
    BY <2>2, FS_Interval
  <2> QED BY <2>1, <2>3
<1> QED BY <1>4, <1>5, <1>6

(* g is what the first m rounds of the walk from t find. *)
Rounds(g, m, t) ==
  g = [n \in 0..m |-> IF n = 0 THEN t ELSE IF g[n - 1] = NoType THEN NoType ELSE Parent(g[n - 1])]

LEMMA RoundsExist ==
  ASSUME NEW t, NEW m \in Nat
  PROVE  \E g : Rounds(g, m, t)
<1> DEFINE T == {n \in Nat : ~\E g : Rounds(g, n, t)}
<1> SUFFICES ASSUME T # {} PROVE FALSE
  OBVIOUS
<1>1. PICK n \in T : \A k \in T : n <= k
  <2>1. T \in SUBSET Nat
    OBVIOUS
  <2> HIDE DEF T
  <2> QED BY <2>1, LeastNumber
<1>2. n # 0
  <2>1. [k \in 0..0 |-> t][0] = t
    OBVIOUS
  <2>2. PICK g : g = [k \in 0..0 |-> t]
    OBVIOUS
  <2>3. Rounds(g, 0, t)
    BY <2>2 DEF Rounds
  <2> QED BY <2>3
<1>3. n - 1 \in Nat /\ n - 1 \notin T
  <2>1. n \in Nat
    OBVIOUS
  <2> HIDE DEF T
  <2> QED BY <1>1, <1>2, <2>1
<1>4. PICK g : Rounds(g, n - 1, t)
  BY <1>3
<1>5. PICK h : h = [k \in 0..n |-> IF k = 0 THEN t ELSE IF g[k - 1] = NoType THEN NoType ELSE Parent(g[k - 1])]
  OBVIOUS
<1>6. ASSUME NEW k \in 0..(n - 1) PROVE h[k] = g[k]
  BY <1>3, <1>4, <1>5 DEF Rounds
<1>7. Rounds(h, n, t)
  <2>1. ASSUME NEW k \in 0..n, k # 0 PROVE k - 1 \in 0..(n - 1)
    BY <1>3, <2>1
  <2>2. ASSUME NEW k \in 0..n, k # 0 PROVE h[k - 1] = g[k - 1]
    BY <2>1, <1>6, <2>2
  <2> QED BY <1>5, <2>2 DEF Rounds
<1> QED BY <1>7

(* The walk from t, round by round. *)
LEMMA WalkRounds ==
  ASSUME NEW t, Len(type_relations) \in Nat
  PROVE  Rounds(Walk(t), Len(type_relations), t)
<1>1. \E g : g = [n \in 0..Len(type_relations) |->
                   IF n = 0 THEN t ELSE IF g[n - 1] = NoType THEN NoType ELSE Parent(g[n - 1])]
  <2>1. PICK m \in Nat : m = Len(type_relations)
    OBVIOUS
  <2>2. PICK g : Rounds(g, m, t)
    BY RoundsExist
  <2> QED BY <2>1, <2>2, Zenon DEF Rounds
<1> QED BY <1>1, Zenon DEF Walk, Rounds

LEMMA WalkFacts ==
  ASSUME NEW t, Len(type_relations) \in Nat
  PROVE  /\ Walk(t)[0] = t
         /\ \A n \in 1..Len(type_relations) :
              Walk(t)[n] = IF Walk(t)[n - 1] = NoType THEN NoType ELSE Parent(Walk(t)[n - 1])
<1>1. PICK g : g = Walk(t)
  OBVIOUS
<1>2. Rounds(g, Len(type_relations), t)
  BY <1>1, WalkRounds
<1>3. g[0] = t /\ \A n \in 1..Len(type_relations) :
              g[n] = IF g[n - 1] = NoType THEN NoType ELSE Parent(g[n - 1])
  <2>1. 0 \in 0..Len(type_relations)
    OBVIOUS
  <2>2. ASSUME NEW n \in 1..Len(type_relations)
        PROVE  g[n] = IF g[n - 1] = NoType THEN NoType ELSE Parent(g[n - 1])
    <3>1. n \in 0..Len(type_relations) /\ n # 0
      OBVIOUS
    <3> QED BY <1>2, <3>1 DEF Rounds
  <2> QED BY <1>2, <2>1, <2>2 DEF Rounds
<1> QED BY <1>1, <1>3

(* The entry of a class in the table names its parent in the program. *)
LEMMA ParentFacts ==
  ASSUME TableOK, NEW x \in Types
  PROVE  /\ \A y \in Types : <<x, y>> \in declared => Parent(x) = y
         /\ Parent(x) # NoType => Parent(x) \in Types /\ <<x, Parent(x)>> \in declared
<1> DEFINE found == {i \in 1..Len(type_relations) : type_relations[i].child = x}
<1>1. type_relations \in Seq([child : Types, parent : Types]) /\ Len(type_relations) \in Nat
  BY DEF TableOK, TableIs
<1>2. Parent(x) = IF found = {} THEN NoType
                  ELSE type_relations[CHOOSE i \in found : \A j \in found : i <= j].parent
  BY Zenon DEF Parent
<1>3. CASE found = {}
  <2>1. Parent(x) = NoType
    BY <1>2, <1>3
  <2>2. ASSUME NEW y \in Types, <<x, y>> \in declared PROVE FALSE
    <3>1. PICK i \in 1..Len(type_relations) : type_relations[i].child = <<x, y>>[1]
      BY <2>2 DEF TableOK, TableIs
    <3> QED BY <1>3, <3>1
  <2> QED BY <2>1, <2>2
<1>4. CASE found # {}
  <2>1. PICK i \in found : \A j \in found : i <= j
    <3>1. found \in SUBSET Nat
      OBVIOUS
    <3> HIDE DEF found
    <3> QED BY <1>4, <3>1, LeastNumber
  <2>2. PICK k : k = CHOOSE j \in found : \A l \in found : j <= l
    OBVIOUS
  <2>3. k \in found
    BY <2>1, <2>2, Zenon
  <2>4. Parent(x) = type_relations[k].parent
    BY <1>2, <1>4, <2>2, Zenon
  <2>5. k \in 1..Len(type_relations) /\ type_relations[k].child = x
    BY <2>3
  <2>6. Parent(x) \in Types /\ <<x, Parent(x)>> \in declared
    BY <1>1, <2>4, <2>5 DEF TableOK, TableIs
  <2>7. ASSUME NEW y \in Types, <<x, y>> \in declared PROVE Parent(x) = y
    <3>1. PICK i2 \in 1..Len(type_relations) :
            type_relations[i2].child = x /\ type_relations[i2].parent = y
      <4>1. \E i2 \in 1..Len(type_relations) :
              type_relations[i2].child = <<x, y>>[1] /\ type_relations[i2].parent = <<x, y>>[2]
        BY <2>7, Zenon DEF TableOK, TableIs
      <4> QED BY <4>1
    <3>2. i2 = k
      BY <2>5, <3>1 DEF TableOK, TableIs
    <3> QED BY <2>4, <3>1, <3>2
  <2> QED BY <2>6, <2>7
<1> QED BY <1>3, <1>4

(* g is a walk from t of at most n rounds. *)
IsWalk(g, n, t) ==
  /\ n \in Nat /\ t \in Types /\ g[0] = t
  /\ \A k \in 1..n : g[k] = IF g[k - 1] = NoType THEN NoType ELSE Parent(g[k - 1])

LEMMA WalkTypes ==
  ASSUME TableOK, NEW g, NEW n, NEW t, IsWalk(g, n, t)
  PROVE  \A k \in 0..n : g[k] \in Types \cup {NoType}
<1> DEFINE T == {k \in 0..n : g[k] \notin Types \cup {NoType}}
<1>1. n \in Nat
  BY DEF IsWalk
<1> SUFFICES ASSUME T # {} PROVE FALSE
  OBVIOUS
<1>2. PICK k \in T : \A j \in T : k <= j
  <2>1. T \in SUBSET Nat
    BY <1>1
  <2> HIDE DEF T
  <2> QED BY <2>1, LeastNumber
<1>3. k # 0
  BY DEF IsWalk
<1>4. k \in 1..n /\ k - 1 \in 0..n /\ k - 1 \notin T
  BY <1>1, <1>2, <1>3
<1>5. PICK x \in Types \cup {NoType} : x = g[k - 1]
  BY <1>4
<1>6. g[k] = IF x = NoType THEN NoType ELSE Parent(x)
  BY <1>4, <1>5 DEF IsWalk
<1>7. CASE x = NoType
  BY <1>6, <1>7
<1>8. CASE x \in Types
  BY <1>6, <1>8, ParentFacts, TypesAssumption
<1> QED BY <1>7, <1>8

(* A round takes a class to its parent. *)
LEMMA WalkUp ==
  ASSUME TableOK, NEW g, NEW n, NEW t, IsWalk(g, n, t), NEW k \in 1..n, g[k] \in Types
  PROVE  k - 1 \in 0..n /\ g[k - 1] \in Types /\ <<g[k - 1], g[k]>> \in declared
<1>1. n \in Nat /\ k - 1 \in 0..n
  BY DEF IsWalk
<1>2. PICK x \in Types \cup {NoType} : x = g[k - 1]
  BY <1>1, WalkTypes
<1>3. g[k] = IF x = NoType THEN NoType ELSE Parent(x)
  BY <1>2 DEF IsWalk
<1>4. x \in Types /\ g[k] = Parent(x)
  BY <1>3, TypesAssumption
<1>5. Parent(x) # NoType
  BY <1>4, TypesAssumption
<1>6. <<x, Parent(x)>> \in declared
  BY <1>4, <1>5, ParentFacts
<1> QED BY <1>1, <1>2, <1>4, <1>6

(* Every class the walk finds is an ancestor of those it found before. *)
LEMMA WalkClimbs ==
  ASSUME TableOK, NEW g, NEW n, NEW t, IsWalk(g, n, t), NEW j \in 0..n
  PROVE  \A k \in j..n : g[k] \in Types => g[j] \in Types /\ g[k] \in Line(declared, g[j])
<1> DEFINE T == {k \in j..n : g[k] \in Types /\ ~(g[j] \in Types /\ g[k] \in Line(declared, g[j]))}
<1>1. n \in Nat /\ j \in Nat
  BY DEF IsWalk
<1> SUFFICES ASSUME T # {} PROVE FALSE
  OBVIOUS
<1>2. PICK k \in T : \A i \in T : k <= i
  <2>1. T \in SUBSET Nat
    BY <1>1
  <2> HIDE DEF T
  <2> QED BY <2>1, LeastNumber
<1>3. k # j
  <2> SUFFICES ASSUME k = j PROVE FALSE
    OBVIOUS
  <2>1. PICK x \in Types : x = g[j]
    OBVIOUS
  <2>2. x \in Line(declared, x)
    BY LineFacts DEF TableOK, TableIs
  <2> QED BY <2>1, <2>2
<1>4. k \in 1..n /\ k - 1 \in j..n /\ k - 1 \notin T /\ g[k] \in Types
  <2>1. k \in j..n /\ g[k] \in Types
    OBVIOUS
  <2> HIDE DEF T
  <2> QED BY <1>1, <1>2, <1>3, <2>1
<1>5. g[k - 1] \in Types /\ <<g[k - 1], g[k]>> \in declared
  BY <1>4, WalkUp
<1>6. g[j] \in Types /\ g[k - 1] \in Line(declared, g[j])
  BY <1>4, <1>5
<1>7. g[k] \in Line(declared, g[j])
  <2>1. PICK x \in Types : x = g[j]
    BY <1>6
  <2>2. \A p \in declared : p[1] \in Line(declared, x) => p[2] \in Line(declared, x)
    BY LineFacts DEF TableOK, TableIs
  <2>3. <<g[k - 1], g[k]>>[1] \in Line(declared, x) => <<g[k - 1], g[k]>>[2] \in Line(declared, x)
    BY <1>5, <2>2
  <2> QED BY <1>6, <2>1, <2>3
<1> QED BY <1>6, <1>7

(* The walk finds no class twice. *)
LEMMA WalkDistinct ==
  ASSUME TableOK, NEW g, NEW n, NEW t, IsWalk(g, n, t),
         NEW i \in 0..n, NEW k \in 0..n, i < k, g[i] = g[k], g[k] \in Types
  PROVE  FALSE
<1>1. n \in Nat
  BY DEF IsWalk
<1>2. k \in 1..n /\ k - 1 \in i..n /\ k - 1 \in 0..n
  BY <1>1
<1>3. g[k - 1] \in Types /\ <<g[k - 1], g[k]>> \in declared
  BY <1>2, WalkUp
<1>4. g[k - 1] \in Line(declared, g[i])
  BY <1>2, <1>3, WalkClimbs
<1>5. g[k - 1] \notin Line(declared, g[k])
  <2>1. <<g[k - 1], g[k]>>[1] \notin Line(declared, <<g[k - 1], g[k]>>[2])
    BY <1>3 DEF TableOK, TableIs, Acyclic
  <2> QED BY <2>1
<1> QED BY <1>4, <1>5

(* A walk with a round for each entry of the table ends at the root. *)
LEMMA WalkEnds ==
  ASSUME TableOK, NEW g, NEW n, NEW t, IsWalk(g, n, t), n = Len(type_relations),
         NEW x \in Types, NEW y \in Types, <<x, y>> \in declared
  PROVE  g[n] # x
<1> SUFFICES ASSUME g[n] = x PROVE FALSE
  OBVIOUS
<1>1. n \in Nat
  BY DEF IsWalk
<1>2. \A k \in 0..n : g[k] \in Types
  <2> SUFFICES ASSUME NEW k \in 0..n PROVE g[k] \in Types
    OBVIOUS
  <2>1. n \in k..n
    BY <1>1
  <2> QED BY <2>1, WalkClimbs
<1>3. \A k \in 0..n : \E i \in 1..n : type_relations[i].child = g[k]
  <2> SUFFICES ASSUME NEW k \in 0..n PROVE \E i \in 1..n : type_relations[i].child = g[k]
    OBVIOUS
  <2>1. PICK z \in Types : <<g[k], z>> \in declared
    <3>1. CASE k = n
      BY <3>1
    <3>2. CASE k # n
      <4>1. k + 1 \in 1..n /\ k + 1 \in 0..n /\ (k + 1) - 1 = k
        BY <1>1, <3>2
      <4>2. PICK l \in 1..n : l = k + 1
        BY <4>1
      <4>3. g[l] \in Types /\ l - 1 = k
        BY <1>2, <4>1, <4>2
      <4>4. <<g[l - 1], g[l]>> \in declared
        BY <4>3, WalkUp
      <4> QED BY <4>3, <4>4
    <3> QED BY <3>1, <3>2
  <2>2. \E i \in 1..n : type_relations[i].child = <<g[k], z>>[1]
    BY <2>1 DEF TableOK, TableIs
  <2> QED BY <2>2
<1> DEFINE f == [k \in 0..n |-> CHOOSE i \in 1..n : type_relations[i].child = g[k]]
<1>4. \A k \in 0..n : f[k] \in 1..n /\ type_relations[f[k]].child = g[k]
  BY <1>3
<1>5. f \in [0..n -> 1..n]
  BY <1>4
<1>6. IsFiniteSet(1..n) /\ Cardinality(1..n) = n /\ Cardinality(0..n) = n + 1
  <2>1. n \in Int /\ 0 \in Int /\ 1 \in Int
    BY <1>1
  <2>2. IsFiniteSet(1..n) /\ Cardinality(1..n) = IF 1 > n THEN 0 ELSE n - 1 + 1
    BY <2>1, FS_Interval
  <2>3. Cardinality(0..n) = IF 0 > n THEN 0 ELSE n - 0 + 1
    BY <2>1, FS_Interval
  <2> QED BY <1>1, <2>2, <2>3
<1> HIDE DEF f
<1>7. Cardinality(1..n) < Cardinality(0..n) /\ IsFiniteSet(0..n)
  <2>1. IsFiniteSet(0..n)
    BY <1>1, FS_Interval
  <2> QED BY <1>1, <1>6, <2>1
<1>8. PICK i, k \in 0..n : i # k /\ f[i] = f[k]
  <2>1. PICK A, B : A = 0..n /\ B = 1..n
    OBVIOUS
  <2>2. IsFiniteSet(A) /\ IsFiniteSet(B) /\ Cardinality(B) < Cardinality(A) /\ f \in [A -> B]
    BY <1>5, <1>6, <1>7, <2>1
  <2>3. \E i, k \in A : i # k /\ f[i] = f[k]
    BY <2>2, FS_PigeonHole
  <2> QED BY <2>1, <2>3
<1>9. g[i] = g[k]
  BY <1>4, <1>8
<1>10. CASE i < k
  BY <1>2, <1>9, <1>10, WalkDistinct
<1>11. CASE k < i
  BY <1>2, <1>9, <1>11, WalkDistinct
<1> QED BY <1>1, <1>8, <1>10, <1>11

(* What the walk from a class finds is the class and its ancestors. *)
LEMMA WalkFinds ==
  ASSUME TableOK, NEW g, NEW n, NEW t, IsWalk(g, n, t), n = Len(type_relations)
  PROVE  \A u \in Types : u \in Line(declared, t) <=> \E k \in 0..n : g[k] = u
<1>1. n \in Nat /\ t \in Types /\ g[0] = t
  BY DEF IsWalk
<1>2. ASSUME NEW u \in Types, NEW k \in 0..n, g[k] = u PROVE u \in Line(declared, t)
  <2>1. 0 \in 0..n /\ k \in 0..n
    BY <1>1
  <2> QED BY <1>1, <1>2, <2>1, WalkClimbs
<1>3. PICK V \in SUBSET Types : V = {u \in Types : \E k \in 0..n : g[k] = u}
  OBVIOUS
<1>4. t \in V
  <2>1. 0 \in 0..n
    BY <1>1
  <2> QED BY <1>1, <1>3, <2>1
<1>5. ASSUME NEW p \in declared, p[1] \in V PROVE p[2] \in V
  <2>1. PICK x \in Types, y \in Types : p = <<x, y>> /\ <<x, y>> \in declared
    BY DEF TableOK, TableIs
  <2>2. PICK k \in 0..n : g[k] = x
    BY <1>3, <1>5, <2>1
  <2>3. k # n
    BY <2>1, <2>2, WalkEnds
  <2>4. k + 1 \in 1..n /\ k + 1 \in 0..n /\ (k + 1) - 1 = k
    BY <1>1, <2>3
  <2>5. g[k + 1] = IF x = NoType THEN NoType ELSE Parent(x)
    BY <2>2, <2>4 DEF IsWalk
  <2>6. Parent(x) = y
    BY <2>1, ParentFacts
  <2> QED BY <1>3, <2>1, <2>4, <2>5, <2>6, TypesAssumption
<1>6. Line(declared, t) \subseteq V
  <2>1. declared \in SUBSET (Types \X Types)
    BY DEF TableOK, TableIs
  <2> QED BY <1>1, <1>4, <1>5, <2>1, LineLeast
<1> QED BY <1>2, <1>3, <1>6

(* The run-time test and the program agree as long as the table holds what *)
(* was declared.                                                           *)
LEMMA TestIsSubclass == TableOK => TypeTestIsSubclass
<1> SUFFICES ASSUME TableOK, NEW t \in Types, NEW u \in Types
             PROVE  IsType(t, u) <=> IsAncestor(declared, t, u)
  BY DEF TypeTestIsSubclass
<1>1. PICK n \in Nat : n = Len(type_relations)
  BY DEF TableOK, TableIs
<1>2. PICK g : g = Walk(t)
  OBVIOUS
<1>3. IsWalk(g, n, t)
  <2>1. /\ Walk(t)[0] = t
        /\ \A k \in 1..Len(type_relations) :
             Walk(t)[k] = IF Walk(t)[k - 1] = NoType THEN NoType ELSE Parent(Walk(t)[k - 1])
    BY <1>1, WalkFacts
  <2> QED BY <1>1, <1>2, <2>1 DEF IsWalk
<1>4. u \in Line(declared, t) <=> \E k \in 0..n : g[k] = u
  BY <1>1, <1>3, WalkFinds
<1>5. IsType(t, u) <=> \E k \in 0..n : g[k] = u
  BY <1>1, <1>2 DEF IsType
<1> QED BY <1>4, <1>5 DEF Line

(* The table has an entry for every class of the program that has a        *)
(* parent.                                                                 *)
RoomForAll == IsFiniteSet(Types) /\ Cardinality(Types) <= MaxTypes + 1

LEMMA TableAdd ==
  ASSUME NEW table, NEW rel, TableIs(table, rel), NEW c \in Types, NEW d \in Types,
         \A p \in rel : p[1] # c, ~IsAncestor(rel, d, c)
  PROVE  TableIs(Append(table, [child |-> c, parent |-> d]), rel \cup {<<c, d>>})
<1>1. PICK e \in [child : Types, parent : Types] : e = [child |-> c, parent |-> d]
  OBVIOUS
<1>2. PICK longer : longer = Append(table, e)
  OBVIOUS
<1>3. PICK more \in SUBSET (Types \X Types) : more = rel \cup {<<c, d>>}
  <2>1. rel \cup {<<c, d>>} \in SUBSET (Types \X Types)
    BY DEF TableIs
  <2> QED BY <2>1, Zenon
<1>4. table \in Seq([child : Types, parent : Types]) /\ Len(table) \in Nat
  BY DEF TableIs
<1>5. /\ longer \in Seq([child : Types, parent : Types])
      /\ Len(longer) = Len(table) + 1 /\ longer[Len(table) + 1] = e
      /\ \A i \in 1..Len(table) : longer[i] = table[i]
  BY <1>2, <1>4
<1>6. \A i \in 1..Len(longer) : i \in 1..Len(table) \/ (i = Len(table) + 1 /\ longer[i] = e)
  BY <1>4, <1>5
<1>7. \A i \in 1..Len(longer) : <<longer[i].child, longer[i].parent>> \in more
  <2> SUFFICES ASSUME NEW i \in 1..Len(longer) PROVE <<longer[i].child, longer[i].parent>> \in more
    OBVIOUS
  <2>1. CASE i \in 1..Len(table)
    <3>1. <<table[i].child, table[i].parent>> \in rel
      BY <2>1 DEF TableIs
    <3> QED BY <1>3, <1>5, <2>1, <3>1
  <2>2. CASE longer[i] = e
    BY <1>1, <1>3, <2>2
  <2> QED BY <1>6, <2>1, <2>2
<1>8. \A p \in more : \E i \in 1..Len(longer) : longer[i].child = p[1] /\ longer[i].parent = p[2]
  <2> SUFFICES ASSUME NEW p \in more
               PROVE  \E i \in 1..Len(longer) : longer[i].child = p[1] /\ longer[i].parent = p[2]
    OBVIOUS
  <2>1. CASE p = <<c, d>>
    <3>1. Len(table) + 1 \in 1..Len(longer)
      BY <1>4, <1>5
    <3>2. longer[Len(table) + 1].child = c /\ longer[Len(table) + 1].parent = d
      BY <1>1, <1>5
    <3>3. p[1] = c /\ p[2] = d
      BY <2>1
    <3> QED BY <3>1, <3>2, <3>3
  <2>2. CASE p \in rel
    <3>1. PICK i \in 1..Len(table) : table[i].child = p[1] /\ table[i].parent = p[2]
      BY <2>2 DEF TableIs
    <3>2. i \in 1..Len(longer)
      BY <1>4, <1>5
    <3> QED BY <1>5, <3>1, <3>2
  <2> QED BY <1>3, <2>1, <2>2
<1>9. \A i \in 1..Len(table) : table[i].child # c
  <2> SUFFICES ASSUME NEW i \in 1..Len(table) PROVE table[i].child # c
    OBVIOUS
  <2>1. <<table[i].child, table[i].parent>> \in rel
    BY DEF TableIs
  <2>2. <<table[i].child, table[i].parent>>[1] # c
    BY <2>1
  <2> QED BY <2>2
<1>10. \A i, j \in 1..Len(longer) : longer[i].child = longer[j].child => i = j
  <2> SUFFICES ASSUME NEW i \in 1..Len(longer), NEW j \in 1..Len(longer),
                      longer[i].child = longer[j].child
               PROVE  i = j
    OBVIOUS
  <2>1. e.child = c
    BY <1>1
  <2> QED BY <1>5, <1>6, <1>9, <2>1 DEF TableIs
<1>11. Acyclic(more)
  <2>1. c \notin Line(rel, d) /\ rel \in SUBSET (Types \X Types) /\ Acyclic(rel)
    BY DEF Line, TableIs
  <2>2. Acyclic(rel \cup {<<c, d>>})
    BY <2>1, AcyclicAdd
  <2> QED BY <1>3, <2>2
<1>12. TableIs(longer, more)
  BY <1>5, <1>7, <1>8, <1>10, <1>11 DEF TableIs
<1> QED BY <1>1, <1>2, <1>3, <1>12

LEMMA TableNext ==
  ASSUME RoomForAll, TableOK, [Next]_vars
  PROVE  TableOK'
<1>1. ASSUME NEW c \in Types, NEW d \in Types, RegisterType(c, d) PROVE TableOK'
  <2>1. /\ \A p \in declared : p[1] # c /\ ~IsAncestor(declared, d, c)
        /\ declared' = declared \cup {<<c, d>>}
        /\ type_relations' = IF Len(type_relations) < MaxTypes
                             THEN Append(type_relations, [child |-> c, parent |-> d])
                             ELSE type_relations
    BY <1>1, Zenon DEF RegisterType
  <2>2. TableIs(type_relations, declared)
    BY DEF TableOK
  <2>3. TableIs(Append(type_relations, [child |-> c, parent |-> d]), declared \cup {<<c, d>>})
    <3>1. ~IsAncestor(declared, d, c)
      BY <1>1, Zenon DEF RegisterType
    <3> QED BY <2>1, <2>2, <3>1, TableAdd
  <2>4. Len(type_relations) < MaxTypes
    <3>1. PICK longer, more : /\ longer = Append(type_relations, [child |-> c, parent |-> d])
                              /\ more = declared \cup {<<c, d>>}
      OBVIOUS
    <3>2. TableIs(longer, more)
      BY <2>3, <3>1
    <3>3. IsFiniteSet(Types) /\ Types # {} /\ Cardinality(Types) <= MaxTypes + 1
      BY DEF RoomForAll
    <3>4. Len(longer) <= Cardinality(Types) - 1
      BY <3>2, <3>3, TableSize
    <3>5. Len(longer) = Len(type_relations) + 1 /\ Len(type_relations) \in Nat
      <4>1. type_relations \in Seq([child : Types, parent : Types])
        BY <2>2 DEF TableIs
      <4> QED BY <3>1, <4>1
    <3>6. Cardinality(Types) \in Nat
      BY <3>3, FS_CardinalityType
    <3> QED BY <3>3, <3>4, <3>5, <3>6, LimitsAssumption
  <2>5. type_relations' = Append(type_relations, [child |-> c, parent |-> d])
    BY <2>1, <2>4
  <2> QED BY <2>1, <2>3, <2>5 DEF TableOK
<1>2. ASSUME UNCHANGED <<type_relations, declared>> PROVE TableOK'
  BY <1>2 DEF TableOK
<1>3. CASE Start \/ TryLeave \/ Clear \/ Halted \/ UNCHANGED vars
  BY <1>2, <1>3 DEF Start, TryLeave, Clear, Halted, vars
<1>4. ASSUME NEW h \in Handlers, TryEnter(h) PROVE TableOK'
  BY <1>2, <1>4 DEF TryEnter
<1>5. ASSUME NEW t \in Types, Throw(t) PROVE TableOK'
  BY <1>2, <1>5 DEF Throw
<1> QED BY <1>1, <1>3, <1>4, <1>5 DEF Next

(* A catch clause takes an exception exactly if the clause's class is the  *)
(* exception's class or one of its ancestors in the program, as long as    *)
(* the table has room for every class with a parent.  The walk through the *)
(* table has a round per entry; that these are enough rests on no class    *)
(* being its own ancestor (lplrt.c, __lpl_exception_register_type and      *)
(* __lpl_exception_is_type).                                               *)
THEOREM TypeTestsAreRight ==
  ASSUME RoomForAll
  PROVE  Spec => []TypeTestIsSubclass
<1>1. Init => TableOK
  BY DEF Init, TableOK, TableIs, Acyclic
<1> QED BY <1>1, TableNext, TestIsSubclass, PTL DEF Spec
=============================================================================
