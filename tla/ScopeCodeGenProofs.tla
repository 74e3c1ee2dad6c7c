------------------------- MODULE ScopeCodeGenProofs -------------------------
(***************************************************************************)
(* Theorems about ScopeCodeGen: for texts of every length, every depth of  *)
(* nesting and every choice of features, the generator's stacks and jump   *)
(* targets are what the bodies open at the moment call for; and the code   *)
(* it makes passes the IR verifier (the second half of the module).        *)
(*                                                                         *)
(* The inductive invariant has three parts, each about the stack of open   *)
(* bodies and something kept beside it: the blocks of the function         *)
(* (ShapeOK), the jump targets (JumpsOK) and the scopes (ScopesOK).  They  *)
(* are operators of sequences, so that what pushing, replacing and popping *)
(* a frame does to each is a lemma without any action; the actions then    *)
(* only say which of the three they do.                                    *)
(***************************************************************************)
EXTENDS ScopeCodeGen, FiniteSetTheorems, SequenceTheorems, WellFoundedInduction, TLAPS

-----------------------------------------------------------------------------
(* The invariant. *)

(* What a handler that generates a body of each kind has in its locals, in *)
(* a function of n blocks.                                                 *)
FrameOK(f, n) ==
  /\ f.kind \in {"function", "lambda", "block", "forscope", "catch"} => f.scoped
  /\ f.kind \in {"case", "try", "dispatch", "finally", "elsehead"} => ~f.scoped
  /\ f.kind \in {"then", "elsehead", "else", "loop", "case", "try", "dispatch",
                 "catch", "lambda"} => f.next \in 1..n
  /\ f.kind \in {"loop", "case", "try", "dispatch", "catch"} => f.alt \in 1..n
  /\ f.kind = "then" => f.alt \in 0..n
  /\ f.kind = "elsehead" => f.alt \in 1..n
  /\ f.kind = "case" => f.alt <= f.fin /\ f.fin <= n

(* Every frame has its blocks; the function is the outermost body. *)
ShapeOK(o, n) ==
  \A k \in 1..Len(o) : FrameOK(o[k], n) /\ (o[k].kind = "function" <=> k = 1)

(* JumpTargets and its part of CleanAtEnd. *)
JumpsOK(o, b, c) ==
  /\ o # <<>> => /\ b = BreakIn(o[Len(o)]) /\ c = ContinueIn(o[Len(o)])
                 /\ o[1].brk = 0 /\ o[1].cont = 0
  /\ o = <<>> => b = 0 /\ c = 0
  /\ \A k \in 1..(Len(o) - 1) : /\ o[k + 1].brk = BreakIn(o[k])
                                /\ o[k + 1].cont = ContinueIn(o[k])

Scoped(o) == {k \in 1..Len(o) : o[k].scoped}

ZeroMark == [objs |-> 0, defs |-> 0]

(* NestedScopes and its part of CleanAtEnd, with n objects and d deferred  *)
(* statements registered.                                                  *)
ScopesOK(o, sc, n, d) ==
  /\ Len(sc) = Cardinality(Scoped(o))
  /\ \A j \in 1..Len(sc) :
       /\ sc[j].objs <= n /\ sc[j].defs <= d
       /\ \A i \in 1..j : sc[i].objs <= sc[j].objs /\ sc[i].defs <= sc[j].defs
  /\ o # <<>> => sc # <<>> /\ sc[1] = ZeroMark
  /\ o = <<>> => n = 0 /\ d = 0

IInv ==
  /\ TypeOK
  /\ ShapeOK(open, Len(code))
  /\ JumpsOK(open, breakTarget, continueTarget)
  /\ ScopesOK(open, scopes, Len(cleanups), Len(defers))

-----------------------------------------------------------------------------
(* The stack of bodies: replacing the top frame, pushing one, popping one. *)

(* The three ways the stack of bodies changes, as sequences. *)
LEMMA StackReplace ==
  ASSUME NEW o \in Seq(Frame), o # <<>>, NEW g \in Frame
  PROVE  LET p == [o EXCEPT ![Len(o)] = g]
         IN  /\ p \in Seq(Frame) /\ Len(p) = Len(o) /\ p # <<>>
             /\ p[Len(o)] = g
             /\ \A k \in 1..(Len(o) - 1) : p[k] = o[k]
             /\ Len(o) \in Nat /\ Len(o) >= 1
  OBVIOUS

(* A frame on top of the others. *)
LEMMA StackPush ==
  ASSUME NEW S, NEW o \in Seq(S), NEW f \in S
  PROVE  LET p == Append(o, f)
         IN  /\ p \in Seq(S) /\ Len(p) = Len(o) + 1 /\ p # <<>>
             /\ p[Len(o) + 1] = f
             /\ \A k \in 1..Len(o) : p[k] = o[k]
  OBVIOUS

(* The top frame gone. *)
LEMMA StackPop ==
  ASSUME NEW S, NEW o \in Seq(S), o # <<>>
  PROVE  LET p == Front(o)
         IN  /\ p \in Seq(S) /\ Len(p) = Len(o) - 1
             /\ \A k \in 1..(Len(o) - 1) : p[k] = o[k]
             /\ Len(o) \in Nat /\ Len(o) >= 1
<1>1. Len(o) \in Nat /\ Len(o) >= 1
  OBVIOUS
<1>2. Front(o) = [k \in 1..(Len(o) - 1) |-> o[k]]
  BY <1>1 DEF Front
<1>3. \A k \in 1..(Len(o) - 1) : o[k] \in S
  OBVIOUS
<1> QED BY <1>1, <1>2, <1>3

(* The first n elements. *)
LEMMA Prefix ==
  ASSUME NEW S, NEW s \in Seq(S), NEW n \in 0..Len(s)
  PROVE  SubSeq(s, 1, n) \in Seq(S) /\ Len(SubSeq(s, 1, n)) = n
<1>1. SubSeq(s, 1, n) = [k \in 1..n |-> s[k]]
  OBVIOUS
<1>2. \A k \in 1..n : s[k] \in S
  OBVIOUS
<1> QED BY <1>1, <1>2

(* Frames keep their blocks when the function gets more of them. *)
LEMMA FrameGrows ==
  ASSUME NEW f \in Frame, NEW n \in Nat, NEW m \in Nat, n <= m, FrameOK(f, n)
  PROVE  FrameOK(f, m)
  BY DEF FrameOK, Frame

(* ShapeOK when the top frame is replaced. *)
LEMMA ShapeReplace ==
  ASSUME NEW o \in Seq(Frame), o # <<>>, NEW g \in Frame,
         NEW n \in Nat, NEW m \in Nat, n <= m, ShapeOK(o, n),
         FrameOK(g, m), g.kind = "function" <=> o[Len(o)].kind = "function"
  PROVE  ShapeOK([o EXCEPT ![Len(o)] = g], m)
<1> DEFINE p == [o EXCEPT ![Len(o)] = g]
<1> SUFFICES ASSUME NEW k \in 1..Len(p)
             PROVE  FrameOK(p[k], m) /\ (p[k].kind = "function" <=> k = 1)
  BY DEF ShapeOK
<1>1. /\ Len(p) = Len(o) /\ p[Len(o)] = g /\ \A j \in 1..(Len(o) - 1) : p[j] = o[j]
      /\ Len(o) \in Nat /\ Len(o) >= 1
  BY StackReplace
<1> HIDE DEF p
<1>2. CASE k = Len(o)
  BY <1>1, <1>2 DEF ShapeOK
<1>3. CASE k \in 1..(Len(o) - 1)
  <2>1. FrameOK(o[k], n) /\ (o[k].kind = "function" <=> k = 1) /\ o[k] \in Frame
    BY <1>1, <1>3 DEF ShapeOK
  <2> QED BY <1>1, <1>3, <2>1, FrameGrows
<1> QED BY <1>1, <1>2, <1>3

(* ShapeOK when a frame is pushed. *)
LEMMA ShapePush ==
  ASSUME NEW o \in Seq(Frame), o # <<>>, NEW f \in Frame,
         NEW n \in Nat, NEW m \in Nat, n <= m, ShapeOK(o, n),
         FrameOK(f, m), f.kind # "function"
  PROVE  ShapeOK(Append(o, f), m)
<1> DEFINE p == Append(o, f)
<1> SUFFICES ASSUME NEW k \in 1..Len(p)
             PROVE  FrameOK(p[k], m) /\ (p[k].kind = "function" <=> k = 1)
  BY DEF ShapeOK
<1>1. Len(p) = Len(o) + 1 /\ p[Len(o) + 1] = f /\ \A j \in 1..Len(o) : p[j] = o[j]
  BY StackPush
<1>2. CASE k = Len(o) + 1
  BY <1>1, <1>2
<1>3. CASE k \in 1..Len(o)
  BY <1>1, <1>3, FrameGrows DEF ShapeOK
<1> QED BY <1>1, <1>2, <1>3

(* ShapeOK when the top frame goes. *)
LEMMA ShapePop ==
  ASSUME NEW o \in Seq(Frame), o # <<>>,
         NEW n \in Nat, NEW m \in Nat, n <= m, ShapeOK(o, n)
  PROVE  ShapeOK(Front(o), m)
<1> SUFFICES ASSUME NEW k \in 1..Len(Front(o))
             PROVE  FrameOK(Front(o)[k], m) /\ (Front(o)[k].kind = "function" <=> k = 1)
  BY DEF ShapeOK
<1>1. Front(o)[k] = o[k] /\ k \in 1..Len(o)
  BY StackPop
<1> QED BY <1>1, FrameGrows DEF ShapeOK

(* JumpsOK when the top frame is replaced by one that has saved the same.  *)
LEMMA JumpsReplace ==
  ASSUME NEW o \in Seq(Frame), o # <<>>, NEW g \in Frame, NEW b, NEW c,
         JumpsOK(o, b, c), g.brk = o[Len(o)].brk, g.cont = o[Len(o)].cont
  PROVE  JumpsOK([o EXCEPT ![Len(o)] = g], BreakIn(g), ContinueIn(g))
<1> DEFINE p == [o EXCEPT ![Len(o)] = g]
<1>1. /\ Len(p) = Len(o) /\ p # <<>> /\ p[Len(o)] = g
      /\ \A j \in 1..(Len(o) - 1) : p[j] = o[j]
      /\ Len(o) \in Nat /\ Len(o) >= 1
  BY StackReplace
<1> HIDE DEF p
<1>2. p[1].brk = 0 /\ p[1].cont = 0
  <2>1. o[1].brk = 0 /\ o[1].cont = 0
    BY DEF JumpsOK
  <2>2. CASE Len(o) = 1
    BY <1>1, <2>1, <2>2
  <2>3. CASE Len(o) > 1
    BY <1>1, <2>1, <2>3
  <2> QED BY <1>1, <2>2, <2>3
<1>3. ASSUME NEW k \in 1..(Len(p) - 1)
      PROVE  p[k + 1].brk = BreakIn(p[k]) /\ p[k + 1].cont = ContinueIn(p[k])
  <2>1. o[k + 1].brk = BreakIn(o[k]) /\ o[k + 1].cont = ContinueIn(o[k]) /\ p[k] = o[k]
    BY <1>1 DEF JumpsOK
  <2>2. CASE k + 1 = Len(o)
    BY <1>1, <2>1, <2>2
  <2>3. CASE k + 1 \in 1..(Len(o) - 1)
    BY <1>1, <2>1, <2>3
  <2> QED BY <1>1, <2>2, <2>3
<1>4. JumpsOK(p, BreakIn(g), ContinueIn(g))
  BY <1>1, <1>2, <1>3 DEF JumpsOK
<1> QED BY <1>4 DEF p

(* JumpsOK when a frame is pushed that saves the current targets. *)
LEMMA JumpsPush ==
  ASSUME NEW o \in Seq(Frame), o # <<>>, NEW f \in Frame, NEW b, NEW c,
         JumpsOK(o, b, c), f.brk = b, f.cont = c
  PROVE  JumpsOK(Append(o, f), BreakIn(f), ContinueIn(f))
<1> DEFINE p == Append(o, f)
<1>1. /\ Len(p) = Len(o) + 1 /\ p # <<>> /\ p[Len(o) + 1] = f
      /\ \A j \in 1..Len(o) : p[j] = o[j]
  BY StackPush
<1>2. p[1].brk = 0 /\ p[1].cont = 0
  BY <1>1 DEF JumpsOK
<1>3. ASSUME NEW k \in 1..(Len(p) - 1)
      PROVE  p[k + 1].brk = BreakIn(p[k]) /\ p[k + 1].cont = ContinueIn(p[k])
  BY <1>1 DEF JumpsOK
<1> HIDE DEF p
<1>4. JumpsOK(p, BreakIn(f), ContinueIn(f))
  BY <1>1, <1>2, <1>3 DEF JumpsOK
<1> QED BY <1>4 DEF p

(* JumpsOK when a frame goes and the targets it has saved come back. *)
LEMMA JumpsPop ==
  ASSUME NEW o \in Seq(Frame), o # <<>>, NEW b, NEW c, JumpsOK(o, b, c)
  PROVE  JumpsOK(Front(o), o[Len(o)].brk, o[Len(o)].cont)
<1> DEFINE p == Front(o)
<1>1. /\ p \in Seq(Frame) /\ Len(p) = Len(o) - 1
      /\ \A k \in 1..(Len(o) - 1) : p[k] = o[k]
      /\ Len(o) \in Nat /\ Len(o) >= 1
  BY StackPop
<1> HIDE DEF p
<1>2. CASE Len(o) = 1
  <2>1. p = <<>>
    BY <1>1, <1>2
  <2> QED BY <1>1, <1>2, <2>1 DEF JumpsOK, p
<1>3. CASE Len(o) > 1
  <2>1. p # <<>> /\ Len(o) - 1 \in 1..(Len(o) - 1)
    BY <1>1, <1>3
  <2>2. o[(Len(o) - 1) + 1].brk = BreakIn(o[Len(o) - 1])
        /\ o[(Len(o) - 1) + 1].cont = ContinueIn(o[Len(o) - 1])
    BY <2>1 DEF JumpsOK
  <2>3. (Len(o) - 1) + 1 = Len(o) /\ p[Len(p)] = o[Len(o) - 1]
    BY <1>1, <2>1
  <2>4. p[1].brk = 0 /\ p[1].cont = 0
    BY <1>1, <1>3 DEF JumpsOK
  <2>5. ASSUME NEW k \in 1..(Len(p) - 1)
        PROVE  p[k + 1].brk = BreakIn(p[k]) /\ p[k + 1].cont = ContinueIn(p[k])
    <3>1. k \in 1..(Len(o) - 1) /\ k + 1 \in 1..(Len(o) - 1)
      BY <1>1
    <3>2. o[k + 1].brk = BreakIn(o[k]) /\ o[k + 1].cont = ContinueIn(o[k])
      BY <3>1 DEF JumpsOK
    <3> QED BY <1>1, <3>1, <3>2
  <2>6. JumpsOK(p, o[Len(o)].brk, o[Len(o)].cont)
    BY <2>1, <2>2, <2>3, <2>4, <2>5 DEF JumpsOK
  <2> QED BY <2>6 DEF p
<1> QED BY <1>1, <1>2, <1>3

-----------------------------------------------------------------------------
(* The bodies with a scope. *)

(* There are finitely many bodies with a scope. *)
LEMMA ScopedFinite ==
  ASSUME NEW o \in Seq(Frame)
  PROVE  IsFiniteSet(Scoped(o)) /\ Cardinality(Scoped(o)) \in Nat
<1>1. Len(o) \in Nat
  OBVIOUS
<1>2. IsFiniteSet(1..Len(o))
  BY <1>1, FS_Interval
<1>3. IsFiniteSet(Scoped(o))
  BY <1>2, FS_Subset DEF Scoped
<1> QED BY <1>3, FS_CardinalityType

(* One more when a body with a scope is pushed. *)
LEMMA ScopedPush ==
  ASSUME NEW o \in Seq(Frame), NEW f \in Frame
  PROVE  Cardinality(Scoped(Append(o, f))) =
           IF f.scoped THEN Cardinality(Scoped(o)) + 1 ELSE Cardinality(Scoped(o))
<1> DEFINE p == Append(o, f)
<1>1. /\ Len(p) = Len(o) + 1 /\ p[Len(o) + 1] = f /\ Len(o) \in Nat
      /\ \A j \in 1..Len(o) : p[j] = o[j]
  BY StackPush
<1> HIDE DEF p
<1>2. CASE f.scoped
  <2>1. Scoped(p) = Scoped(o) \cup {Len(o) + 1}
    BY <1>1, <1>2 DEF Scoped
  <2>2. Len(o) + 1 \notin Scoped(o)
    BY <1>1 DEF Scoped
  <2>3. Cardinality(Scoped(p)) = Cardinality(Scoped(o)) + 1
    BY <2>1, <2>2, ScopedFinite, FS_AddElement
  <2> QED BY <1>2, <2>3 DEF p
<1>3. CASE ~f.scoped
  <2>1. Scoped(p) = Scoped(o)
    BY <1>1, <1>3 DEF Scoped
  <2> QED BY <1>3, <2>1 DEF p
<1> QED BY <1>2, <1>3

(* One less when it goes. *)
LEMMA ScopedPop ==
  ASSUME NEW o \in Seq(Frame), o # <<>>
  PROVE  Cardinality(Scoped(Front(o))) =
           IF o[Len(o)].scoped THEN Cardinality(Scoped(o)) - 1 ELSE Cardinality(Scoped(o))
<1> DEFINE p == Front(o)
<1>1. /\ Len(p) = Len(o) - 1 /\ Len(o) \in Nat /\ Len(o) >= 1
      /\ \A k \in 1..(Len(o) - 1) : p[k] = o[k]
  BY StackPop
<1> HIDE DEF p
<1>2. CASE o[Len(o)].scoped
  <2>1. Scoped(p) = Scoped(o) \ {Len(o)}
    BY <1>1 DEF Scoped
  <2>2. Len(o) \in Scoped(o)
    BY <1>1, <1>2 DEF Scoped
  <2>3. Cardinality(Scoped(p)) = Cardinality(Scoped(o)) - 1
    BY <2>1, <2>2, ScopedFinite, FS_RemoveElement
  <2> QED BY <1>2, <2>3 DEF p
<1>3. CASE ~o[Len(o)].scoped
  <2>1. Scoped(p) = Scoped(o)
    BY <1>1, <1>3 DEF Scoped
  <2> QED BY <1>3, <2>1 DEF p
<1> QED BY <1>2, <1>3

(* The same when the top frame is replaced by one that agrees on it; one   *)
(* more or one less when it does not.                                      *)
LEMMA ScopedReplace ==
  ASSUME NEW o \in Seq(Frame), o # <<>>, NEW g \in Frame
  PROVE  Cardinality(Scoped([o EXCEPT ![Len(o)] = g])) =
           CASE g.scoped /\ ~o[Len(o)].scoped -> Cardinality(Scoped(o)) + 1
             [] ~g.scoped /\ o[Len(o)].scoped -> Cardinality(Scoped(o)) - 1
             [] OTHER -> Cardinality(Scoped(o))
<1> DEFINE p == [o EXCEPT ![Len(o)] = g]
<1>1. /\ Len(p) = Len(o) /\ p[Len(o)] = g /\ Len(o) \in Nat /\ Len(o) >= 1
      /\ \A j \in 1..(Len(o) - 1) : p[j] = o[j]
  BY StackReplace
<1> HIDE DEF p
<1>2. CASE g.scoped /\ ~o[Len(o)].scoped
  <2>1. Scoped(p) = Scoped(o) \cup {Len(o)} /\ Len(o) \notin Scoped(o)
    BY <1>1, <1>2 DEF Scoped
  <2>2. Cardinality(Scoped(p)) = Cardinality(Scoped(o)) + 1
    BY <2>1, ScopedFinite, FS_AddElement
  <2> QED BY <1>2, <2>2 DEF p
<1>3. CASE ~g.scoped /\ o[Len(o)].scoped
  <2>1. Scoped(p) = Scoped(o) \ {Len(o)} /\ Len(o) \in Scoped(o)
    BY <1>1, <1>3 DEF Scoped
  <2>2. Cardinality(Scoped(p)) = Cardinality(Scoped(o)) - 1
    BY <2>1, ScopedFinite, FS_RemoveElement
  <2> QED BY <1>3, <2>2 DEF p
<1>4. CASE g.scoped = o[Len(o)].scoped
  <2>1. Scoped(p) = Scoped(o)
    BY <1>1, <1>4 DEF Scoped
  <2> QED BY <1>4, <2>1 DEF p
<1>5. g.scoped \in BOOLEAN /\ o[Len(o)].scoped \in BOOLEAN
  <2>1. o[Len(o)] \in Frame
    BY <1>1
  <2> QED BY <2>1 DEF Frame
<1> QED BY <1>2, <1>3, <1>4, <1>5

-----------------------------------------------------------------------------
(* The scopes: the same bodies have one, one is pushed, one is popped. *)

(* ScopesOK while objects and deferred statements are registered. *)
LEMMA ScopesKeep ==
  ASSUME NEW o \in Seq(Frame), NEW p \in Seq(Frame), NEW sc \in Seq(Mark),
         NEW n \in Nat, NEW d \in Nat, NEW n2 \in Nat, NEW d2 \in Nat,
         n <= n2, d <= d2, o # <<>>, p # <<>>,
         Cardinality(Scoped(p)) = Cardinality(Scoped(o)), ScopesOK(o, sc, n, d)
  PROVE  ScopesOK(p, sc, n2, d2)
<1>1. ASSUME NEW j \in 1..Len(sc)
      PROVE  sc[j].objs <= n2 /\ sc[j].defs <= d2
  <2>1. sc[j] \in Mark
    OBVIOUS
  <2>2. sc[j].objs \in Nat /\ sc[j].defs \in Nat
    BY <2>1 DEF Mark
  <2>3. sc[j].objs <= n /\ sc[j].defs <= d
    BY DEF ScopesOK
  <2> QED BY <2>2, <2>3
<1> QED BY <1>1 DEF ScopesOK

(* ScopesOK when nothing is registered either. *)
LEMMA ScopesSame ==
  ASSUME NEW o, NEW p, NEW sc, NEW n, NEW d, o # <<>>, p # <<>>,
         Cardinality(Scoped(p)) = Cardinality(Scoped(o)), ScopesOK(o, sc, n, d)
  PROVE  ScopesOK(p, sc, n, d)
  BY DEF ScopesOK

(* ScopesOK when a scope is pushed. *)
LEMMA ScopesPush ==
  ASSUME NEW o \in Seq(Frame), NEW p \in Seq(Frame), NEW sc \in Seq(Mark),
         NEW n \in Nat, NEW d \in Nat, o # <<>>, p # <<>>,
         Cardinality(Scoped(p)) = Cardinality(Scoped(o)) + 1, ScopesOK(o, sc, n, d)
  PROVE  ScopesOK(p, Append(sc, [objs |-> n, defs |-> d]), n, d)
<1> DEFINE m == [objs |-> n, defs |-> d]
           t == Append(sc, m)
<1>1. m \in Mark /\ m.objs = n /\ m.defs = d
  BY DEF Mark
<1>2. /\ t \in Seq(Mark) /\ Len(t) = Len(sc) + 1 /\ t[Len(sc) + 1] = m /\ t # <<>>
      /\ \A j \in 1..Len(sc) : t[j] = sc[j]
      /\ Len(sc) \in Nat
  <2> HIDE DEF m
  <2> QED BY <1>1, StackPush
<1> HIDE DEF m, t
<1>3. Len(t) = Cardinality(Scoped(p))
  BY <1>2, ScopedFinite DEF ScopesOK
<1>4. t[1] = ZeroMark
  BY <1>2 DEF ScopesOK
<1>5. ASSUME NEW j \in 1..Len(t)
      PROVE  /\ t[j].objs <= n /\ t[j].defs <= d
             /\ \A i \in 1..j : t[i].objs <= t[j].objs /\ t[i].defs <= t[j].defs
  <2>1. CASE j \in 1..Len(sc)
    BY <1>2, <2>1 DEF ScopesOK
  <2>2. CASE j = Len(sc) + 1
    <3>1. \A i \in 1..Len(sc) : sc[i].objs <= n /\ sc[i].defs <= d
      BY DEF ScopesOK
    <3>2. t[j].objs = n /\ t[j].defs = d
      BY <1>1, <1>2, <2>2
    <3>3. ASSUME NEW i \in 1..j
          PROVE  t[i].objs <= n /\ t[i].defs <= d
      BY SMTT(40), <1>1, <1>2, <2>2, <3>1
    <3> QED BY <3>2, <3>3
  <2> QED BY <1>2, <2>1, <2>2
<1> QED BY <1>2, <1>3, <1>4, <1>5 DEF ScopesOK, m, t

(* ScopesOK when a scope is popped with what was registered in it. *)
LEMMA ScopesPop ==
  ASSUME NEW o \in Seq(Frame), NEW p \in Seq(Frame), NEW sc \in Seq(Mark),
         NEW n \in Nat, NEW d \in Nat, o # <<>>,
         p # <<>> => p[1].scoped,
         Cardinality(Scoped(p)) = Cardinality(Scoped(o)) - 1, ScopesOK(o, sc, n, d)
  PROVE  /\ ScopesOK(p, Front(sc), sc[Len(sc)].objs, sc[Len(sc)].defs)
         /\ Front(sc) \in Seq(Mark)
         /\ sc[Len(sc)].objs \in 0..n /\ sc[Len(sc)].defs \in 0..d
<1> DEFINE t == Front(sc)
           last == sc[Len(sc)]
<1>1. sc # <<>> /\ sc[1] = ZeroMark
  BY DEF ScopesOK
<1>2. /\ t \in Seq(Mark) /\ Len(t) = Len(sc) - 1 /\ Len(sc) \in Nat /\ Len(sc) >= 1
      /\ \A j \in 1..(Len(sc) - 1) : t[j] = sc[j]
  BY <1>1, StackPop
<1>3. last \in Mark /\ last.objs \in 0..n /\ last.defs \in 0..d
  <2>1. last \in Mark
    BY <1>2
  <2>2. last.objs \in Nat /\ last.defs \in Nat
    BY <2>1 DEF Mark
  <2>3. last.objs <= n /\ last.defs <= d
    BY <1>2 DEF ScopesOK
  <2> QED BY <2>1, <2>2, <2>3
<1>4. Len(t) = Cardinality(Scoped(p))
  BY <1>2, ScopedFinite DEF ScopesOK
<1> HIDE DEF t
<1>5. ASSUME NEW j \in 1..Len(t)
      PROVE  /\ t[j].objs <= last.objs /\ t[j].defs <= last.defs
             /\ \A i \in 1..j : t[i].objs <= t[j].objs /\ t[i].defs <= t[j].defs
  <2>1. j \in 1..Len(sc) /\ t[j] = sc[j] /\ \A i \in 1..j : t[i] = sc[i]
    BY <1>2
  <2>2. sc[j].objs <= last.objs /\ sc[j].defs <= last.defs
    BY SMTT(40), <1>2, <2>1 DEF ScopesOK
  <2>3. \A i \in 1..j : sc[i].objs <= sc[j].objs /\ sc[i].defs <= sc[j].defs
    BY <2>1 DEF ScopesOK
  <2> QED BY <2>1, <2>2, <2>3
<1>6. CASE p = <<>>
  <2>1. Scoped(p) = {}
    BY <1>6 DEF Scoped
  <2>2. Len(sc) = 1
    BY <2>1, <1>2, <1>4, FS_EmptySet
  <2>3. last.objs = 0 /\ last.defs = 0
    BY <1>1, <2>2 DEF ZeroMark
  <2> QED BY <1>2, <1>3, <1>4, <1>5, <1>6, <2>3 DEF ScopesOK, t
<1>7. CASE p # <<>>
  <2>1. 1 \in Scoped(p)
    BY <1>7 DEF Scoped
  <2>2. Cardinality(Scoped(p)) # 0
    BY <2>1, ScopedFinite, FS_EmptySet
  <2>3. Len(t) >= 1 /\ t # <<>>
    BY <1>2, <1>4, <2>2, ScopedFinite
  <2>4. t[1] = ZeroMark
    BY <1>1, <1>2, <2>3
  <2> QED BY <1>2, <1>3, <1>4, <1>5, <1>7, <2>3, <2>4 DEF ScopesOK, t
<1> QED BY <1>6, <1>7

-----------------------------------------------------------------------------
(* The code: what the builder adds is code. *)

(* A sequence of one element. *)
LEMMA OneType ==
  ASSUME NEW S, NEW x \in S
  PROVE  <<x>> \in Seq(S) /\ Len(<<x>>) = 1
  OBVIOUS

(* Two sequences in a row. *)
LEMMA ConcatType ==
  ASSUME NEW S, NEW s \in Seq(S), NEW t \in Seq(S)
  PROVE  /\ s \o t \in Seq(S) /\ Len(s \o t) = Len(s) + Len(t)
         /\ Len(s) \in Nat /\ Len(t) \in Nat
  OBVIOUS

(* The empty sequence. *)
LEMMA EmptyType ==
  ASSUME NEW S
  PROVE  <<>> \in Seq(S) /\ Len(<<>>) = 0
  OBVIOUS

(* An instruction without targets. *)
LEMMA OpType ==
  ASSUME NEW op \in Ops, NEW n \in Nat
  PROVE  Op(op, n) \in Instr /\ <<Op(op, n)>> \in Seq(Instr)
<1>1. Op(op, n) \in Instr
  BY DEF Op, Instr
<1> QED BY <1>1, OneType

(* An instruction with targets. *)
LEMMA BranchType ==
  ASSUME NEW op \in Ops, NEW n \in Nat, NEW y \in Nat, NEW f \in Nat
  PROVE  Branch(op, n, y, f) \in Instr /\ <<Branch(op, n, y, f)>> \in Seq(Instr)
<1>1. Branch(op, n, y, f) \in Instr
  BY DEF Branch, Instr
<1> QED BY <1>1, OneType

(* A branch without a condition. *)
LEMMA BrType ==
  ASSUME NEW b \in Nat
  PROVE  Br(b) \in Instr /\ <<Br(b)>> \in Seq(Instr)
  BY BranchType DEF Br, Ops, Terminators

(* Emitting code changes no block but the current one. *)
LEMMA EmitType ==
  ASSUME TypeOK, NEW is \in Seq(Instr)
  PROVE  Emit(is) \in Seq(Block) /\ Len(Emit(is)) = Len(code) /\ Len(code) \in Nat
<1>1. code \in Seq(Block) /\ cur \in 1..Len(code)
  BY DEF TypeOK
<1>2. code[cur] \in Block
  BY <1>1
<1>3. code[cur].is \o is \in Seq(Instr)
  BY <1>2, ConcatType DEF Block
<1>4. [code[cur] EXCEPT !.is = @ \o is] \in Block
  BY <1>2, <1>3 DEF Block
<1>5. Emit(is) = [code EXCEPT ![cur] = [code[cur] EXCEPT !.is = @ \o is]]
  BY DEF Emit
<1> QED BY <1>1, <1>4, <1>5

(* The frame on top of the open bodies. *)
LEMMA TopType ==
  ASSUME TypeOK, open # <<>>
  PROVE  /\ Top \in Frame /\ Len(open) \in Nat /\ Len(open) >= 1
         /\ Top.next \in Nat /\ Top.alt \in Nat /\ Top.fin \in Nat
         /\ Top.brk \in Nat /\ Top.cont \in Nat /\ Top.kind \in Kinds
         /\ Top.scoped \in BOOLEAN /\ Top.within \in Seq(Nat)
<1>1. Len(open) \in Nat /\ Len(open) >= 1 /\ Top \in Frame
  BY DEF TypeOK, Top
<1> QED BY <1>1 DEF Frame

(* A new block is a block. *)
LEMMA BlockType ==
  ASSUME TypeOK, open # <<>>
  PROVE  /\ BlockHere \in Block /\ <<BlockHere>> \in Seq(Block)
         /\ \A k \in Nat : NB(k) \in Seq(Block) /\ Len(NB(k)) = k
<1>1. Here.fn \in Nat
  <2>1. code[cur] \in Block
    BY DEF TypeOK
  <2> QED BY <2>1 DEF Here, Block
<1>2. <<>> \in Seq(Instr)
  BY EmptyType
<1>3. BlockHere \in Block
  BY <1>1, <1>2, TopType DEF BlockHere, NewBlock, Block
<1> HIDE DEF BlockHere
<1> QED BY <1>3, OneType DEF NB

(* The frame of a new body. *)
LEMMA FrameType ==
  ASSUME TypeOK, open # <<>>, NEW kind \in Kinds, NEW scoped \in BOOLEAN,
         NEW next \in Nat, NEW alt \in Nat,
         NEW f, f = NewFrame(kind, scoped, next, alt)
  PROVE  /\ f \in Frame
         /\ f.kind = kind /\ f.scoped = scoped /\ f.next = next /\ f.alt = alt
         /\ f.brk = breakTarget /\ f.cont = continueTarget
<1>1. Len(cleanups) \in Nat /\ Len(defers) \in Nat /\ breakTarget \in Nat /\ continueTarget \in Nat
  BY DEF TypeOK
<1> QED BY <1>1, TopType DEF NewFrame, Frame

(* The deferred statements registered after the first n. *)
LEMMA DeferCodeType ==
  ASSUME TypeOK, NEW n \in 0..Len(defers)
  PROVE  DeferCode(n) \in Seq(Instr)
<1>1. defers \in Seq(Nat) /\ Len(defers) \in Nat
  BY DEF TypeOK
<1>2. ASSUME NEW i \in 1..(Len(defers) - n)
      PROVE  Op("run", defers[Len(defers) + 1 - i]) \in Instr
  <2>1. Len(defers) + 1 - i \in 1..Len(defers)
    BY <1>1
  <2>2. defers[Len(defers) + 1 - i] \in Nat
    BY <1>1, <2>1
  <2> QED BY <2>2, OpType DEF Ops
<1>3. Len(defers) - n \in Nat
  BY <1>1
<1> QED BY <1>2, <1>3 DEF DeferCode

(* The objects registered after the first n. *)
LEMMA CleanupCodeType ==
  ASSUME NEW entries \in Seq(Entry), NEW n \in 0..Len(entries)
  PROVE  CleanupCode(entries, n) \in Seq(Instr)
<1>1. Len(entries) \in Nat
  OBVIOUS
<1> DEFINE C(i) == LET e == entries[Len(entries) + 1 - i]
                   IN  IF e.moved THEN Op("nop", 0) ELSE Op("destroy", e.obj)
<1>2. ASSUME NEW i \in 1..(Len(entries) - n)
      PROVE  C(i) \in Instr
  <2>1. Len(entries) + 1 - i \in 1..Len(entries)
    BY <1>1
  <2>2. entries[Len(entries) + 1 - i] \in Entry
    BY <2>1
  <2>3. entries[Len(entries) + 1 - i].obj \in Nat
    BY <2>2 DEF Entry
  <2>4. Op("nop", 0) \in Instr /\ Op("destroy", entries[Len(entries) + 1 - i].obj) \in Instr
    BY <2>3, OpType DEF Ops
  <2> QED BY <2>4
<1>3. Len(entries) - n \in Nat
  BY <1>1
<1>4. CleanupCode(entries, n) = [i \in 1..(Len(entries) - n) |-> C(i)]
  BY DEF CleanupCode
<1> HIDE DEF C
<1> QED BY <1>2, <1>3, <1>4

(* The code of a return. *)
LEMMA EmitCleanupsType ==
  ASSUME TypeOK, NEW entries \in Seq(Entry)
  PROVE  EmitCleanups(entries) \in Seq(Instr)
<1>1. 0 \in 0..Len(defers) /\ 0 \in 0..Len(entries)
  BY DEF TypeOK
<1> QED BY <1>1, DeferCodeType, CleanupCodeType, ConcatType DEF EmitCleanups

(* The code at the end of a body. *)
LEMMA BodyEndType ==
  ASSUME IInv, open # <<>>, NEW tail \in Seq(Instr)
  PROVE  BodyEnd(tail) \in Seq(Instr)
<1> DEFINE m == scopes[Len(scopes)]
<1>1. scopes # <<>> /\ scopes \in Seq(Mark) /\ Len(scopes) \in Nat /\ Len(scopes) >= 1
  BY DEF IInv, TypeOK, ScopesOK
<1>2. m \in Mark
  BY <1>1
<1>3. m.objs \in 0..Len(cleanups) /\ m.defs \in 0..Len(defers)
  BY <1>1, <1>2 DEF IInv, ScopesOK, Mark
<1>4. ScopeExit \in Seq(Instr)
  <2>1. DeferCode(m.defs) \in Seq(Instr)
    BY <1>3, DeferCodeType DEF IInv
  <2>2. CleanupCode(cleanups, m.objs) \in Seq(Instr)
    BY <1>3, CleanupCodeType DEF IInv, TypeOK
  <2> QED BY <2>1, <2>2, ConcatType DEF ScopeExit
<1> HIDE DEF m
<1> QED BY <1>4, ConcatType, EmptyType DEF BodyEnd

-----------------------------------------------------------------------------
(* The four kinds of steps. *)

(* Two frames that differ only in what the invariant does not look at. *)
Alike(g, f) ==
  /\ g.kind = f.kind /\ g.scoped = f.scoped /\ g.next = f.next /\ g.alt = f.alt
  /\ g.fin = f.fin /\ g.brk = f.brk /\ g.cont = f.cont

(* The current body has taken a statement. *)
LEMMA TakenType ==
  ASSUME TypeOK, open # <<>>
  PROVE  \E g \in Frame : Alike(g, Top) /\ Taken = [open EXCEPT ![Len(open)] = g]
<1> DEFINE g == [Top EXCEPT !.begun = TRUE]
<1>1. g \in Frame
  BY TopType DEF Frame
<1>2. Alike(g, Top)
  BY TopType DEF Alike, Frame
<1>3. Taken = [open EXCEPT ![Len(open)] = g]
  BY DEF Taken, Top
<1> QED BY <1>1, <1>2, <1>3

(* The three parts of the invariant when the top frame is replaced by one  *)
(* like it.                                                                *)
LEMMA AlikeKeeps ==
  ASSUME IInv, open # <<>>, NEW g \in Frame, Alike(g, Top)
  PROVE  LET p == [open EXCEPT ![Len(open)] = g]
         IN  /\ p \in Seq(Frame) /\ p # <<>>
             /\ ShapeOK(p, Len(code))
             /\ JumpsOK(p, breakTarget, continueTarget)
             /\ Cardinality(Scoped(p)) = Cardinality(Scoped(open))
<1> DEFINE p == [open EXCEPT ![Len(open)] = g]
<1>1. open \in Seq(Frame) /\ Len(code) \in Nat /\ Top = open[Len(open)] /\ Len(open) >= 1
  BY TopType DEF IInv, TypeOK, Top
<1>2. p \in Seq(Frame) /\ p # <<>>
  BY <1>1, StackReplace
<1>3. FrameOK(Top, Len(code))
  BY <1>1 DEF IInv, ShapeOK
<1>4. FrameOK(g, Len(code))
  BY <1>3 DEF FrameOK, Alike
<1>5. ShapeOK(p, Len(code))
  BY <1>1, <1>4, ShapeReplace DEF Alike, IInv
<1>6. BreakIn(g) = breakTarget /\ ContinueIn(g) = continueTarget
  BY <1>1 DEF Alike, IInv, JumpsOK, BreakIn, ContinueIn
<1>7. JumpsOK(p, BreakIn(g), ContinueIn(g))
  BY <1>1, JumpsReplace DEF Alike, IInv
<1>8. Cardinality(Scoped(p)) = Cardinality(Scoped(open))
  BY <1>1, ScopedReplace DEF Alike
<1> QED BY <1>2, <1>5, <1>6, <1>7, <1>8

(* A statement without a body: it may emit code, and register an object or *)
(* a deferred statement.                                                   *)
LEMMA SimpleStep ==
  ASSUME IInv, open # <<>>, open' = Taken,
         code' \in Seq(Block), Len(code') = Len(code), cur' = cur,
         cleanups' \in Seq(Entry), Len(cleanups') >= Len(cleanups),
         defers' \in Seq(Nat), Len(defers') >= Len(defers),
         nStmts' = Place, UNCHANGED <<scopes, breakTarget, continueTarget>>
  PROVE  IInv'
<1>1. PICK g \in Frame : Alike(g, Top) /\ Taken = [open EXCEPT ![Len(open)] = g]
  BY TakenType DEF IInv
<1>2. /\ open' \in Seq(Frame) /\ open' # <<>>
      /\ ShapeOK(open', Len(code))
      /\ JumpsOK(open', breakTarget, continueTarget)
      /\ Cardinality(Scoped(open')) = Cardinality(Scoped(open))
  BY <1>1, AlikeKeeps
<1>3. /\ Len(cleanups) \in Nat /\ Len(defers) \in Nat
      /\ Len(cleanups') \in Nat /\ Len(defers') \in Nat
      /\ open \in Seq(Frame) /\ scopes \in Seq(Mark)
  BY DEF IInv, TypeOK
<1>4. ScopesOK(open', scopes, Len(cleanups'), Len(defers'))
  BY <1>2, <1>3, ScopesKeep DEF IInv
<1>5. TypeOK'
  BY <1>2 DEF IInv, TypeOK, Place
<1> QED BY <1>2, <1>4, <1>5 DEF IInv

(* A body begins: the targets of jumps are saved in its frame, and it has  *)
(* a scope of its own or not.                                              *)
LEMMA OpenStep ==
  ASSUME IInv, open # <<>>,
         NEW g \in Frame, Alike(g, Top), NEW f \in Frame,
         open' = Append([open EXCEPT ![Len(open)] = g], f),
         code' \in Seq(Block), Len(code') >= Len(code), cur' \in 1..Len(code'),
         FrameOK(f, Len(code')), f.kind # "function",
         f.brk = breakTarget, f.cont = continueTarget,
         breakTarget' = BreakIn(f), continueTarget' = ContinueIn(f),
         scopes' = scopes \o Scope(f.scoped),
         nStmts' \in Nat, UNCHANGED <<cleanups, defers>>
  PROVE  IInv'
<1> DEFINE p == [open EXCEPT ![Len(open)] = g]
<1>1. /\ p \in Seq(Frame) /\ p # <<>>
      /\ ShapeOK(p, Len(code))
      /\ JumpsOK(p, breakTarget, continueTarget)
      /\ Cardinality(Scoped(p)) = Cardinality(Scoped(open))
  BY AlikeKeeps
<1> HIDE DEF p
<1>2. open' = Append(p, f) /\ open' \in Seq(Frame) /\ open' # <<>>
  <2>1. open' = Append(p, f)
    BY DEF p
  <2>2. Append(p, f) \in Seq(Frame) /\ Append(p, f) # <<>>
    BY <1>1, StackPush
  <2> QED BY <2>1, <2>2
<1>3. Len(code) \in Nat /\ Len(code') \in Nat
  BY DEF IInv, TypeOK
<1>4. ShapeOK(open', Len(code'))
  BY <1>1, <1>2, <1>3, ShapePush
<1>5. JumpsOK(open', breakTarget', continueTarget')
  BY <1>1, <1>2, JumpsPush
<1>6. /\ Len(cleanups) \in Nat /\ Len(defers) \in Nat
      /\ open \in Seq(Frame) /\ scopes \in Seq(Mark) /\ f.scoped \in BOOLEAN
  <2>1. f.scoped \in BOOLEAN
    BY DEF Frame
  <2> QED BY <2>1 DEF IInv, TypeOK
<1>7. scopes' \in Seq(Mark) /\ ScopesOK(open', scopes', Len(cleanups'), Len(defers'))
  <2>1. CASE f.scoped
    <3>1. EmptyMark \in Mark /\ scopes' = Append(scopes, EmptyMark)
      BY <1>6, <2>1 DEF Scope, EmptyMark, Mark
    <3>2. Cardinality(Scoped(open')) = Cardinality(Scoped(open)) + 1
      BY <1>1, <1>2, <2>1, ScopedPush
    <3>3. ScopesOK(open', Append(scopes, [objs |-> Len(cleanups), defs |-> Len(defers)]),
                   Len(cleanups), Len(defers))
      BY <1>2, <1>6, <3>2, ScopesPush DEF IInv
    <3> QED BY <1>6, <3>1, <3>3, StackPush DEF EmptyMark
  <2>2. CASE ~f.scoped
    <3>1. scopes' = scopes
      BY <1>6, <2>2 DEF Scope
    <3>2. Cardinality(Scoped(open')) = Cardinality(Scoped(open))
      BY <1>1, <1>2, <2>2, ScopedPush
    <3>3. ScopesOK(open, scopes, Len(cleanups), Len(defers))
      BY DEF IInv
    <3>4. ScopesOK(open', scopes, Len(cleanups), Len(defers))
      BY <1>2, <3>2, <3>3, ScopesSame
    <3> QED BY <1>6, <3>1, <3>4
  <2> QED BY <1>6, <2>1, <2>2
<1>8. TypeOK'
  <2>1. breakTarget' \in Nat /\ continueTarget' \in Nat
    BY DEF BreakIn, ContinueIn, Frame
  <2> QED BY <1>2, <1>7, <2>1 DEF IInv, TypeOK
<1> QED BY <1>4, <1>5, <1>7, <1>8 DEF IInv

(* A body ends: its scope goes if it has one, the saved targets come back. *)
LEMMA CloseStep ==
  ASSUME IInv, open # <<>>, open' = Front(open), PopScope(Top.scoped),
         code' \in Seq(Block), Len(code') >= Len(code), cur' \in 1..Len(code'),
         breakTarget' = Top.brk, continueTarget' = Top.cont, UNCHANGED nStmts
  PROVE  IInv'
<1>1. /\ open \in Seq(Frame) /\ Top = open[Len(open)] /\ Top.scoped \in BOOLEAN
      /\ Len(cleanups) \in Nat /\ Len(defers) \in Nat /\ scopes \in Seq(Mark)
      /\ cleanups \in Seq(Entry) /\ defers \in Seq(Nat)
      /\ Len(code) \in Nat /\ Len(code') \in Nat
      /\ Len(open) \in Nat /\ Len(open) >= 1
  <2>1. Top = open[Len(open)]
    BY DEF Top
  <2>2. Top.scoped \in BOOLEAN /\ Len(open) \in Nat /\ Len(open) >= 1
    BY TopType DEF IInv
  <2> QED BY <2>1, <2>2 DEF IInv, TypeOK
<1>2. /\ open' \in Seq(Frame) /\ Len(open') = Len(open) - 1
      /\ \A k \in 1..(Len(open) - 1) : open'[k] = open[k]
  BY <1>1, StackPop
<1>3. ShapeOK(open', Len(code'))
  BY <1>1, ShapePop DEF IInv
<1>4. JumpsOK(open', breakTarget', continueTarget')
  BY <1>1, JumpsPop DEF IInv
<1>5. open[1].kind = "function" /\ open[1].scoped
  BY <1>1 DEF IInv, ShapeOK, FrameOK
<1>6. open' # <<>> => open'[1].scoped
  BY <1>1, <1>2, <1>5
<1>7. /\ scopes' \in Seq(Mark) /\ cleanups' \in Seq(Entry) /\ defers' \in Seq(Nat)
      /\ ScopesOK(open', scopes', Len(cleanups'), Len(defers'))
  <2>1. CASE Top.scoped
    <3> DEFINE m == scopes[Len(scopes)]
    <3>1. Cardinality(Scoped(open')) = Cardinality(Scoped(open)) - 1
      BY <1>1, <2>1, ScopedPop
    <3>2. /\ ScopesOK(open', Front(scopes), m.objs, m.defs)
          /\ Front(scopes) \in Seq(Mark)
          /\ m.objs \in 0..Len(cleanups) /\ m.defs \in 0..Len(defers)
      BY <1>1, <1>2, <1>6, <3>1, ScopesPop DEF IInv
    <3>3. scopes' = Front(scopes) /\ cleanups' = SubSeq(cleanups, 1, m.objs)
          /\ defers' = SubSeq(defers, 1, m.defs)
      BY <2>1 DEF PopScope
    <3> HIDE DEF m
    <3>4. cleanups' \in Seq(Entry) /\ Len(cleanups') = m.objs
      BY <1>1, <3>2, <3>3, Prefix
    <3>5. defers' \in Seq(Nat) /\ Len(defers') = m.defs
      BY <1>1, <3>2, <3>3, Prefix
    <3> QED BY <3>2, <3>3, <3>4, <3>5
  <2>2. CASE ~Top.scoped
    <3>1. UNCHANGED <<scopes, cleanups, defers>>
      BY <2>2 DEF PopScope
    <3>2. Cardinality(Scoped(open')) = Cardinality(Scoped(open))
      BY <1>1, <2>2, ScopedPop
    <3>3. Len(open) # 1
      BY <1>1, <1>5, <2>2
    <3>4. open' # <<>>
      BY <1>1, <1>2, <3>3
    <3>5. ScopesOK(open', scopes, Len(cleanups), Len(defers))
      BY <1>1, <1>2, <3>2, <3>4, ScopesKeep DEF IInv
    <3> QED BY <1>1, <3>1, <3>5
  <2> QED BY <1>1, <2>1, <2>2
<1>8. breakTarget' \in Nat /\ continueTarget' \in Nat /\ nStmts' \in Nat
  BY TopType DEF IInv, TypeOK
<1>9. TypeOK'
  BY <1>2, <1>7, <1>8 DEF TypeOK
<1> QED BY <1>3, <1>4, <1>7, <1>9 DEF IInv

(* A handler goes on to its next part, another body of the same statement. *)
(* The part before has lost its scope by then, if it had one.              *)
LEMMA NextPartStep ==
  ASSUME IInv, open # <<>>, NEW g \in Frame,
         open' = [open EXCEPT ![Len(open)] = g],
         code' \in Seq(Block), Len(code') >= Len(code), cur' \in 1..Len(code'),
         FrameOK(g, Len(code')), g.kind # "function", Top.kind # "function",
         g.brk = Top.brk, g.cont = Top.cont,
         breakTarget' = BreakIn(g), continueTarget' = ContinueIn(g),
         \/ /\ Top.scoped = g.scoped /\ UNCHANGED <<scopes, cleanups, defers>>
         \/ /\ ~Top.scoped /\ g.scoped
            /\ scopes' = scopes \o Scope(TRUE) /\ UNCHANGED <<cleanups, defers>>
         \/ /\ Top.scoped /\ ~g.scoped /\ PopScope(TRUE),
         UNCHANGED nStmts
  PROVE  IInv'
<1>1. /\ open \in Seq(Frame) /\ Top = open[Len(open)] /\ Top.scoped \in BOOLEAN
      /\ Len(cleanups) \in Nat /\ Len(defers) \in Nat /\ scopes \in Seq(Mark)
      /\ cleanups \in Seq(Entry) /\ defers \in Seq(Nat)
      /\ Len(code) \in Nat /\ Len(code') \in Nat
      /\ Len(open) \in Nat /\ Len(open) >= 1
  <2>1. Top = open[Len(open)]
    BY DEF Top
  <2>2. Top.scoped \in BOOLEAN /\ Len(open) \in Nat /\ Len(open) >= 1
    BY TopType DEF IInv
  <2> QED BY <2>1, <2>2 DEF IInv, TypeOK
<1>2. /\ open' \in Seq(Frame) /\ Len(open') = Len(open) /\ open' # <<>>
      /\ \A k \in 1..(Len(open) - 1) : open'[k] = open[k]
  BY <1>1, StackReplace
<1>3. ShapeOK(open', Len(code'))
  BY <1>1, ShapeReplace DEF IInv
<1>4. JumpsOK(open', breakTarget', continueTarget')
  BY <1>1, JumpsReplace DEF IInv
<1>5. open[1].kind = "function" /\ open[1].scoped /\ Len(open) # 1
  <2>1. open[1].kind = "function" /\ FrameOK(open[1], Len(code))
    BY <1>1 DEF IInv, ShapeOK
  <2>2. open[1].scoped
    BY <2>1 DEF FrameOK
  <2>3. Len(open) # 1
    BY <1>1, <2>1
  <2> QED BY <2>1, <2>2, <2>3
<1>6. open'[1].scoped
  <2>1. 1 \in 1..(Len(open) - 1)
    BY <1>1, <1>5
  <2>2. open'[1] = open[1]
    BY <1>2, <2>1
  <2> QED BY <1>5, <2>2
<1>7. /\ scopes' \in Seq(Mark) /\ cleanups' \in Seq(Entry) /\ defers' \in Seq(Nat)
      /\ ScopesOK(open', scopes', Len(cleanups'), Len(defers'))
  <2>1. CASE Top.scoped = g.scoped /\ UNCHANGED <<scopes, cleanups, defers>>
    <3>1. Cardinality(Scoped(open')) = Cardinality(Scoped(open))
      BY <1>1, <2>1, ScopedReplace
    <3>2. ScopesOK(open, scopes, Len(cleanups), Len(defers))
      BY DEF IInv
    <3>3. ScopesOK(open', scopes, Len(cleanups), Len(defers))
      BY <1>2, <3>1, <3>2, ScopesSame
    <3> QED BY <1>1, <2>1, <3>3
  <2>2. CASE /\ ~Top.scoped /\ g.scoped
             /\ scopes' = scopes \o Scope(TRUE) /\ UNCHANGED <<cleanups, defers>>
    <3>1. EmptyMark \in Mark /\ scopes' = Append(scopes, EmptyMark)
      BY <1>1, <2>2 DEF Scope, EmptyMark, Mark
    <3>2. Cardinality(Scoped(open')) = Cardinality(Scoped(open)) + 1
      BY <1>1, <2>2, ScopedReplace
    <3>3. ScopesOK(open', Append(scopes, [objs |-> Len(cleanups), defs |-> Len(defers)]),
                   Len(cleanups), Len(defers))
      BY <1>1, <1>2, <3>2, ScopesPush DEF IInv
    <3> QED BY <1>1, <2>2, <3>1, <3>3, StackPush DEF EmptyMark
  <2>3. CASE Top.scoped /\ ~g.scoped /\ PopScope(TRUE)
    <3> DEFINE m == scopes[Len(scopes)]
    <3>1. Cardinality(Scoped(open')) = Cardinality(Scoped(open)) - 1
      BY <1>1, <2>3, ScopedReplace
    <3>2. /\ ScopesOK(open', Front(scopes), m.objs, m.defs)
          /\ Front(scopes) \in Seq(Mark)
          /\ m.objs \in 0..Len(cleanups) /\ m.defs \in 0..Len(defers)
      BY <1>1, <1>2, <1>6, <3>1, ScopesPop DEF IInv
    <3>3. scopes' = Front(scopes) /\ cleanups' = SubSeq(cleanups, 1, m.objs)
          /\ defers' = SubSeq(defers, 1, m.defs)
      BY <2>3 DEF PopScope
    <3> HIDE DEF m
    <3>4. cleanups' \in Seq(Entry) /\ Len(cleanups') = m.objs
      BY <1>1, <3>2, <3>3, Prefix
    <3>5. defers' \in Seq(Nat) /\ Len(defers') = m.defs
      BY <1>1, <3>2, <3>3, Prefix
    <3> QED BY <3>2, <3>3, <3>4, <3>5
  <2> QED BY <2>1, <2>2, <2>3
<1>8. breakTarget' \in Nat /\ continueTarget' \in Nat /\ nStmts' \in Nat
  BY DEF IInv, TypeOK, BreakIn, ContinueIn, Frame
<1>9. TypeOK'
  BY <1>2, <1>7, <1>8 DEF TypeOK
<1> QED BY <1>3, <1>4, <1>7, <1>9 DEF IInv

-----------------------------------------------------------------------------
(* The actions. *)

(* The function's scope has been pushed, nothing is registered. *)
LEMMA InitIInv == GenInit => IInv
<1> SUFFICES ASSUME GenInit PROVE IInv
  OBVIOUS
<1>1. FunctionFrame \in Frame
  BY EmptyType DEF FunctionFrame, Frame, Kinds
<1>2. NewBlock(1, <<>>) \in Block
  BY EmptyType DEF NewBlock, Block
<1>3. TypeOK
  <2>1. code \in Seq(Block) /\ Len(code) = 1
    BY <1>2, OneType DEF GenInit
  <2>2. open \in Seq(Frame)
    BY <1>1, OneType DEF GenInit
  <2>3. [objs |-> 0, defs |-> 0] \in Mark
    BY DEF Mark
  <2>4. scopes \in Seq(Mark)
    BY <2>3, OneType DEF GenInit
  <2>5. cleanups \in Seq(Entry) /\ defers \in Seq(Nat)
    BY EmptyType DEF GenInit
  <2> QED BY <2>1, <2>2, <2>4, <2>5 DEF GenInit, TypeOK
<1>4. Len(open) = 1 /\ open # <<>> /\ open[1] = FunctionFrame
  BY <1>1, OneType DEF GenInit
<1>5. ShapeOK(open, Len(code))
  BY <1>4 DEF ShapeOK, FrameOK, FunctionFrame
<1>6. JumpsOK(open, breakTarget, continueTarget)
  BY <1>4 DEF JumpsOK, FunctionFrame, BreakIn, ContinueIn, GenInit
<1>7. ScopesOK(open, scopes, Len(cleanups), Len(defers))
  <2>1. Scoped(open) = {1}
    BY <1>4 DEF Scoped, FunctionFrame
  <2>2. Cardinality(Scoped(open)) = 1
    BY <2>1, FS_Singleton
  <2>3. Len(scopes) = 1 /\ scopes # <<>> /\ scopes[1] = ZeroMark
        /\ Len(cleanups) = 0 /\ Len(defers) = 0
    BY DEF GenInit, ZeroMark
  <2>4. scopes[1].objs = 0 /\ scopes[1].defs = 0
    BY <2>3 DEF ZeroMark
  <2> QED BY <1>4, <2>2, <2>3, <2>4 DEF ScopesOK
<1> QED BY <1>3, <1>5, <1>6, <1>7 DEF IInv

(* What a statement can count on. *)
LEMMA CanTakeFacts ==
  ASSUME IInv, CanTake
  PROVE  /\ TypeOK /\ open # <<>> /\ Place \in Nat
         /\ code \in Seq(Block) /\ Len(code) \in Nat
         /\ cleanups \in Seq(Entry) /\ Len(cleanups) \in Nat
         /\ defers \in Seq(Nat) /\ Len(defers) \in Nat
         /\ breakTarget \in Nat /\ continueTarget \in Nat
  BY DEF IInv, TypeOK, CanTake, HasRoom, Place

(* The objects a statement can name are registered ones. *)
LEMMA InReachType ==
  ASSUME IInv, open # <<>>, NEW i \in InReach
  PROVE  /\ i \in 1..Len(cleanups)
         /\ cleanups[i] \in Entry /\ cleanups[i].obj \in Nat
         /\ Moved(i) \in Seq(Entry) /\ Len(Moved(i)) = Len(cleanups)
<1>1. cleanups \in Seq(Entry) /\ i \in 1..Len(cleanups)
  BY DEF IInv, TypeOK, InReach
<1>2. cleanups[i] \in Entry
  BY <1>1
<1>3. cleanups[i].obj \in Nat /\ [cleanups[i] EXCEPT !.moved = TRUE] \in Entry
  BY <1>2 DEF Entry
<1>4. Moved(i) = [cleanups EXCEPT ![i] = [cleanups[i] EXCEPT !.moved = TRUE]]
  BY DEF Moved
<1>5. Moved(i) \in Seq(Entry) /\ Len(Moved(i)) = Len(cleanups)
  BY <1>1, <1>3, <1>4
<1> QED BY <1>1, <1>2, <1>3, <1>5

(* Every statement without a body keeps the invariant. *)
LEMMA SimpleIInv == IInv /\ Simple => IInv'
<1> SUFFICES ASSUME IInv, Simple PROVE IInv'
  OBVIOUS
<1>2. CASE VarDecl
  <2>1. <<Op("new", Place)>> \in Seq(Instr)
    BY <1>2, CanTakeFacts, OpType DEF VarDecl, Ops
  <2>2. [obj |-> Place, moved |-> FALSE] \in Entry
    BY <1>2, CanTakeFacts DEF VarDecl, Entry
  <2>3. cleanups' \in Seq(Entry) /\ Len(cleanups') = Len(cleanups) + 1
    BY <1>2, <2>2, CanTakeFacts, StackPush DEF VarDecl
  <2>8. code' \in Seq(Block) /\ Len(code') = Len(code)
    BY <1>2, <2>1, <2>3, CanTakeFacts, EmitType DEF VarDecl
  <2> QED BY <1>2, <2>1, <2>3, <2>8, CanTakeFacts, SimpleStep DEF VarDecl
<1>3. CASE Defer
  <2>1. <<Op("arm", Place)>> \in Seq(Instr)
    BY <1>3, CanTakeFacts, OpType DEF Defer, Ops
  <2>2. code' \in Seq(Block) /\ Len(code') = Len(code)
    BY <1>3, <2>1, CanTakeFacts, EmitType DEF Defer
  <2>3. defers' \in Seq(Nat) /\ Len(defers') = Len(defers) + 1
    BY <1>3, CanTakeFacts, StackPush DEF Defer
  <2> QED BY <1>3, <2>2, <2>3, CanTakeFacts, SimpleStep DEF Defer
<1>4. CASE Move
  <2>1. PICK i \in InReach : /\ code' = Emit(<<Op("move", cleanups[i].obj)>>)
                            /\ cleanups' = Moved(i)
    BY <1>4 DEF Move
  <2>2. /\ cleanups[i].obj \in Nat
        /\ cleanups' \in Seq(Entry) /\ Len(cleanups') = Len(cleanups)
    BY <1>4, <2>1, CanTakeFacts, InReachType DEF Move
  <2>3. <<Op("move", cleanups[i].obj)>> \in Seq(Instr)
    BY <2>2, OpType DEF Ops
  <2>8. code' \in Seq(Block) /\ Len(code') = Len(code)
    BY <1>4, <2>1, <2>2, <2>3, CanTakeFacts, EmitType DEF Move
  <2> QED BY <1>4, <2>1, <2>2, <2>3, <2>8, CanTakeFacts, SimpleStep DEF Move
<1>5. CASE Delete
  <2>1. PICK i \in InReach : code' = Emit(<<Op("destroy", cleanups[i].obj)>>)
    BY <1>5 DEF Delete
  <2>2. cleanups[i].obj \in Nat
    BY <1>5, <2>1, CanTakeFacts, InReachType DEF Delete
  <2>3. <<Op("destroy", cleanups[i].obj)>> \in Seq(Instr)
    BY <2>2, OpType DEF Ops
  <2>8. code' \in Seq(Block) /\ Len(code') = Len(code)
    BY <1>5, <2>1, <2>3, CanTakeFacts, EmitType DEF Delete
  <2> QED BY <1>5, <2>1, <2>3, <2>8, CanTakeFacts, SimpleStep DEF Delete
<1>6. CASE Return
  <2>1. <<Op("ret", 0)>> \in Seq(Instr)
    BY OpType DEF Ops, Terminators
  <2>2. EmitCleanups(cleanups) \o <<Op("ret", 0)>> \in Seq(Instr)
    BY <1>6, <2>1, CanTakeFacts, EmitCleanupsType, ConcatType DEF Return
  <2>8. code' \in Seq(Block) /\ Len(code') = Len(code)
    BY <1>6, <2>2, CanTakeFacts, EmitType DEF Return
  <2> QED BY <1>6, <2>2, <2>8, CanTakeFacts, SimpleStep DEF Return
<1>7. CASE ReturnMove
  <2>1. PICK i \in InReach :
          /\ code' = Emit(<<Op("move", cleanups[i].obj)>>
                          \o EmitCleanups(Moved(i)) \o <<Op("ret", 0)>>)
          /\ cleanups' = Moved(i)
    BY <1>7 DEF ReturnMove
  <2>2. /\ cleanups[i].obj \in Nat
        /\ cleanups' \in Seq(Entry) /\ Len(cleanups') = Len(cleanups)
    BY <1>7, <2>1, CanTakeFacts, InReachType DEF ReturnMove
  <2>3. <<Op("move", cleanups[i].obj)>> \in Seq(Instr) /\ <<Op("ret", 0)>> \in Seq(Instr)
    BY <2>2, OpType DEF Ops, Terminators
  <2>4. EmitCleanups(Moved(i)) \in Seq(Instr)
    BY <1>7, <2>1, <2>2, CanTakeFacts, EmitCleanupsType DEF ReturnMove
  <2>5. <<Op("move", cleanups[i].obj)>> \o EmitCleanups(Moved(i)) \o <<Op("ret", 0)>> \in Seq(Instr)
    BY <2>3, <2>4, ConcatType
  <2>8. code' \in Seq(Block) /\ Len(code') = Len(code)
    BY <1>7, <2>1, <2>2, <2>5, CanTakeFacts, EmitType DEF ReturnMove
  <2> QED BY <1>7, <2>1, <2>2, <2>5, <2>8, CanTakeFacts, SimpleStep DEF ReturnMove
<1>8. CASE Call
  <2>1. <<Op("call", 0)>> \in Seq(Instr)
    BY OpType DEF Ops
  <2>8. code' \in Seq(Block) /\ Len(code') = Len(code)
    BY <1>8, <2>1, CanTakeFacts, EmitType DEF Call
  <2> QED BY <1>8, <2>1, <2>8, CanTakeFacts, SimpleStep DEF Call
<1>9. CASE Throw
  <2>1. <<Op("throw", 0), Op("unreachable", 0)>> \in Seq(Instr)
    <3>1. Op("throw", 0) \in Instr /\ Op("unreachable", 0) \in Instr
      BY OpType DEF Ops, Terminators
    <3> QED BY <3>1
  <2>8. code' \in Seq(Block) /\ Len(code') = Len(code)
    BY <1>9, <2>1, CanTakeFacts, EmitType DEF Throw
  <2> QED BY <1>9, <2>1, <2>8, CanTakeFacts, SimpleStep DEF Throw
<1>10. ASSUME NEW feature, NEW target \in Nat, NEW kinds, Jump(feature, target, kinds) PROVE IInv'
  <2>1. <<Br(target)>> \in Seq(Instr)
    BY BrType
  <2>2. code' \in Seq(Block) /\ Len(code') = Len(code)
    BY <1>10, <2>1, CanTakeFacts, EmitType DEF Jump
  <2> QED BY <1>10, <2>2, CanTakeFacts, SimpleStep DEF Jump
<1>11. CASE Break \/ Continue
  BY <1>10, <1>11 DEF Break, Continue, IInv, TypeOK
<1> QED BY <1>2, <1>3, <1>4, <1>5, <1>6, <1>7, <1>8, <1>9, <1>11 DEF Simple

(* What the frame on top says. *)
LEMMA TopFacts ==
  ASSUME IInv, open # <<>>
  PROVE  /\ TypeOK /\ FrameOK(Top, Len(code)) /\ Alike(Top, Top)
         /\ breakTarget = BreakIn(Top) /\ continueTarget = ContinueIn(Top)
         /\ (Top.kind = "function" <=> Len(open) = 1)
         /\ Len(code) \in Nat /\ code \in Seq(Block) /\ cur \in 1..Len(code)
         /\ open \in Seq(Frame) /\ scopes \in Seq(Mark)
         /\ Len(cleanups) \in Nat /\ Len(defers) \in Nat /\ nStmts \in Nat
<1>1. TypeOK /\ Alike(Top, Top)
  BY DEF IInv, Alike
<1>2. Top = open[Len(open)] /\ Len(open) \in 1..Len(open)
  BY <1>1, TopType DEF Top
<1>3. FrameOK(Top, Len(code)) /\ (Top.kind = "function" <=> Len(open) = 1)
  BY <1>2 DEF IInv, ShapeOK
<1>4. breakTarget = BreakIn(Top) /\ continueTarget = ContinueIn(Top)
  BY <1>2 DEF IInv, JumpsOK
<1>5. /\ Len(code) \in Nat /\ code \in Seq(Block) /\ cur \in 1..Len(code)
      /\ open \in Seq(Frame) /\ scopes \in Seq(Mark)
      /\ Len(cleanups) \in Nat /\ Len(defers) \in Nat /\ nStmts \in Nat
  BY <1>1 DEF TypeOK
<1> QED BY <1>1, <1>3, <1>4, <1>5

(* The code of a body's end goes into the current block. *)
LEMMA BodyEndCode ==
  ASSUME IInv, open # <<>>, NEW tail \in Seq(Instr)
  PROVE  Emit(BodyEnd(tail)) \in Seq(Block) /\ Len(Emit(BodyEnd(tail))) = Len(code)
<1>1. BodyEnd(tail) \in Seq(Instr)
  BY BodyEndType
<1> QED BY <1>1, EmitType DEF IInv

(* The code where a body begins: the current block goes on to new ones. *)
LEMMA OpenCode ==
  ASSUME TypeOK, open # <<>>, NEW is \in Seq(Instr), NEW new \in Seq(Block)
  PROVE  /\ Emit(is) \o new \in Seq(Block)
         /\ Len(Emit(is) \o new) = Len(code) + Len(new)
         /\ Len(code) \in Nat /\ Len(new) \in Nat
<1>1. Emit(is) \in Seq(Block) /\ Len(Emit(is)) = Len(code) /\ Len(code) \in Nat
  BY EmitType
<1>2. /\ Emit(is) \o new \in Seq(Block)
      /\ Len(Emit(is) \o new) = Len(Emit(is)) + Len(new)
      /\ Len(new) \in Nat
  BY <1>1, ConcatType
<1> QED BY <1>1, <1>2

(* The same with two groups of new blocks. *)
LEMMA OpenCodeTwo ==
  ASSUME TypeOK, open # <<>>, NEW is \in Seq(Instr),
         NEW x \in Seq(Block), NEW y \in Seq(Block)
  PROVE  /\ Emit(is) \o x \o y \in Seq(Block)
         /\ Len(Emit(is) \o x \o y) = Len(code) + Len(x) + Len(y)
<1> DEFINE s == Emit(is) \o x
<1>1. s \in Seq(Block) /\ Len(s) = Len(code) + Len(x) /\ Len(code) \in Nat /\ Len(x) \in Nat
  BY OpenCode
<1> HIDE DEF s
<1>2. s \o y \in Seq(Block) /\ Len(s \o y) = Len(s) + Len(y)
  BY <1>1, ConcatType
<1>3. s \o y \in Seq(Block) /\ Len(s \o y) = Len(code) + Len(x) + Len(y)
  BY <1>1, <1>2
<1> QED BY <1>3 DEF s

(* The same with three. *)
LEMMA OpenCodeThree ==
  ASSUME TypeOK, open # <<>>, NEW is \in Seq(Instr),
         NEW x \in Seq(Block), NEW y \in Seq(Block), NEW z \in Seq(Block)
  PROVE  /\ Emit(is) \o x \o y \o z \in Seq(Block)
         /\ Len(Emit(is) \o x \o y \o z) = Len(code) + Len(x) + Len(y) + Len(z)
<1> DEFINE s == Emit(is) \o x \o y
<1>1. s \in Seq(Block) /\ Len(s) = Len(code) + Len(x) + Len(y)
  BY OpenCodeTwo
<1> HIDE DEF s
<1>2. s \o z \in Seq(Block) /\ Len(s \o z) = Len(s) + Len(z)
  BY <1>1, ConcatType
<1>3. s \o z \in Seq(Block) /\ Len(s \o z) = Len(code) + Len(x) + Len(y) + Len(z)
  BY <1>1, <1>2
<1> QED BY <1>3 DEF s

(* A new block with code in it. *)
LEMMA FilledBlock ==
  ASSUME TypeOK, open # <<>>, NEW is \in Seq(Instr)
  PROVE  /\ <<[BlockHere EXCEPT !.is = is]>> \in Seq(Block)
         /\ Len(<<[BlockHere EXCEPT !.is = is]>>) = 1
<1>1. [BlockHere EXCEPT !.is = is] \in Block
  BY BlockType DEF Block
<1> QED BY <1>1, OneType

(* Where a body without a loop or a switch of its own begins. *)
LEMMA OpenBlockIInv == IInv /\ OpenBlock => IInv'
<1> SUFFICES ASSUME IInv, OpenBlock PROVE IInv'
  OBVIOUS
<1> DEFINE f == NewFrame("block", TRUE, 0, 0)
<1>1. CanTake /\ open # <<>> /\ TypeOK /\ Place \in Nat
  BY CanTakeFacts DEF OpenBlock, CanOpen
<1>2. PICK g \in Frame : Alike(g, Top) /\ Taken = [open EXCEPT ![Len(open)] = g]
  BY <1>1, TakenType
<1>3. /\ f \in Frame /\ f.kind = "block" /\ f.scoped
      /\ f.brk = breakTarget /\ f.cont = continueTarget
  <2>1. /\ Top.within \in Seq(Nat) /\ Len(cleanups) \in Nat /\ Len(defers) \in Nat
        /\ breakTarget \in Nat /\ continueTarget \in Nat
    BY <1>1, TopType, CanTakeFacts
  <2> QED BY <2>1 DEF NewFrame, Frame, Kinds
<1>4. open' = Append([open EXCEPT ![Len(open)] = g], f)
  BY <1>2 DEF OpenBlock
<1> HIDE DEF f
<1>5. FrameOK(f, Len(code'))
  BY <1>3 DEF FrameOK
<1>6. breakTarget' = BreakIn(f) /\ continueTarget' = ContinueIn(f)
  BY <1>3 DEF BreakIn, ContinueIn, OpenBlock
<1>7. code' \in Seq(Block) /\ Len(code') >= Len(code) /\ cur' \in 1..Len(code')
  BY <1>1, TopFacts DEF OpenBlock
<1>8. scopes' = scopes \o Scope(f.scoped) /\ nStmts' \in Nat /\ UNCHANGED <<cleanups, defers>>
  BY <1>1, <1>3 DEF OpenBlock, Scope
<1> QED BY <1>1, <1>2, <1>3, <1>4, <1>5, <1>6, <1>7, <1>8, OpenStep

(* The same for the branches of an if. *)
LEMMA OpenIfIInv == IInv /\ OpenIf => IInv'
<1> SUFFICES ASSUME IInv, OpenIf PROVE IInv'
  OBVIOUS
<1>1. CanTake /\ open # <<>> /\ TypeOK /\ Place \in Nat /\ Len(code) \in Nat
  BY CanTakeFacts DEF OpenIf, CanOpen
<1>2. PICK g \in Frame : Alike(g, Top) /\ Taken = [open EXCEPT ![Len(open)] = g]
  BY <1>1, TakenType
<1> DEFINE then == Len(code) + 1
           merge == Len(code) + 2
           else(h) == IF h THEN Len(code) + 3 ELSE 0
           more(h) == IF h THEN 3 ELSE 2
<1>3. PICK h \in BOOLEAN, scoped \in BOOLEAN :
        /\ code' = Emit(<<Branch("condbr", 0, then, IF h THEN else(h) ELSE merge)>>)
                   \o NB(more(h))
        /\ cur' = then
        /\ scopes' = scopes \o Scope(scoped)
        /\ open' = Append(Taken, NewFrame("then", scoped, merge, else(h)))
  BY DEF OpenIf, BodyScoping
<1> DEFINE f == NewFrame("then", scoped, merge, else(h))
<1>4. then \in Nat /\ merge \in Nat /\ else(h) \in Nat /\ more(h) \in Nat
      /\ then <= Len(code) + more(h) /\ merge <= Len(code) + more(h)
      /\ else(h) <= Len(code) + more(h) /\ then >= 1 /\ merge >= 1
  BY <1>1
<1>5. open' = Append([open EXCEPT ![Len(open)] = g], f)
  BY <1>2, <1>3
<1>6. f = NewFrame("then", scoped, merge, else(h))
  OBVIOUS
<1> HIDE DEF f
<1>7. code' \in Seq(Block) /\ Len(code') = Len(code) + more(h)
  <2>1. "condbr" \in Ops
    BY DEF Ops, Terminators
  <2>2. (IF h THEN else(h) ELSE merge) \in Nat
    BY <1>4
  <2> HIDE DEF then, merge, else, more
  <2>3. <<Branch("condbr", 0, then, IF h THEN else(h) ELSE merge)>> \in Seq(Instr)
    BY <1>4, <2>1, <2>2, BranchType
  <2>4. NB(more(h)) \in Seq(Block) /\ Len(NB(more(h))) = more(h)
    BY <1>1, <1>4, BlockType
  <2> QED BY <1>1, <1>3, <2>3, <2>4, OpenCode
<1> HIDE DEF then, merge, else, more
<1>8. /\ f \in Frame /\ f.kind = "then" /\ f.scoped = scoped
      /\ f.next = merge /\ f.alt = else(h)
      /\ f.brk = breakTarget /\ f.cont = continueTarget
  <2>1. "then" \in Kinds
    BY DEF Kinds
  <2> QED BY <1>1, <1>4, <1>6, <2>1, FrameType
<1>9. FrameOK(f, Len(code'))
  BY <1>1, <1>4, <1>7, <1>8 DEF FrameOK
<1>10. breakTarget' = BreakIn(f) /\ continueTarget' = ContinueIn(f)
  BY <1>8 DEF BreakIn, ContinueIn, OpenIf
<1>11. scopes' = scopes \o Scope(f.scoped) /\ nStmts' \in Nat /\ UNCHANGED <<cleanups, defers>>
  BY <1>1, <1>3, <1>8 DEF OpenIf
<1>12. Len(code') >= Len(code) /\ cur' \in 1..Len(code')
  <2>1. cur' = then /\ Len(code') = Len(code) + more(h)
    BY <1>3, <1>7
  <2> QED BY <1>1, <1>4, <2>1
<1>13. f \in Frame /\ f.kind # "function" /\ f.brk = breakTarget /\ f.cont = continueTarget
  BY <1>8
<1>14. code' \in Seq(Block)
  BY <1>7
<1> QED BY <1>1, <1>2, <1>5, <1>9, <1>10, <1>11, <1>12, <1>13, <1>14, OpenStep

(* The else branch takes the place of the then branch. *)
LEMMA OpenElseIInv == IInv /\ OpenElse => IInv'
<1> SUFFICES ASSUME IInv, OpenElse PROVE IInv'
  OBVIOUS
<1>1. open # <<>> /\ Top.kind = "elsehead"
  BY DEF OpenElse
<1>2. PICK scoped \in BOOLEAN :
        /\ scopes' = scopes \o Scope(scoped)
        /\ open' = WithTop([Top EXCEPT !.kind = "else", !.scoped = scoped,
                                       !.objs = Len(cleanups), !.defs = Len(defers)])
  BY DEF OpenElse, BodyScoping
<1> DEFINE g == [Top EXCEPT !.kind = "else", !.scoped = scoped,
                            !.objs = Len(cleanups), !.defs = Len(defers)]
<1>3. /\ g \in Frame /\ g.kind = "else" /\ g.scoped = scoped /\ g.next = Top.next
      /\ g.brk = Top.brk /\ g.cont = Top.cont
  <2>1. Top \in Frame /\ Len(cleanups) \in Nat /\ Len(defers) \in Nat
    BY <1>1, TopFacts, TopType
  <2>2. "else" \in Kinds
    BY DEF Kinds
  <2> QED BY <2>1, <2>2 DEF Frame
<1>4. open' = [open EXCEPT ![Len(open)] = g]
  BY <1>2 DEF WithTop
<1> HIDE DEF g
<1>5. FrameOK(g, Len(code')) /\ ~Top.scoped
  BY <1>1, <1>3, TopFacts DEF FrameOK, OpenElse
<1>6. breakTarget' = BreakIn(g) /\ continueTarget' = ContinueIn(g)
  BY <1>1, <1>3, TopFacts DEF BreakIn, ContinueIn, OpenElse
<1>7. code' \in Seq(Block) /\ Len(code') >= Len(code) /\ cur' \in 1..Len(code')
  BY <1>1, TopFacts DEF OpenElse
<1>8. UNCHANGED <<cleanups, defers, nStmts>>
  BY DEF OpenElse
<1>9. CASE scoped
  BY <1>1, <1>2, <1>3, <1>4, <1>5, <1>6, <1>7, <1>8, <1>9, NextPartStep
<1>10. CASE ~scoped
  <2>1. scopes \in Seq(Mark)
    BY <1>1, TopFacts
  <2>2. scopes' = scopes
    BY <1>2, <1>10, <2>1 DEF Scope
  <2>3. Top.scoped = g.scoped
    BY <1>1, <1>3, <1>5, <1>10, TopFacts, TopType
  <2> QED BY <1>1, <1>3, <1>4, <1>5, <1>6, <1>7, <1>8, <2>2, <2>3, NextPartStep
<1> QED BY <1>9, <1>10

(* The bodies of while and do-while. *)
LEMMA OpenLoopIInv ==
  ASSUME IInv, NEW feature, NEW test, OpenLoop(feature, test)
  PROVE  IInv'
<1>1. CanTake /\ open # <<>> /\ TypeOK /\ Place \in Nat /\ Len(code) \in Nat
  BY CanTakeFacts DEF OpenLoop, CanOpen
<1>2. PICK g \in Frame : Alike(g, Top) /\ Taken = [open EXCEPT ![Len(open)] = g]
  BY <1>1, TakenType
<1> DEFINE cond == Len(code) + 1
           body == Len(code) + 2
           exit == Len(code) + 3
           entry == IF test = "first" THEN cond ELSE body
           test1 == [BlockHere EXCEPT !.is = <<Branch("condbr", 0, body, exit)>>]
<1>3. PICK scoped \in BOOLEAN :
        /\ code' = Emit(<<Br(entry)>>) \o <<test1>> \o NB(2)
        /\ cur' = body
        /\ breakTarget' = exit /\ continueTarget' = cond
        /\ scopes' = scopes \o Scope(scoped)
        /\ open' = Append(Taken, NewFrame("loop", scoped, cond, exit))
  BY DEF OpenLoop, BodyScoping
<1> DEFINE f == NewFrame("loop", scoped, cond, exit)
<1>4. /\ cond \in Nat /\ body \in Nat /\ exit \in Nat /\ entry \in Nat
      /\ cond \in 1..(Len(code) + 3) /\ body \in 1..(Len(code) + 3)
      /\ exit \in 1..(Len(code) + 3)
  BY <1>1
<1>5. open' = Append([open EXCEPT ![Len(open)] = g], f)
  BY <1>2, <1>3
<1>6. f = NewFrame("loop", scoped, cond, exit)
  OBVIOUS
<1> HIDE DEF f
<1>7. code' \in Seq(Block) /\ Len(code') = Len(code) + 3
  <2>1. "condbr" \in Ops /\ 0 \in Nat
    BY DEF Ops, Terminators
  <2> HIDE DEF cond, body, exit, entry
  <2>2. <<Branch("condbr", 0, body, exit)>> \in Seq(Instr)
    BY <1>4, <2>1, BranchType
  <2>3. <<test1>> \in Seq(Block) /\ Len(<<test1>>) = 1
    BY <1>1, <2>2, FilledBlock
  <2> HIDE DEF test1
  <2>4. <<Br(entry)>> \in Seq(Instr)
    BY <1>4, BrType
  <2>5. NB(2) \in Seq(Block) /\ Len(NB(2)) = 2
    BY <1>1, BlockType
  <2>6. /\ Emit(<<Br(entry)>>) \o <<test1>> \o NB(2) \in Seq(Block)
        /\ Len(Emit(<<Br(entry)>>) \o <<test1>> \o NB(2)) = Len(code) + 1 + 2
    BY ZenonT(40), <1>1, <2>3, <2>4, <2>5, OpenCodeTwo
  <2>7. code' \in Seq(Block) /\ Len(code') = Len(code) + 1 + 2
    BY <1>3, <2>6
  <2> QED BY <1>1, <2>7
<1> HIDE DEF cond, body, exit, entry, test1
<1>8. /\ f \in Frame /\ f.kind = "loop" /\ f.scoped = scoped
      /\ f.next = cond /\ f.alt = exit
      /\ f.brk = breakTarget /\ f.cont = continueTarget
  <2>1. "loop" \in Kinds
    BY DEF Kinds
  <2> QED BY <1>1, <1>4, <1>6, <2>1, FrameType
<1>9. FrameOK(f, Len(code'))
  BY <1>1, <1>4, <1>7, <1>8 DEF FrameOK
<1>10. breakTarget' = BreakIn(f) /\ continueTarget' = ContinueIn(f)
  BY <1>3, <1>8 DEF BreakIn, ContinueIn
<1>11. scopes' = scopes \o Scope(f.scoped) /\ nStmts' \in Nat /\ UNCHANGED <<cleanups, defers>>
  BY <1>1, <1>3, <1>8 DEF OpenLoop
<1>12. Len(code') >= Len(code) /\ cur' \in 1..Len(code')
  <2>1. cur' = body /\ Len(code') = Len(code) + 3
    BY <1>3, <1>7
  <2> QED BY <1>1, <1>4, <2>1
<1>13. f \in Frame /\ f.kind # "function" /\ f.brk = breakTarget /\ f.cont = continueTarget
  BY <1>8
<1>14. code' \in Seq(Block)
  BY <1>7
<1> QED BY <1>1, <1>2, <1>5, <1>9, <1>10, <1>11, <1>12, <1>13, <1>14, OpenStep

(* The first case of a switch. *)
LEMMA OpenSwitchIInv == IInv /\ OpenSwitch => IInv'
<1> SUFFICES ASSUME IInv, OpenSwitch PROVE IInv'
  OBVIOUS
<1>1. CanTake /\ open # <<>> /\ TypeOK /\ Place \in Nat /\ Len(code) \in Nat
  BY CanTakeFacts DEF OpenSwitch, CanOpen
<1>2. PICK g \in Frame : Alike(g, Top) /\ Taken = [open EXCEPT ![Len(open)] = g]
  BY <1>1, TakenType
<1> DEFINE exit == Len(code) + 1
           first == Len(code) + 2
           other(d) == IF d THEN first ELSE exit
<1>3. PICK n \in 1..MaxCases, default \in BOOLEAN :
        /\ code' = Emit(<<Branch("switch", n, first, other(default))>>) \o NB(n + 1)
        /\ cur' = first
        /\ breakTarget' = exit
        /\ open' = Append(Taken, [NewFrame("case", FALSE, exit, first)
                                    EXCEPT !.fin = Len(code) + 1 + n])
  BY DEF OpenSwitch
<1> DEFINE f == [NewFrame("case", FALSE, exit, first) EXCEPT !.fin = Len(code) + 1 + n]
           last == Len(code) + 1 + n
<1>4. /\ n \in Nat /\ n + 1 \in Nat /\ n >= 1
      /\ exit \in Nat /\ first \in Nat /\ other(default) \in Nat /\ last \in Nat
      /\ exit \in 1..(Len(code) + (n + 1)) /\ first \in 1..(Len(code) + (n + 1))
      /\ first <= last /\ last <= Len(code) + (n + 1)
  BY <1>1, BoundsAssumption
<1>5. open' = Append([open EXCEPT ![Len(open)] = g], f)
  BY <1>2, <1>3
<1>6. /\ f \in Frame /\ f.kind = "case" /\ ~f.scoped
      /\ f.next = exit /\ f.alt = first /\ f.fin = last
      /\ f.brk = breakTarget /\ f.cont = continueTarget
  <2>1. /\ Top.within \in Seq(Nat) /\ Len(cleanups) \in Nat /\ Len(defers) \in Nat
        /\ breakTarget \in Nat /\ continueTarget \in Nat
    BY <1>1, TopType, CanTakeFacts
  <2>2. f = [NewFrame("case", FALSE, exit, first) EXCEPT !.fin = last]
    OBVIOUS
  <2> HIDE DEF f, exit, first, last
  <2> QED BY <1>4, <2>1, <2>2 DEF NewFrame, Frame, Kinds
<1> HIDE DEF f
<1>7. code' \in Seq(Block) /\ Len(code') = Len(code) + (n + 1)
  <2>1. "switch" \in Ops
    BY DEF Ops, Terminators
  <2> HIDE DEF exit, first, other
  <2>2. <<Branch("switch", n, first, other(default))>> \in Seq(Instr)
    BY <1>4, <2>1, BranchType
  <2>3. NB(n + 1) \in Seq(Block) /\ Len(NB(n + 1)) = n + 1
    BY <1>1, <1>4, BlockType
  <2> QED BY <1>1, <1>3, <2>2, <2>3, OpenCode
<1> HIDE DEF exit, first, other, last
<1>8. FrameOK(f, Len(code'))
  BY <1>1, <1>4, <1>6, <1>7 DEF FrameOK
<1>9. breakTarget' = BreakIn(f) /\ continueTarget' = ContinueIn(f)
  BY <1>3, <1>6 DEF BreakIn, ContinueIn, OpenSwitch
<1>10. scopes' = scopes \o Scope(f.scoped) /\ nStmts' \in Nat /\ UNCHANGED <<cleanups, defers>>
  <2>1. scopes \in Seq(Mark)
    BY <1>1, TopFacts
  <2>2. UNCHANGED <<scopes, cleanups, defers>> /\ nStmts' = Place
    BY DEF OpenSwitch
  <2> QED BY <1>1, <1>6, <2>1, <2>2 DEF Scope
<1>11. Len(code') >= Len(code) /\ cur' \in 1..Len(code')
  <2>1. cur' = first /\ Len(code') = Len(code) + (n + 1)
    BY <1>3, <1>7
  <2> QED BY <1>1, <1>4, <2>1
<1>12. f \in Frame /\ f.kind # "function" /\ f.brk = breakTarget /\ f.cont = continueTarget
  BY <1>6
<1>13. code' \in Seq(Block)
  BY <1>7
<1> QED BY <1>1, <1>2, <1>5, <1>8, <1>9, <1>10, <1>11, <1>12, <1>13, OpenStep

(* The body of a try statement. *)
LEMMA OpenTryIInv == IInv /\ OpenTry => IInv'
<1> SUFFICES ASSUME IInv, OpenTry PROVE IInv'
  OBVIOUS
<1>1. CanTake /\ open # <<>> /\ TypeOK /\ Place \in Nat /\ Len(code) \in Nat
  BY CanTakeFacts DEF OpenTry, CanOpen
<1>2. PICK g \in Frame : Alike(g, Top) /\ Taken = [open EXCEPT ![Len(open)] = g]
  BY <1>1, TakenType
<1> DEFINE body == Len(code) + 1
           dispatch == Len(code) + 2
           exit == Len(code) + 3
           enter(n) == (IF n # 0 THEN <<Op("arm", n)>> ELSE <<>>)
                       \o <<Branch("try", 0, body, dispatch)>>
           inside == [BlockHere EXCEPT !.within = Append(@, dispatch)]
<1>3. PICK fin \in {0, Place} :
        /\ code' = Emit(enter(fin)) \o <<inside>> \o NB(2)
        /\ cur' = body
        /\ open' = Append(Taken, [NewFrame("try", FALSE, exit, dispatch)
                                    EXCEPT !.fin = fin, !.within = Append(@, dispatch)])
  BY DEF OpenTry
<1> DEFINE f == [NewFrame("try", FALSE, exit, dispatch)
                   EXCEPT !.fin = fin, !.within = Append(@, dispatch)]
<1>4. /\ fin \in Nat /\ body \in Nat /\ dispatch \in Nat /\ exit \in Nat
      /\ body \in 1..(Len(code) + 3) /\ dispatch \in 1..(Len(code) + 3)
      /\ exit \in 1..(Len(code) + 3)
  BY <1>1
<1>5. open' = Append([open EXCEPT ![Len(open)] = g], f)
  BY <1>2, <1>3
<1>6. /\ f \in Frame /\ f.kind = "try" /\ ~f.scoped
      /\ f.next = exit /\ f.alt = dispatch
      /\ f.brk = breakTarget /\ f.cont = continueTarget
  <2>1. /\ Top.within \in Seq(Nat) /\ Len(cleanups) \in Nat /\ Len(defers) \in Nat
        /\ breakTarget \in Nat /\ continueTarget \in Nat
    BY <1>1, TopType, CanTakeFacts
  <2>2. Append(Top.within, dispatch) \in Seq(Nat)
    BY <1>4, <2>1, StackPush
  <2>3. f = [NewFrame("try", FALSE, exit, dispatch)
               EXCEPT !.fin = fin, !.within = Append(Top.within, dispatch)]
    BY DEF NewFrame
  <2> HIDE DEF f, exit, dispatch
  <2> QED BY <1>4, <2>1, <2>2, <2>3 DEF NewFrame, Frame, Kinds
<1> HIDE DEF f
<1>7. code' \in Seq(Block) /\ Len(code') = Len(code) + 3
  <2>1. "try" \in Ops /\ "arm" \in Ops /\ 0 \in Nat
    BY DEF Ops, Terminators
  <2> HIDE DEF body, dispatch, exit
  <2>2. <<Branch("try", 0, body, dispatch)>> \in Seq(Instr)
    BY <1>4, <2>1, BranchType
  <2>3. <<Op("arm", fin)>> \in Seq(Instr) /\ <<>> \in Seq(Instr)
    BY <1>4, <2>1, OpType, EmptyType
  <2>4. enter(fin) \in Seq(Instr)
    BY <2>2, <2>3, ConcatType
  <2>5. inside \in Block
    <3>1. Top.within \in Seq(Nat) /\ BlockHere \in Block /\ BlockHere.within = Top.within
      BY <1>1, TopType, BlockType DEF BlockHere, NewBlock
    <3>2. Append(Top.within, dispatch) \in Seq(Nat)
      BY <1>4, <3>1, StackPush
    <3>3. inside = [BlockHere EXCEPT !.within = Append(Top.within, dispatch)]
      BY DEF BlockHere, NewBlock
    <3> QED BY <3>1, <3>2, <3>3 DEF Block
  <2> HIDE DEF inside, enter
  <2>6. <<inside>> \in Seq(Block) /\ Len(<<inside>>) = 1
    BY <2>5, OneType
  <2>7. NB(2) \in Seq(Block) /\ Len(NB(2)) = 2
    BY <1>1, BlockType
  <2>8. /\ Emit(enter(fin)) \o <<inside>> \o NB(2) \in Seq(Block)
        /\ Len(Emit(enter(fin)) \o <<inside>> \o NB(2)) = Len(code) + 1 + 2
    BY ZenonT(40), <1>1, <2>4, <2>6, <2>7, OpenCodeTwo
  <2>9. code' \in Seq(Block) /\ Len(code') = Len(code) + 1 + 2
    BY <1>3, <2>8
  <2> QED BY <1>1, <2>9
<1> HIDE DEF body, dispatch, exit, enter, inside
<1>8. FrameOK(f, Len(code'))
  BY <1>1, <1>4, <1>6, <1>7 DEF FrameOK
<1>9. breakTarget' = BreakIn(f) /\ continueTarget' = ContinueIn(f)
  BY <1>6 DEF BreakIn, ContinueIn, OpenTry
<1>10. scopes' = scopes \o Scope(f.scoped) /\ nStmts' \in Nat /\ UNCHANGED <<cleanups, defers>>
  <2>1. scopes \in Seq(Mark)
    BY <1>1, TopFacts
  <2>2. UNCHANGED <<scopes, cleanups, defers>> /\ nStmts' = Place
    BY DEF OpenTry
  <2> QED BY <1>1, <1>6, <2>1, <2>2 DEF Scope
<1>11. Len(code') >= Len(code) /\ cur' \in 1..Len(code')
  <2>1. cur' = body /\ Len(code') = Len(code) + 3
    BY <1>3, <1>7
  <2> QED BY <1>1, <1>4, <2>1
<1>12. f \in Frame /\ f.kind # "function" /\ f.brk = breakTarget /\ f.cont = continueTarget
  BY <1>6
<1>13. code' \in Seq(Block)
  BY <1>7
<1> QED BY <1>1, <1>2, <1>5, <1>8, <1>9, <1>10, <1>11, <1>12, <1>13, OpenStep

(* A catch clause. *)
LEMMA OpenCatchIInv == IInv /\ OpenCatch => IInv'
<1> SUFFICES ASSUME IInv, OpenCatch PROVE IInv'
  OBVIOUS
<1>1. open # <<>> /\ Top.kind = "dispatch" /\ TypeOK /\ Len(code) \in Nat
  BY TopFacts DEF OpenCatch
<1> DEFINE body == Len(code) + 1
           next == Len(code) + 2
           any(a) == IF a THEN 1 ELSE 0
<1>2. PICK all \in BOOLEAN :
        /\ code' = Emit(<<Branch("match", any(all), body, next)>>) \o NB(2)
        /\ cur' = body
        /\ scopes' = scopes \o Scope(TRUE)
        /\ open' = Append([open EXCEPT ![Len(open)].all = all],
                          NewFrame("catch", TRUE, Top.next, next))
  BY DEF OpenCatch
<1> DEFINE g == [Top EXCEPT !.all = all]
           f == NewFrame("catch", TRUE, Top.next, next)
<1>3. g \in Frame /\ Alike(g, Top)
  BY <1>1, TopType DEF Frame, Alike
<1>4. open' = Append([open EXCEPT ![Len(open)] = g], f)
  BY <1>2 DEF Top
<1>5. /\ body \in Nat /\ next \in Nat /\ any(all) \in Nat
      /\ body \in 1..(Len(code) + 2) /\ next \in 1..(Len(code) + 2)
  BY <1>1
<1>6. /\ f \in Frame /\ f.kind = "catch" /\ f.scoped
      /\ f.next = Top.next /\ f.alt = next
      /\ f.brk = breakTarget /\ f.cont = continueTarget
  <2>1. /\ Top.within \in Seq(Nat) /\ Top.next \in Nat
        /\ Len(cleanups) \in Nat /\ Len(defers) \in Nat
        /\ breakTarget \in Nat /\ continueTarget \in Nat
    BY <1>1, TopType DEF TypeOK
  <2> HIDE DEF next
  <2> QED BY <1>5, <2>1 DEF NewFrame, Frame, Kinds
<1> HIDE DEF f, g
<1>7. code' \in Seq(Block) /\ Len(code') = Len(code) + 2
  <2>1. "match" \in Ops
    BY DEF Ops, Terminators
  <2> HIDE DEF body, next, any
  <2>2. <<Branch("match", any(all), body, next)>> \in Seq(Instr)
    BY <1>5, <2>1, BranchType
  <2>3. NB(2) \in Seq(Block) /\ Len(NB(2)) = 2
    BY <1>1, BlockType
  <2> QED BY <1>1, <1>2, <2>2, <2>3, OpenCode
<1>8. Top.next \in 1..Len(code) /\ breakTarget = Top.brk /\ continueTarget = Top.cont
  BY <1>1, TopFacts DEF FrameOK, BreakIn, ContinueIn
<1> HIDE DEF body, next, any
<1>9. FrameOK(f, Len(code'))
  BY <1>1, <1>5, <1>6, <1>7, <1>8 DEF FrameOK
<1>10. breakTarget' = BreakIn(f) /\ continueTarget' = ContinueIn(f)
  BY <1>6 DEF BreakIn, ContinueIn, OpenCatch
<1>11. nStmts' \in Nat
  BY <1>1, TopFacts DEF OpenCatch, Place
<1>12. scopes' = scopes \o Scope(f.scoped) /\ UNCHANGED <<cleanups, defers>>
  BY <1>2, <1>6 DEF OpenCatch, Scope
<1>13. Len(code') >= Len(code) /\ cur' \in 1..Len(code')
  <2>1. cur' = body /\ Len(code') = Len(code) + 2
    BY <1>2, <1>7
  <2> QED BY <1>1, <1>5, <2>1
<1>14. f \in Frame /\ f.kind # "function" /\ f.brk = breakTarget /\ f.cont = continueTarget
  BY <1>6
<1>15. code' \in Seq(Block)
  BY <1>7
<1> QED BY <1>1, <1>3, <1>4, <1>9, <1>10, <1>11, <1>12, <1>13, <1>14, <1>15, OpenStep

(* The body of a lambda. *)
LEMMA OpenLambdaIInv == IInv /\ OpenLambda => IInv'
<1> SUFFICES ASSUME IInv, OpenLambda PROVE IInv'
  OBVIOUS
<1>1. /\ CanTake /\ open # <<>> /\ TypeOK /\ Place \in Nat
      /\ code \in Seq(Block) /\ Len(code) \in Nat /\ cur \in 1..Len(code)
  BY CanTakeFacts, TopFacts DEF OpenLambda, CanOpen
<1>2. PICK g \in Frame : Alike(g, Top) /\ Taken = [open EXCEPT ![Len(open)] = g]
  BY <1>1, TakenType
<1> DEFINE f == [NewFrame("lambda", TRUE, cur, 0) EXCEPT !.within = <<>>]
           b == NewBlock(Len(code) + 1, <<>>)
<1>3. /\ code' = Append(code, b) /\ cur' = Len(code) + 1
      /\ scopes' = scopes \o Scope(TRUE)
      /\ open' = Append(Taken, f)
  BY DEF OpenLambda
<1>4. open' = Append([open EXCEPT ![Len(open)] = g], f)
  BY <1>2, <1>3
<1>5. /\ f \in Frame /\ f.kind = "lambda" /\ f.scoped /\ f.next = cur
      /\ f.brk = breakTarget /\ f.cont = continueTarget
  <2>1. /\ <<>> \in Seq(Nat) /\ cur \in Nat
        /\ Len(cleanups) \in Nat /\ Len(defers) \in Nat
        /\ breakTarget \in Nat /\ continueTarget \in Nat
    BY <1>1, EmptyType, CanTakeFacts
  <2> QED BY <2>1 DEF NewFrame, Frame, Kinds
<1>6. b \in Block
  <2>1. <<>> \in Seq(Instr) /\ <<>> \in Seq(Nat) /\ Len(code) + 1 \in Nat
    BY <1>1, EmptyType
  <2> QED BY <2>1 DEF NewBlock, Block
<1> HIDE DEF f, b
<1>7. code' \in Seq(Block) /\ Len(code') = Len(code) + 1
  BY <1>1, <1>3, <1>6, StackPush
<1>8. FrameOK(f, Len(code'))
  BY <1>1, <1>5, <1>7 DEF FrameOK
<1>9. breakTarget' = BreakIn(f) /\ continueTarget' = ContinueIn(f)
  BY <1>5 DEF BreakIn, ContinueIn, OpenLambda
<1>10. scopes' = scopes \o Scope(f.scoped) /\ nStmts' \in Nat /\ UNCHANGED <<cleanups, defers>>
  BY <1>1, <1>5 DEF OpenLambda, Scope
<1>11. Len(code') >= Len(code) /\ cur' \in 1..Len(code')
  BY <1>1, <1>3, <1>7
<1>12. f \in Frame /\ f.kind # "function" /\ f.brk = breakTarget /\ f.cont = continueTarget
  BY <1>5
<1>13. code' \in Seq(Block)
  BY <1>7
<1> QED BY <1>1, <1>2, <1>4, <1>8, <1>9, <1>10, <1>11, <1>12, <1>13, OpenStep

(* Closing a body adds no block. *)
LEMMA CloseCode ==
  ASSUME IInv, open # <<>>, NEW tail \in Seq(Instr), code' = Emit(BodyEnd(tail)),
         NEW b \in 1..Len(code), cur' = b
  PROVE  code' \in Seq(Block) /\ Len(code') >= Len(code) /\ cur' \in 1..Len(code')
<1>1. code' \in Seq(Block) /\ Len(code') = Len(code) /\ Len(code) \in Nat
  BY BodyEndCode, TopFacts
<1> QED BY <1>1

(* A block and the init clause of a for statement go. *)
LEMMA CloseBlockIInv == IInv /\ CloseBlock => IInv'
<1> SUFFICES ASSUME IInv, CloseBlock PROVE IInv'
  OBVIOUS
<1>1. open # <<>> /\ Top.kind \in {"block", "forscope"}
  BY DEF CloseBlock, CanClose
<1>2. Top.scoped /\ breakTarget = Top.brk /\ continueTarget = Top.cont
  BY <1>1, TopFacts DEF FrameOK, BreakIn, ContinueIn
<1>3. code' \in Seq(Block) /\ Len(code') >= Len(code) /\ cur' \in 1..Len(code')
  <2>1. <<>> \in Seq(Instr) /\ cur \in 1..Len(code)
    BY <1>1, EmptyType, TopFacts
  <2> QED BY <1>1, <2>1, CloseCode DEF CloseBlock
<1>4. PopScope(Top.scoped)
  BY <1>2 DEF CloseBlock, PopScope
<1>5. /\ open' = Front(open) /\ breakTarget' = Top.brk /\ continueTarget' = Top.cont
      /\ UNCHANGED nStmts
  BY <1>2 DEF CloseBlock
<1> QED BY <1>1, <1>3, <1>4, <1>5, CloseStep

(* A branch of an if goes; the else branch may come. *)
LEMMA CloseBranchIInv == IInv /\ CloseBranch => IInv'
<1> SUFFICES ASSUME IInv, CloseBranch PROVE IInv'
  OBVIOUS
<1>1. open # <<>> /\ Top.kind \in {"then", "else"} /\ Top \in Frame
  BY TopFacts, TopType DEF CloseBranch, CanClose
<1>2. /\ breakTarget = Top.brk /\ continueTarget = Top.cont
      /\ Top.next \in 1..Len(code) /\ (Top.kind = "then" => Top.alt \in 0..Len(code))
      /\ Len(code) \in Nat
  BY <1>1, TopFacts DEF FrameOK, BreakIn, ContinueIn
<1>3. <<Br(Top.next)>> \in Seq(Instr)
  BY <1>1, BrType, TopFacts, TopType
<1>4. code' = Emit(BodyEnd(<<Br(Top.next)>>)) /\ PopScope(Top.scoped)
      /\ UNCHANGED <<breakTarget, continueTarget, nStmts>>
  BY DEF CloseBranch
<1>5. CASE Top.kind = "then" /\ Top.alt # 0
  <2> DEFINE g == [Top EXCEPT !.kind = "elsehead", !.scoped = FALSE, !.begun = FALSE]
  <2>1. cur' = Top.alt /\ open' = [open EXCEPT ![Len(open)] = g]
    BY <1>5 DEF CloseBranch, WithTop
  <2>2. /\ g \in Frame /\ g.kind = "elsehead" /\ ~g.scoped /\ g.next = Top.next
        /\ g.alt = Top.alt /\ g.brk = Top.brk /\ g.cont = Top.cont
    BY <1>1 DEF Frame, Kinds
  <2> HIDE DEF g
  <2>3. Top.alt \in 1..Len(code)
    BY <1>2, <1>5
  <2>4. code' \in Seq(Block) /\ Len(code') >= Len(code) /\ cur' \in 1..Len(code')
    BY <1>1, <1>3, <1>4, <2>1, <2>3, CloseCode
  <2>5. FrameOK(g, Len(code'))
    <3>1. Len(code') \in Nat
      BY <2>4
    <3>2. Top.next \in 1..Len(code') /\ Top.alt \in 1..Len(code')
      BY <1>2, <2>3, <2>4, <3>1
    <3> QED BY <2>2, <3>2 DEF FrameOK
  <2>6. breakTarget' = BreakIn(g) /\ continueTarget' = ContinueIn(g)
    BY <1>2, <1>4, <2>2 DEF BreakIn, ContinueIn
  <2>7. \/ Top.scoped = g.scoped /\ UNCHANGED <<scopes, cleanups, defers>>
        \/ Top.scoped /\ ~g.scoped /\ PopScope(TRUE)
    <3>1. CASE Top.scoped
      BY <1>4, <2>2, <3>1 DEF PopScope
    <3>2. CASE ~Top.scoped
      <4>1. Top.scoped \in BOOLEAN /\ g.scoped \in BOOLEAN
        BY <1>1, <2>2 DEF Frame
      <4> QED BY <1>4, <2>2, <3>2, <4>1 DEF PopScope
    <3> QED BY <3>1, <3>2
  <2>8. g.kind # "function" /\ Top.kind # "function"
    BY <1>1, <2>2
  <2> QED BY <1>1, <1>4, <2>1, <2>2, <2>4, <2>5, <2>6, <2>7, <2>8, NextPartStep
<1>6. CASE ~(Top.kind = "then" /\ Top.alt # 0)
  <2>1. cur' = Top.next /\ open' = Front(open)
    BY <1>6 DEF CloseBranch
  <2>2. code' \in Seq(Block) /\ Len(code') >= Len(code) /\ cur' \in 1..Len(code')
    BY <1>1, <1>2, <1>3, <1>4, <2>1, CloseCode
  <2> QED BY <1>1, <1>2, <1>4, <2>1, <2>2, CloseStep
<1> QED BY <1>5, <1>6

(* A loop's body goes. *)
LEMMA CloseLoopIInv == IInv /\ CloseLoop => IInv'
<1> SUFFICES ASSUME IInv, CloseLoop PROVE IInv'
  OBVIOUS
<1>1. open # <<>> /\ Top.kind = "loop"
  BY DEF CloseLoop, CanClose
<1>2. Top.alt \in 1..Len(code)
  BY <1>1, TopFacts DEF FrameOK
<1>3. <<Br(Top.next)>> \in Seq(Instr)
  BY <1>1, BrType, TopFacts, TopType
<1>4. /\ code' = Emit(BodyEnd(<<Br(Top.next)>>)) /\ PopScope(Top.scoped)
      /\ cur' = Top.alt /\ open' = Front(open)
      /\ breakTarget' = Top.brk /\ continueTarget' = Top.cont /\ UNCHANGED nStmts
  BY DEF CloseLoop
<1>5. code' \in Seq(Block) /\ Len(code') >= Len(code) /\ cur' \in 1..Len(code')
  BY <1>1, <1>2, <1>3, <1>4, CloseCode
<1> QED BY <1>1, <1>4, <1>5, CloseStep

(* A case goes; the next one may come. *)
LEMMA CloseCaseIInv == IInv /\ CloseCase => IInv'
<1> SUFFICES ASSUME IInv, CloseCase PROVE IInv'
  OBVIOUS
<1>1. open # <<>> /\ Top.kind = "case" /\ Top \in Frame
  BY TopFacts, TopType DEF CloseCase, CanClose
<1>2. /\ ~Top.scoped /\ breakTarget = Top.next /\ continueTarget = Top.cont
      /\ Top.next \in 1..Len(code) /\ Top.alt \in 1..Len(code)
      /\ Top.alt <= Top.fin /\ Top.fin <= Len(code)
      /\ Len(code) \in Nat /\ Top.fin \in Nat
      /\ Len(cleanups) \in Nat /\ Len(defers) \in Nat
  BY <1>1, TopFacts, TopType DEF FrameOK, BreakIn, ContinueIn
<1> DEFINE way(b) == IF b THEN Top.alt + 1 ELSE Top.next
<1>3. PICK b \in BOOLEAN : code' = Emit(BodyEnd(<<Br(way(b))>>))
  BY DEF CloseCase
<1>4. <<Br(way(b))>> \in Seq(Instr)
  <2>1. way(b) \in Nat
    BY <1>2
  <2> HIDE DEF way
  <2> QED BY <2>1, BrType
<1> HIDE DEF way
<1>5. UNCHANGED <<cleanups, defers, scopes, continueTarget, nStmts>>
  BY DEF CloseCase
<1>6. CASE Top.alt = Top.fin
  <2>1. cur' = Top.next /\ breakTarget' = Top.brk /\ open' = Front(open)
    BY <1>6 DEF CloseCase
  <2>2. code' \in Seq(Block) /\ Len(code') >= Len(code) /\ cur' \in 1..Len(code')
    BY <1>1, <1>2, <1>3, <1>4, <2>1, CloseCode
  <2>3. PopScope(Top.scoped)
    BY <1>2, <1>5 DEF PopScope
  <2> QED BY <1>1, <1>2, <1>5, <2>1, <2>2, <2>3, CloseStep
<1>7. CASE Top.alt # Top.fin
  <2> DEFINE following == Top.alt + 1
             g == [Top EXCEPT !.alt = following, !.begun = FALSE,
                              !.objs = Len(cleanups), !.defs = Len(defers)]
  <2>1. cur' = Top.alt + 1 /\ breakTarget' = breakTarget
        /\ open' = [open EXCEPT ![Len(open)] = g]
    BY <1>7 DEF CloseCase, WithTop
  <2>2. Top.alt + 1 \in 1..Len(code) /\ Top.alt + 1 <= Top.fin
    BY <1>2, <1>7
  <2>3. /\ g \in Frame /\ g.kind = "case" /\ g.scoped = Top.scoped /\ g.next = Top.next
        /\ g.alt = Top.alt + 1 /\ g.fin = Top.fin /\ g.brk = Top.brk /\ g.cont = Top.cont
    <3>1. following \in Nat
      BY <1>2
    <3> HIDE DEF following
    <3>2. /\ g \in Frame /\ g.kind = Top.kind /\ g.scoped = Top.scoped /\ g.next = Top.next
          /\ g.alt = following /\ g.fin = Top.fin /\ g.brk = Top.brk /\ g.cont = Top.cont
      BY <1>1, <1>2, <3>1 DEF Frame
    <3> QED BY <1>1, <3>2 DEF following
  <2> HIDE DEF g
  <2>4. code' \in Seq(Block) /\ Len(code') >= Len(code) /\ cur' \in 1..Len(code')
    BY <1>1, <1>3, <1>4, <2>1, <2>2, CloseCode
  <2>5. FrameOK(g, Len(code'))
    <3>1. FrameOK(g, Len(code))
      BY <1>2, <2>2, <2>3 DEF FrameOK
    <3>2. Len(code') \in Nat
      BY <2>4
    <3> QED BY <1>2, <2>3, <2>4, <3>1, <3>2, FrameGrows
  <2>6. breakTarget' = BreakIn(g) /\ continueTarget' = ContinueIn(g)
    BY <1>2, <1>5, <2>1, <2>3 DEF BreakIn, ContinueIn
  <2>7. g.kind # "function" /\ Top.kind # "function"
    BY <1>1, <2>3
  <2> QED BY <1>1, <1>5, <2>1, <2>3, <2>4, <2>5, <2>6, <2>7, NextPartStep
<1> QED BY <1>6, <1>7

(* All elements but the last, of any sequence. *)
LEMMA FrontType ==
  ASSUME NEW S, NEW q \in Seq(S)
  PROVE  Front(q) \in Seq(S)
<1>1. CASE q = <<>>
  <2>1. Front(q) = <<>>
    BY <1>1 DEF Front
  <2> QED BY <2>1, EmptyType
<1>2. CASE q # <<>>
  BY <1>2, StackPop
<1> QED BY <1>1, <1>2

(* After the body of a try its clauses come. *)
LEMMA CloseTryBodyIInv == IInv /\ CloseTryBody => IInv'
<1> SUFFICES ASSUME IInv, CloseTryBody PROVE IInv'
  OBVIOUS
<1>1. open # <<>> /\ Top.kind = "try" /\ Top \in Frame
  BY TopFacts, TopType DEF CloseTryBody, CanClose
<1>2. /\ ~Top.scoped /\ breakTarget = Top.brk /\ continueTarget = Top.cont
      /\ Top.next \in 1..Len(code) /\ Top.alt \in 1..Len(code)
      /\ Len(code) \in Nat /\ Top.next \in Nat
  BY <1>1, TopFacts, TopType DEF FrameOK, BreakIn, ContinueIn
<1> DEFINE w == Front(Top.within)
           g == [Top EXCEPT !.kind = "dispatch", !.within = w]
<1>3. /\ code' = Emit(BodyEnd(<<Op("tryleave", 0), Br(Top.next)>>)) /\ cur' = Top.alt
      /\ open' = [open EXCEPT ![Len(open)] = g]
      /\ UNCHANGED <<cleanups, defers, scopes, breakTarget, continueTarget, nStmts>>
  BY DEF CloseTryBody, WithTop
<1>4. <<Op("tryleave", 0), Br(Top.next)>> \in Seq(Instr)
  <2>1. Op("tryleave", 0) \in Instr
    BY OpType DEF Ops
  <2>2. Br(Top.next) \in Instr
    BY <1>2, BrType
  <2> QED BY <2>1, <2>2
<1>5. w \in Seq(Nat)
  BY <1>1, TopFacts, TopType, FrontType
<1> HIDE DEF w
<1>6. /\ g \in Frame /\ g.kind = "dispatch" /\ g.scoped = Top.scoped /\ g.next = Top.next
      /\ g.alt = Top.alt /\ g.brk = Top.brk /\ g.cont = Top.cont
  BY <1>1, <1>5 DEF Frame, Kinds
<1> HIDE DEF g
<1>7. code' \in Seq(Block) /\ Len(code') >= Len(code) /\ cur' \in 1..Len(code')
  BY <1>1, <1>2, <1>3, <1>4, CloseCode
<1>8. FrameOK(g, Len(code'))
  <2>1. FrameOK(g, Len(code))
    BY <1>2, <1>6 DEF FrameOK
  <2>2. Len(code') \in Nat
    BY <1>7
  <2> QED BY <1>2, <1>6, <1>7, <2>1, <2>2, FrameGrows
<1>9. breakTarget' = BreakIn(g) /\ continueTarget' = ContinueIn(g)
  BY <1>2, <1>3, <1>6 DEF BreakIn, ContinueIn
<1>10. g.kind # "function" /\ Top.kind # "function"
  BY <1>1, <1>6
<1> QED BY <1>1, <1>3, <1>6, <1>7, <1>8, <1>9, <1>10, NextPartStep

(* A catch clause goes. *)
LEMMA CloseCatchIInv == IInv /\ CloseCatch => IInv'
<1> SUFFICES ASSUME IInv, CloseCatch PROVE IInv'
  OBVIOUS
<1>1. open # <<>> /\ Top.kind = "catch"
  BY DEF CloseCatch, CanClose
<1>2. /\ Top.scoped /\ breakTarget = Top.brk /\ continueTarget = Top.cont
      /\ Top.alt \in 1..Len(code) /\ Top.next \in Nat
  BY <1>1, TopFacts, TopType DEF FrameOK, BreakIn, ContinueIn
<1>3. <<Op("clear", 0), Br(Top.next)>> \in Seq(Instr)
  <2>1. Op("clear", 0) \in Instr
    BY OpType DEF Ops
  <2>2. Br(Top.next) \in Instr
    BY <1>2, BrType
  <2> QED BY <2>1, <2>2
<1>4. code' \in Seq(Block) /\ Len(code') >= Len(code) /\ cur' \in 1..Len(code')
  BY <1>1, <1>2, <1>3, CloseCode DEF CloseCatch
<1>5. PopScope(Top.scoped)
  BY <1>2 DEF CloseCatch, PopScope
<1>6. /\ open' = Front(open) /\ breakTarget' = Top.brk /\ continueTarget' = Top.cont
      /\ UNCHANGED nStmts
  BY <1>2 DEF CloseCatch
<1> QED BY <1>1, <1>4, <1>5, <1>6, CloseStep

(* A finally body goes. *)
LEMMA CloseFinallyIInv == IInv /\ CloseFinally => IInv'
<1> SUFFICES ASSUME IInv, CloseFinally PROVE IInv'
  OBVIOUS
<1>1. open # <<>> /\ Top.kind = "finally"
  BY DEF CloseFinally, CanClose
<1>2. /\ ~Top.scoped /\ breakTarget = Top.brk /\ continueTarget = Top.cont
      /\ code \in Seq(Block) /\ Len(code) \in Nat /\ cur \in 1..Len(code)
  BY <1>1, TopFacts DEF FrameOK, BreakIn, ContinueIn
<1>3. code' \in Seq(Block) /\ Len(code') >= Len(code) /\ cur' \in 1..Len(code')
  BY <1>2 DEF CloseFinally
<1>4. PopScope(Top.scoped)
  BY <1>2 DEF CloseFinally, PopScope
<1>5. /\ open' = Front(open) /\ breakTarget' = Top.brk /\ continueTarget' = Top.cont
      /\ UNCHANGED nStmts
  BY <1>2 DEF CloseFinally
<1> QED BY <1>1, <1>3, <1>4, <1>5, CloseStep

(* A lambda ends and the function around it goes on where it was. *)
LEMMA CloseLambdaIInv == IInv /\ CloseLambda => IInv'
<1> SUFFICES ASSUME IInv, CloseLambda PROVE IInv'
  OBVIOUS
<1>1. open # <<>> /\ Top.kind = "lambda"
  BY DEF CloseLambda, CanClose
<1>2. /\ Top.scoped /\ breakTarget = Top.brk /\ continueTarget = Top.cont
      /\ Top.next \in 1..Len(code)
  BY <1>1, TopFacts DEF FrameOK, BreakIn, ContinueIn
<1>3. <<Op("ret", 0)>> \in Seq(Instr)
  BY OpType DEF Ops, Terminators
<1>4. code' \in Seq(Block) /\ Len(code') >= Len(code) /\ cur' \in 1..Len(code')
  BY <1>1, <1>2, <1>3, CloseCode DEF CloseLambda
<1>5. PopScope(Top.scoped)
  BY <1>2 DEF CloseLambda, PopScope
<1>6. /\ open' = Front(open) /\ breakTarget' = Top.brk /\ continueTarget' = Top.cont
      /\ UNCHANGED nStmts
  BY <1>2 DEF CloseLambda
<1> QED BY <1>1, <1>4, <1>5, <1>6, CloseStep

(* The function ends: it is the only open body. *)
LEMMA CloseFunctionIInv == IInv /\ CloseFunction => IInv'
<1> SUFFICES ASSUME IInv, CloseFunction PROVE IInv'
  OBVIOUS
<1>1. open # <<>> /\ Top.kind = "function"
  BY DEF CloseFunction, CanClose
<1>2. /\ Top.scoped /\ breakTarget = Top.brk /\ continueTarget = Top.cont
      /\ cur \in 1..Len(code) /\ Len(open) = 1 /\ open \in Seq(Frame)
  BY <1>1, TopFacts DEF FrameOK, BreakIn, ContinueIn
<1>3. <<Op("ret", 0)>> \in Seq(Instr)
  BY OpType DEF Ops, Terminators
<1>4. code' \in Seq(Block) /\ Len(code') >= Len(code) /\ cur' \in 1..Len(code')
  BY <1>1, <1>2, <1>3, CloseCode DEF CloseFunction
<1>5. PopScope(Top.scoped)
  BY <1>2 DEF CloseFunction, PopScope
<1>6. Front(open) = <<>>
  <2>1. Front(open) \in Seq(Frame) /\ Len(Front(open)) = 0
    BY <1>1, <1>2, StackPop
  <2> QED BY <2>1
<1>7. /\ open' = Front(open) /\ breakTarget' = Top.brk /\ continueTarget' = Top.cont
      /\ UNCHANGED nStmts
  BY <1>2, <1>6 DEF CloseFunction
<1> QED BY <1>1, <1>4, <1>5, <1>7, CloseStep

(* Adding to a block. *)
LEMMA BlockAdd ==
  ASSUME NEW c \in Seq(Block), NEW b \in 1..Len(c), NEW is \in Seq(Instr)
  PROVE  /\ [c EXCEPT ![b].is = c[b].is \o is] \in Seq(Block)
         /\ Len([c EXCEPT ![b].is = c[b].is \o is]) = Len(c)
<1>1. c[b].is \in Seq(Instr)
  <2>1. c[b] \in Block
    OBVIOUS
  <2> QED BY <2>1 DEF Block
<1>2. c[b].is \o is \in Seq(Instr)
  BY <1>1, ConcatType
<1>3. [c[b] EXCEPT !.is = c[b].is \o is] \in Block
  <2>1. c[b] \in Block
    OBVIOUS
  <2> QED BY <1>2, <2>1 DEF Block
<1> QED BY <1>3

(* After the last clause of a try comes the finally body, or nothing. *)
LEMMA CloseCatchesIInv == IInv /\ CloseCatches => IInv'
<1> SUFFICES ASSUME IInv, CloseCatches PROVE IInv'
  OBVIOUS
<1>1. open # <<>> /\ Top.kind = "dispatch" /\ Top \in Frame
  BY TopFacts, TopType DEF CloseCatches
<1>2. /\ ~Top.scoped /\ breakTarget = Top.brk /\ continueTarget = Top.cont
      /\ Top.next \in 1..Len(code) /\ Top.fin \in Nat
      /\ code \in Seq(Block) /\ cur \in 1..Len(code) /\ Len(code) \in Nat
  BY <1>1, TopFacts, TopType DEF FrameOK, BreakIn, ContinueIn
<1> DEFINE rethrow == <<Op("throw", 0), Op("unreachable", 0)>>
           c == IF cur = Top.alt THEN code ELSE Emit(rethrow)
           final == IF Top.fin = 0 THEN <<>> ELSE <<Op("run", Top.fin)>>
<1>3. /\ code' = [c EXCEPT ![Top.next].is = c[Top.next].is \o final]
      /\ cur' = Top.next
      /\ UNCHANGED <<cleanups, defers, scopes, breakTarget, continueTarget, nStmts>>
  BY DEF CloseCatches
<1>4. c \in Seq(Block) /\ Len(c) = Len(code)
  <2>1. Op("throw", 0) \in Instr /\ Op("unreachable", 0) \in Instr
    BY OpType DEF Ops, Terminators
  <2>2. rethrow \in Seq(Instr)
    BY <2>1
  <2> HIDE DEF rethrow
  <2> QED BY <1>2, <2>2, EmitType DEF IInv
<1>5. final \in Seq(Instr)
  <2>1. <<Op("run", Top.fin)>> \in Seq(Instr)
    BY <1>2, OpType DEF Ops
  <2> QED BY <2>1, EmptyType
<1> HIDE DEF c, final
<1>6. code' \in Seq(Block) /\ Len(code') = Len(code)
  <2>1. Top.next \in 1..Len(c)
    BY <1>2, <1>4
  <2>2. code' = [c EXCEPT ![Top.next].is = c[Top.next].is \o final]
    BY <1>3
  <2>3. /\ [c EXCEPT ![Top.next].is = c[Top.next].is \o final] \in Seq(Block)
        /\ Len([c EXCEPT ![Top.next].is = c[Top.next].is \o final]) = Len(c)
    BY ZenonT(40), <1>4, <1>5, <2>1, BlockAdd
  <2> QED BY <1>4, <2>2, <2>3
<1>7. Len(code') >= Len(code) /\ cur' \in 1..Len(code')
  BY <1>2, <1>3, <1>6
<1>8. CASE Top.fin = 0
  <2>1. open' = Front(open)
    BY <1>8 DEF CloseCatches
  <2>2. PopScope(Top.scoped)
    BY <1>2, <1>3 DEF PopScope
  <2> QED BY <1>1, <1>2, <1>3, <1>6, <1>7, <2>1, <2>2, CloseStep
<1>9. CASE Top.fin # 0
  <2> DEFINE g == [Top EXCEPT !.kind = "finally"]
  <2>1. open' = [open EXCEPT ![Len(open)] = g]
    BY <1>9 DEF CloseCatches, Top
  <2>2. /\ g \in Frame /\ g.kind = "finally" /\ g.scoped = Top.scoped /\ g.next = Top.next
        /\ g.brk = Top.brk /\ g.cont = Top.cont
    BY <1>1 DEF Frame, Kinds
  <2> HIDE DEF g
  <2>3. FrameOK(g, Len(code'))
    BY <1>2, <1>6, <2>2 DEF FrameOK
  <2>4. breakTarget' = BreakIn(g) /\ continueTarget' = ContinueIn(g)
    BY <1>2, <1>3, <2>2 DEF BreakIn, ContinueIn
  <2>5. g.kind # "function" /\ Top.kind # "function"
    BY <1>1, <2>2
  <2> QED BY <1>1, <1>3, <1>6, <1>7, <2>1, <2>2, <2>3, <2>4, <2>5, NextPartStep
<1> QED BY <1>8, <1>9

(* The scope of a for statement, with what the init clause declares, and   *)
(* the loop's body in it: two bodies begin at once.                        *)
LEMMA OpenForIInv == IInv /\ (OpenFor \/ OpenForEach) => IInv'
<1> SUFFICES ASSUME IInv, OpenFor \/ OpenForEach PROVE IInv'
  OBVIOUS
<1>1. /\ CanTake /\ open # <<>> /\ TypeOK /\ Place \in Nat /\ Len(code) \in Nat
      /\ open \in Seq(Frame) /\ scopes \in Seq(Mark)
      /\ cleanups \in Seq(Entry) /\ Len(cleanups) \in Nat /\ Len(defers) \in Nat
      /\ breakTarget \in Nat /\ continueTarget \in Nat
  BY CanTakeFacts, TopFacts DEF OpenFor, OpenForEach, CanOpen
<1>2. PICK g \in Frame : Alike(g, Top) /\ Taken = [open EXCEPT ![Len(open)] = g]
  BY <1>1, TakenType
<1> DEFINE cond == Len(code) + 1
           body == Len(code) + 2
           exit == Len(code) + 3
           incr == Len(code) + 4
           declared(i) == IF i THEN <<[obj |-> Place, moved |-> FALSE]>> ELSE <<>>
           more(i) == Len(cleanups) + Len(declared(i))
           inner(i) == [objs |-> more(i), defs |-> Len(defers)]
           start(i) == (IF i THEN <<Op("new", Place)>> ELSE <<>>) \o <<Br(cond)>>
           test == [BlockHere EXCEPT !.is = <<Branch("condbr", 0, body, exit)>>]
           back == [BlockHere EXCEPT !.is = <<Br(cond)>>]
<1>3. PICK i \in BOOLEAN, scoped \in BOOLEAN :
        /\ code' = Emit(start(i)) \o <<test>> \o NB(2) \o <<back>>
        /\ cur' = body /\ breakTarget' = exit /\ continueTarget' = incr
        /\ cleanups' = cleanups \o declared(i)
        /\ scopes' = scopes \o Scope(TRUE) \o (IF scoped THEN <<inner(i)>> ELSE <<>>)
        /\ open' = Taken \o
             <<NewFrame("forscope", TRUE, 0, 0),
               [NewFrame("loop", scoped, incr, exit) EXCEPT !.objs = more(i)]>>
  BY ZenonT(40) DEF OpenFor, OpenForEach, ForLoop, BodyScoping
<1> DEFINE p == [open EXCEPT ![Len(open)] = g]
           f1 == NewFrame("forscope", TRUE, 0, 0)
           f2 == [NewFrame("loop", scoped, incr, exit) EXCEPT !.objs = more(i)]
           q == Append(p, f1)
<1>4. /\ cond \in Nat /\ body \in Nat /\ exit \in Nat /\ incr \in Nat
      /\ body \in 1..(Len(code) + 4) /\ exit \in 1..(Len(code) + 4)
      /\ incr \in 1..(Len(code) + 4)
  BY <1>1
<1>5. /\ declared(i) \in Seq(Entry) /\ Len(declared(i)) \in Nat
  <2>1. [obj |-> Place, moved |-> FALSE] \in Entry
    BY <1>1 DEF Entry
  <2> QED BY <2>1, OneType, EmptyType
<1> HIDE DEF declared
<1>6. /\ cleanups' \in Seq(Entry) /\ Len(cleanups') = more(i)
      /\ more(i) \in Nat /\ more(i) >= Len(cleanups)
  <2>1. cleanups \o declared(i) \in Seq(Entry)
        /\ Len(cleanups \o declared(i)) = Len(cleanups) + Len(declared(i))
    BY <1>1, <1>5, ConcatType
  <2>2. cleanups' = cleanups \o declared(i)
    BY <1>3
  <2> QED BY <1>1, <1>5, <2>1, <2>2
<1> HIDE DEF more
<1>7. code' \in Seq(Block) /\ Len(code') = Len(code) + 4
  <2>1. "condbr" \in Ops /\ "new" \in Ops /\ 0 \in Nat
    BY DEF Ops, Terminators
  <2> HIDE DEF cond, body, exit, incr
  <2>2. <<Branch("condbr", 0, body, exit)>> \in Seq(Instr) /\ <<Br(cond)>> \in Seq(Instr)
    BY <1>4, <2>1, BranchType, BrType
  <2>3. <<Op("new", Place)>> \in Seq(Instr) /\ <<>> \in Seq(Instr)
    BY <1>1, <2>1, OpType, EmptyType
  <2>4. start(i) \in Seq(Instr)
    BY <2>2, <2>3, ConcatType
  <2>5. <<test>> \in Seq(Block) /\ Len(<<test>>) = 1
    BY <1>1, <2>2, FilledBlock
  <2>6. <<back>> \in Seq(Block) /\ Len(<<back>>) = 1
    BY <1>1, <2>2, FilledBlock
  <2>7. NB(2) \in Seq(Block) /\ Len(NB(2)) = 2
    BY <1>1, BlockType
  <2> HIDE DEF start, test, back
  <2> DEFINE x == <<test>>
             y == NB(2)
             z == <<back>>
             is == start(i)
  <2>8. code' = Emit(is) \o x \o y \o z
    BY <1>3
  <2>9. /\ x \in Seq(Block) /\ y \in Seq(Block) /\ z \in Seq(Block) /\ is \in Seq(Instr)
        /\ Len(x) = 1 /\ Len(y) = 2 /\ Len(z) = 1
    BY <2>4, <2>5, <2>6, <2>7
  <2> HIDE DEF x, y, z, is
  <2>10. /\ Emit(is) \o x \o y \o z \in Seq(Block)
         /\ Len(Emit(is) \o x \o y \o z) = Len(code) + Len(x) + Len(y) + Len(z)
    BY ZenonT(40), <1>1, <2>9, OpenCodeThree
  <2>11. code' \in Seq(Block) /\ Len(code') = Len(code) + 1 + 2 + 1
    BY <2>8, <2>9, <2>10
  <2> QED BY <1>1, <2>11
<1>8. /\ f1 \in Frame /\ f1.kind = "forscope" /\ f1.scoped
      /\ f1.brk = breakTarget /\ f1.cont = continueTarget
  <2>1. Top.within \in Seq(Nat)
    BY <1>1, TopType
  <2> QED BY <1>1, <2>1 DEF NewFrame, Frame, Kinds
<1>9. /\ f2 \in Frame /\ f2.kind = "loop" /\ f2.scoped = scoped
      /\ f2.next = incr /\ f2.alt = exit
      /\ f2.brk = breakTarget /\ f2.cont = continueTarget
  <2>1. Top.within \in Seq(Nat)
    BY <1>1, TopType
  <2> HIDE DEF incr, exit
  <2> QED BY <1>1, <1>4, <1>6, <2>1 DEF NewFrame, Frame, Kinds
<1> HIDE DEF f1, f2
<1>10. /\ p \in Seq(Frame) /\ p # <<>>
       /\ ShapeOK(p, Len(code))
       /\ JumpsOK(p, breakTarget, continueTarget)
       /\ Cardinality(Scoped(p)) = Cardinality(Scoped(open))
  BY <1>1, <1>2, AlikeKeeps
<1>11. open' = Append(q, f2)
  <2>1. open' = p \o <<f1, f2>>
    BY <1>2, <1>3 DEF f1, f2
  <2> HIDE DEF p
  <2> QED BY <1>8, <1>9, <1>10, <2>1
<1> HIDE DEF p
<1>12. /\ q \in Seq(Frame) /\ q # <<>>
       /\ Append(q, f2) \in Seq(Frame) /\ Append(q, f2) # <<>>
  <2>1. q \in Seq(Frame) /\ q # <<>>
    BY <1>8, <1>10, StackPush
  <2> HIDE DEF q
  <2> QED BY <1>9, <2>1, StackPush
<1>13. ShapeOK(open', Len(code'))
  <2>1. FrameOK(f1, Len(code)) /\ FrameOK(f2, Len(code'))
    BY <1>4, <1>7, <1>8, <1>9 DEF FrameOK
  <2>2. ShapeOK(q, Len(code))
    BY <1>1, <1>8, <1>10, <2>1, ShapePush
  <2> HIDE DEF q
  <2>3. Len(code) <= Len(code') /\ Len(code') \in Nat /\ f2.kind # "function"
    BY <1>1, <1>7, <1>9
  <2> QED BY <1>1, <1>9, <1>11, <1>12, <2>1, <2>2, <2>3, ShapePush
<1>14. JumpsOK(open', breakTarget', continueTarget')
  <2>1. BreakIn(f1) = breakTarget /\ ContinueIn(f1) = continueTarget
    BY <1>8 DEF BreakIn, ContinueIn
  <2>2. JumpsOK(q, breakTarget, continueTarget)
    BY <1>8, <1>10, <2>1, JumpsPush
  <2>3. BreakIn(f2) = breakTarget' /\ ContinueIn(f2) = continueTarget'
    BY <1>3, <1>9 DEF BreakIn, ContinueIn
  <2> HIDE DEF q
  <2> QED BY <1>9, <1>11, <1>12, <2>2, <2>3, JumpsPush
<1>15. scopes' \in Seq(Mark) /\ ScopesOK(open', scopes', Len(cleanups'), Len(defers'))
  <2> DEFINE s == Append(scopes, EmptyMark)
  <2>1. EmptyMark \in Mark /\ inner(i) \in Mark
    BY <1>1, <1>6 DEF EmptyMark, Mark
  <2>2. s \in Seq(Mark)
    BY <1>1, <2>1, StackPush
  <2>3. Cardinality(Scoped(q)) = Cardinality(Scoped(open)) + 1
    BY <1>8, <1>10, ScopedPush
  <2>4. scopes' = s \o (IF scoped THEN <<inner(i)>> ELSE <<>>)
    <3>1. scopes' = scopes \o <<EmptyMark>> \o (IF scoped THEN <<inner(i)>> ELSE <<>>)
      BY <1>3 DEF Scope
    <3>2. scopes \o <<EmptyMark>> = s
      BY <1>1
    <3> QED BY <3>1, <3>2
  <2> HIDE DEF q
  <2>5. ScopesOK(q, s, Len(cleanups), Len(defers))
    BY <1>1, <1>12, <2>3, ScopesPush DEF IInv, EmptyMark
  <2> HIDE DEF s
  <2>6. ScopesOK(q, s, more(i), Len(defers))
    BY <1>1, <1>6, <1>12, <2>2, <2>5, ScopesKeep
  <2>7. defers' = defers
    BY DEF OpenFor, OpenForEach, ForLoop
  <2>8. CASE scoped
    <3>1. Cardinality(Scoped(open')) = Cardinality(Scoped(q)) + 1
      BY <1>9, <1>11, <1>12, <2>8, ScopedPush
    <3>2. scopes' = Append(s, inner(i)) /\ scopes' \in Seq(Mark)
      BY <2>1, <2>2, <2>4, <2>8
    <3>3. ScopesOK(open', Append(s, [objs |-> more(i), defs |-> Len(defers)]),
                   more(i), Len(defers))
      BY <1>1, <1>6, <1>11, <1>12, <2>2, <2>6, <3>1, ScopesPush
    <3> QED BY <1>6, <2>7, <3>2, <3>3
  <2>9. CASE ~scoped
    <3>1. Cardinality(Scoped(open')) = Cardinality(Scoped(q))
      BY <1>9, <1>11, <1>12, <2>9, ScopedPush
    <3>2. scopes' = s
      BY <2>2, <2>4, <2>9
    <3>3. ScopesOK(open', s, more(i), Len(defers))
      BY <1>11, <1>12, <2>6, <3>1, ScopesSame
    <3> QED BY <1>6, <2>2, <2>7, <3>2, <3>3
  <2> QED BY <2>8, <2>9
<1>16. TypeOK'
  <2>1. cur' \in 1..Len(code') /\ breakTarget' \in Nat /\ continueTarget' \in Nat
    BY <1>1, <1>3, <1>4, <1>7
  <2>2. defers' \in Seq(Nat) /\ nStmts' \in Nat
    BY <1>1 DEF TypeOK, OpenFor, OpenForEach, ForLoop
  <2> QED BY <1>6, <1>7, <1>11, <1>12, <1>15, <2>1, <2>2 DEF TypeOK
<1> QED BY <1>13, <1>14, <1>15, <1>16 DEF IInv

-----------------------------------------------------------------------------
(* The theorems. *)

(* Every step of the generator keeps the invariant. *)
LEMMA NextIInv == IInv /\ [Generate]_genVars => IInv'
<1> SUFFICES ASSUME IInv, [Generate]_genVars PROVE IInv'
  OBVIOUS
<1>1. CASE Simple
  BY <1>1, SimpleIInv
<1>2. CASE OpenBlock \/ OpenIf \/ OpenElse \/ OpenFor \/ OpenForEach \/ OpenSwitch
  BY <1>2, OpenBlockIInv, OpenIfIInv, OpenElseIInv, OpenForIInv, OpenSwitchIInv
<1>3. CASE OpenWhile \/ OpenDoWhile
  BY <1>3, OpenLoopIInv DEF OpenWhile, OpenDoWhile
<1>4. CASE OpenTry \/ OpenCatch \/ OpenLambda
  BY <1>4, OpenTryIInv, OpenCatchIInv, OpenLambdaIInv
<1>5. CASE CloseBlock \/ CloseBranch \/ CloseLoop \/ CloseCase \/ CloseTryBody
  BY <1>5, CloseBlockIInv, CloseBranchIInv, CloseLoopIInv, CloseCaseIInv, CloseTryBodyIInv
<1>6. CASE CloseCatch \/ CloseCatches \/ CloseFinally \/ CloseLambda \/ CloseFunction
  BY <1>6, CloseCatchIInv, CloseCatchesIInv, CloseFinallyIInv, CloseLambdaIInv,
     CloseFunctionIInv
<1>7. CASE UNCHANGED genVars
  BY <1>7 DEF genVars, IInv, TypeOK, ShapeOK, JumpsOK, ScopesOK, Scoped
<1> QED BY <1>1, <1>2, <1>3, <1>4, <1>5, <1>6, <1>7 DEF Generate, Opening, Closing

(* The invariant holds in every state of the generator. *)
LEMMA Invariance == GenSpec => []IInv
  BY InitIInv, NextIInv, PTL DEF GenSpec

(* Each part of the generator's state has its type: blocks are blocks, and *)
(* every block number a handler holds on to names a block made before.     *)
THEOREM TypeCorrect == GenSpec => []TypeOK
<1>1. IInv => TypeOK
  BY DEF IInv
<1> QED BY <1>1, Invariance, PTL

(* Pushes and pops of cleanup scopes pair off with the bodies that have    *)
(* one, and every pop drops exactly what was registered since its own push *)
(* (pushCleanupScope, popCleanupScope), in every text.                     *)
THEOREM ScopesNest == GenSpec => []NestedScopes
<1>1. IInv => NestedScopes
  BY DEF IInv, ScopesOK, NestedScopes, Scoped
<1> QED BY <1>1, Invariance, PTL

(* break and continue go where the innermost loop or switch says, however  *)
(* loops, switches and lambdas are nested (the savedBreak and              *)
(* savedContinue of their handlers).                                       *)
THEOREM JumpsGoHome == GenSpec => []JumpTargets
<1>1. IInv => JumpTargets
  BY DEF IInv, JumpsOK, JumpTargets, Top
<1> QED BY <1>1, Invariance, PTL

(* A finished function leaves nothing in the generator for the next one to *)
(* find (generateFunction and its siblings).                               *)
THEOREM NothingLeftBehind == GenSpec => []CleanAtEnd
<1>1. IInv => CleanAtEnd
  <2> SUFFICES ASSUME IInv, open = <<>> PROVE CleanAtEnd
    BY DEF CleanAtEnd
  <2>1. breakTarget = 0 /\ continueTarget = 0
    BY DEF IInv, JumpsOK
  <2>2. Len(cleanups) = 0 /\ Len(defers) = 0 /\ Len(scopes) = Cardinality(Scoped(open))
    BY DEF IInv, ScopesOK
  <2>3. Scoped(open) = {}
    BY DEF Scoped
  <2>4. Len(scopes) = 0
    BY <2>2, <2>3, FS_EmptySet
  <2>5. cleanups = <<>> /\ defers = <<>> /\ scopes = <<>>
    BY <2>2, <2>4 DEF IInv, TypeOK
  <2> QED BY <2>1, <2>5 DEF CleanAtEnd
<1> QED BY <1>1, Invariance, PTL

-----------------------------------------------------------------------------
(***************************************************************************)
(* Every function the generator makes passes the IR verifier, for texts of *)
(* every length and depth: AcceptedByVerifier of ScopeCodeGen.  The texts  *)
(* are those without a statement after a return of a function's body       *)
(* (DeadCode), without a try that has only a finally (FinallyOnly), and    *)
(* without lambdas that reach into the function around them (LambdaPast);  *)
(* for these the code is known to be rejected.                             *)
(*                                                                         *)
(* WellFormed asks three things of the code, and each has a part of the    *)
(* invariant of its own, all about the stack of open bodies: which blocks  *)
(* still wait for their end (BlocksOK), which function each body belongs   *)
(* to (FnsOK), and whose objects are registered (MarksOK, EntriesOK).      *)
(* Again they are operators of sequences; an action pops a frame, adds to  *)
(* the code, pushes a frame, or several of these.                          *)
(***************************************************************************)

-----------------------------------------------------------------------------
(* Code that grows. *)

(* d is c with is added to the block b and the blocks of new at the end. *)
Grown(c, d, b, is, new) ==
  /\ c \in Seq(Block) /\ d \in Seq(Block) /\ b \in 1..Len(c)
  /\ is \in Seq(Instr) /\ new \in Seq(Block)
  /\ Len(d) = Len(c) + Len(new)
  /\ \A a \in 1..Len(c) :
       /\ d[a].fn = c[a].fn /\ d[a].within = c[a].within
       /\ d[a].is = IF a = b THEN c[a].is \o is ELSE c[a].is
  /\ \A a \in 1..Len(new) : d[Len(c) + a] = new[a]

(* No terminator at all; none but the last; one at the end. *)
Plain(s) == \A i \in 1..Len(s) : s[i].op \notin Terminators

TidySeq(s) == \A i \in 1..(Len(s) - 1) : s[i].op \notin Terminators

Ends(s) == s # <<>> /\ s[Len(s)].op \in Terminators

Tidy(c) == \A b \in 1..Len(c) : TidySeq(c[b].is)

(* A block of the function fn declares the object n. *)
DeclaredIn(c, n, fn) == \E d \in 1..Len(c) : c[d].fn = fn /\ Declares(c[d], n)

(* What WellFormed asks of an instruction in the function fn. *)
InstrOK(i, c, fn) ==
  /\ \A t \in Targets(i) : t \in 1..Len(c) /\ c[t].fn = fn
  /\ i.op \in {"destroy", "move"} => DeclaredIn(c, i.arg, fn)

SeqOK(s, c, fn) == \A i \in 1..Len(s) : InstrOK(s[i], c, fn)

CodeOK(c) == \A b \in 1..Len(c) : SeqOK(c[b].is, c, c[b].fn)

(* The builder's operations as growth. *)
LEMMA EmitGrows ==
  ASSUME NEW c \in Seq(Block), NEW b \in 1..Len(c), NEW is \in Seq(Instr)
  PROVE  Grown(c, [c EXCEPT ![b].is = @ \o is], b, is, <<>>)
<1> DEFINE d == [c EXCEPT ![b].is = @ \o is]
<1>1. Len(c) \in Nat /\ \A a \in 1..Len(c) : c[a] \in Block
  OBVIOUS
<1>2. c[b].is \o is \in Seq(Instr)
  BY <1>1, ConcatType DEF Block
<1>3. d \in Seq(Block) /\ Len(d) = Len(c)
  BY <1>2, BlockAdd
<1>4. <<>> \in Seq(Block) /\ Len(<<>>) = 0
  BY EmptyType
<1>5. ASSUME NEW a \in 1..Len(c)
      PROVE  /\ d[a].fn = c[a].fn /\ d[a].within = c[a].within
             /\ d[a].is = IF a = b THEN c[a].is \o is ELSE c[a].is
  <2>1. CASE a = b
    <3>1. d = [c EXCEPT ![b] = [c[b] EXCEPT !.is = c[b].is \o is]]
      OBVIOUS
    <3>2. PICK r \in Block : r = c[b]
      BY <1>1
    <3>3. PICK u \in Seq(Instr) : u = c[b].is \o is
      BY <1>2
    <3>4. PICK v : v = [r EXCEPT !.is = u]
      OBVIOUS
    <3>5. v.fn = r.fn /\ v.within = r.within /\ v.is = u
      BY <3>4 DEF Block
    <3>6. d = [c EXCEPT ![b] = v]
      BY <3>1, <3>2, <3>3, <3>4
    <3>7. d[a] = v
      <4> HIDE DEF d
      <4> QED BY <2>1, <3>6
    <3> HIDE DEF d
    <3> QED BY <2>1, <3>2, <3>3, <3>5, <3>7
  <2>2. CASE a # b
    BY <2>2
  <2> QED BY <2>1, <2>2
<1> HIDE DEF d
<1> QED BY <1>1, <1>3, <1>4, <1>5 DEF Grown, d

LEMMA NothingGrows ==
  ASSUME NEW c \in Seq(Block), NEW b \in 1..Len(c)
  PROVE  Grown(c, c, b, <<>>, <<>>)
<1>1. Len(c) \in Nat /\ \A a \in 1..Len(c) : c[a] \in Block
  OBVIOUS
<1>2. <<>> \in Seq(Block) /\ <<>> \in Seq(Instr) /\ Len(<<>>) = 0
  BY EmptyType
<1>3. \A a \in 1..Len(c) : c[a].is \o <<>> = c[a].is
  BY <1>1 DEF Block
<1> QED BY <1>1, <1>2, <1>3 DEF Grown

LEMMA Joined ==
  ASSUME NEW S, NEW s \in Seq(S), NEW t \in Seq(S), NEW n, Len(s) = n
  PROVE  /\ s \o t \in Seq(S) /\ Len(s \o t) = n + Len(t)
         /\ \A a \in 1..n : (s \o t)[a] = s[a]
         /\ \A a \in 1..Len(t) : (s \o t)[n + a] = t[a]
  OBVIOUS

LEMMA AppendGrows ==
  ASSUME NEW c, NEW d, NEW b, NEW is, Grown(c, d, b, is, <<>>), NEW new \in Seq(Block)
  PROVE  Grown(c, d \o new, b, is, new)
<1>1. c \in Seq(Block) /\ d \in Seq(Block) /\ b \in 1..Len(c) /\ is \in Seq(Instr)
  BY DEF Grown
<1>2. Len(d) = Len(c) /\ Len(c) \in Nat /\ Len(new) \in Nat
  <2>1. Len(d) = Len(c) + Len(<<>>) /\ Len(<<>>) = 0
    BY EmptyType DEF Grown
  <2> QED BY <1>1, <2>1
<1>3. /\ d \o new \in Seq(Block) /\ Len(d \o new) = Len(c) + Len(new)
      /\ \A a \in 1..Len(c) : (d \o new)[a] = d[a]
      /\ \A a \in 1..Len(new) : (d \o new)[Len(c) + a] = new[a]
  <2>1. PICK n : n = Len(c)
    OBVIOUS
  <2>2. Len(d) = n
    BY <1>2, <2>1
  <2> QED BY <1>1, <2>1, <2>2, Joined, SMTT(30)
<1>4. PICK e : e = d \o new
  OBVIOUS
<1>5. \A a \in 1..Len(c) : /\ e[a].fn = c[a].fn /\ e[a].within = c[a].within
                           /\ e[a].is = IF a = b THEN c[a].is \o is ELSE c[a].is
  BY <1>3, <1>4 DEF Grown
<1> QED BY <1>1, <1>3, <1>4, <1>5 DEF Grown

(* A block that nothing is added to. *)
LEMMA GrownSame ==
  ASSUME NEW c, NEW d, NEW b, NEW is, NEW new, Grown(c, d, b, is, new),
         NEW a \in 1..Len(c), a # b
  PROVE  d[a].is = c[a].is
<1>1. d[a].is = IF a = b THEN c[a].is \o is ELSE c[a].is
  BY DEF Grown
<1> QED BY <1>1

LEMMA GrownFacts ==
  ASSUME NEW c, NEW d, NEW b, NEW is, NEW new, Grown(c, d, b, is, new)
  PROVE  /\ Len(c) \in Nat /\ Len(d) \in Nat /\ Len(new) \in Nat
         /\ Len(d) = Len(c) + Len(new) /\ b \in 1..Len(c) /\ b \in 1..Len(d)
         /\ \A a \in 1..Len(c) : a \in 1..Len(d) /\ d[a].fn = c[a].fn
         /\ \A a \in 1..Len(c) : a # b => d[a].is = c[a].is
         /\ d[b].is = c[b].is \o is
         /\ c[b].is \in Seq(Instr) /\ is \in Seq(Instr)
         /\ \A a \in 1..Len(d) : a \in 1..Len(c) \/ (a - Len(c) \in 1..Len(new) /\ d[a] = new[a - Len(c)])
<1>1. c \in Seq(Block) /\ d \in Seq(Block) /\ b \in 1..Len(c) /\ new \in Seq(Block)
      /\ is \in Seq(Instr)
      /\ Len(c) \in Nat /\ Len(d) \in Nat /\ Len(new) \in Nat /\ Len(d) = Len(c) + Len(new)
  BY DEF Grown
<1>2. c[b].is \in Seq(Instr)
  <2>1. c[b] \in Block
    BY <1>1
  <2> QED BY <2>1 DEF Block
<1>3. ASSUME NEW a \in 1..Len(d)
      PROVE  a \in 1..Len(c) \/ (a - Len(c) \in 1..Len(new) /\ d[a] = new[a - Len(c)])
  <2>1. CASE a <= Len(c)
    BY <1>1, <2>1
  <2>2. CASE ~(a <= Len(c))
    <3>1. a - Len(c) \in 1..Len(new) /\ Len(c) + (a - Len(c)) = a
      BY <1>1, <2>2
    <3> QED BY <3>1 DEF Grown
  <2> QED BY <2>1, <2>2
<1>4. \A a \in 1..Len(c) : a \in 1..Len(d)
  BY <1>1
<1> QED BY <1>1, <1>2, <1>3, <1>4 DEF Grown

(* A sequence of instructions after another. *)
LEMMA SeqParts ==
  ASSUME NEW s \in Seq(Instr), NEW t \in Seq(Instr)
  PROVE  /\ s \o t \in Seq(Instr) /\ Len(s \o t) = Len(s) + Len(t)
         /\ Len(s) \in Nat /\ Len(t) \in Nat
         /\ \A i \in 1..Len(s \o t) :
              \/ i \in 1..Len(s) /\ (s \o t)[i] = s[i]
              \/ i - Len(s) \in 1..Len(t) /\ (s \o t)[i] = t[i - Len(s)]
         /\ \A i \in 1..Len(s) : i \in 1..Len(s \o t) /\ (s \o t)[i] = s[i]
         /\ \A i \in 1..Len(t) : Len(s) + i \in 1..Len(s \o t) /\ (s \o t)[Len(s) + i] = t[i]
  OBVIOUS

LEMMA SeqOKConcat ==
  ASSUME NEW s \in Seq(Instr), NEW t \in Seq(Instr), NEW c, NEW fn,
         SeqOK(s, c, fn), SeqOK(t, c, fn)
  PROVE  SeqOK(s \o t, c, fn)
<1>1. PICK u : u = s \o t
  OBVIOUS
<1>2. \A i \in 1..Len(u) : \/ i \in 1..Len(s) /\ u[i] = s[i]
                           \/ i - Len(s) \in 1..Len(t) /\ u[i] = t[i - Len(s)]
  BY <1>1, SeqParts
<1>3. SeqOK(u, c, fn)
  BY <1>2 DEF SeqOK
<1> QED BY <1>1, <1>3

LEMMA PlainConcat ==
  ASSUME NEW s \in Seq(Instr), NEW t \in Seq(Instr), Plain(s), Plain(t)
  PROVE  Plain(s \o t)
<1>1. PICK u : u = s \o t
  OBVIOUS
<1>2. \A i \in 1..Len(u) : \/ i \in 1..Len(s) /\ u[i] = s[i]
                           \/ i - Len(s) \in 1..Len(t) /\ u[i] = t[i - Len(s)]
  BY <1>1, SeqParts
<1>3. Plain(u)
  BY <1>2 DEF Plain
<1> QED BY <1>1, <1>3

LEMMA TidyConcat ==
  ASSUME NEW s \in Seq(Instr), NEW t \in Seq(Instr), Plain(s), TidySeq(t)
  PROVE  TidySeq(s \o t)
<1>1. PICK u : u = s \o t
  OBVIOUS
<1>2. /\ Len(u) = Len(s) + Len(t) /\ Len(s) \in Nat /\ Len(t) \in Nat
      /\ \A i \in 1..Len(u) : \/ i \in 1..Len(s) /\ u[i] = s[i]
                              \/ i - Len(s) \in 1..Len(t) /\ u[i] = t[i - Len(s)]
  BY <1>1, SeqParts
<1>3. ASSUME NEW i \in 1..(Len(u) - 1) PROVE u[i].op \notin Terminators
  <2>1. i \in 1..Len(u)
    BY <1>2
  <2>2. CASE i \in 1..Len(s) /\ u[i] = s[i]
    BY <2>2 DEF Plain
  <2>3. CASE i - Len(s) \in 1..Len(t) /\ u[i] = t[i - Len(s)]
    <3>1. i - Len(s) \in 1..(Len(t) - 1)
      BY <1>2, <2>3
    <3> QED BY <2>3, <3>1 DEF TidySeq
  <2> QED BY <1>2, <2>1, <2>2, <2>3
<1> QED BY <1>1, <1>3 DEF TidySeq

LEMMA EndsConcat ==
  ASSUME NEW s \in Seq(Instr), NEW t \in Seq(Instr), Ends(t)
  PROVE  Ends(s \o t)
<1>1. t # <<>> /\ Len(t) \in Nat /\ Len(s) \in Nat /\ Len(t) >= 1
  BY DEF Ends
<1>2. s \o t # <<>> /\ (s \o t)[Len(s \o t)] = t[Len(t)]
  BY <1>1
<1> QED BY <1>2 DEF Ends

(* A block that is open has no terminator at all. *)
LEMMA OpenIsPlain ==
  ASSUME NEW s \in Seq(Instr), TidySeq(s), ~Ends(s)
  PROVE  Plain(s)
<1> SUFFICES ASSUME NEW i \in 1..Len(s) PROVE s[i].op \notin Terminators
  BY DEF Plain
<1>1. i \in 1..(Len(s) - 1) \/ i = Len(s)
  OBVIOUS
<1>2. s # <<>>
  OBVIOUS
<1> QED BY <1>1, <1>2 DEF TidySeq, Ends

LEMMA PlainNotEnds ==
  ASSUME NEW s \in Seq(Instr), Plain(s)
  PROVE  ~Ends(s) /\ TidySeq(s)
<1>1. s # <<>> => Len(s) \in 1..Len(s)
  OBVIOUS
<1>2. \A i \in 1..(Len(s) - 1) : i \in 1..Len(s)
  OBVIOUS
<1> QED BY <1>1, <1>2 DEF Plain, Ends, TidySeq

LEMMA PlainEmpty == Plain(<<>>) /\ ~Ends(<<>>) /\ TidySeq(<<>>) /\ \A c, fn : SeqOK(<<>>, c, fn)
  BY DEF Plain, Ends, TidySeq, SeqOK

LEMMA PlainOne ==
  ASSUME NEW x \in Instr
  PROVE  /\ TidySeq(<<x>>)
         /\ x.op \notin Terminators => Plain(<<x>>)
         /\ x.op \in Terminators => Ends(<<x>>)
         /\ \A c, fn : InstrOK(x, c, fn) => SeqOK(<<x>>, c, fn)
  BY DEF Plain, Ends, TidySeq, SeqOK

(* What holds of an instruction still holds when the code has grown. *)
LEMMA DeclaredGrows ==
  ASSUME NEW c, NEW d, NEW b, NEW is, NEW new, Grown(c, d, b, is, new),
         NEW n, NEW fn, DeclaredIn(c, n, fn)
  PROVE  DeclaredIn(d, n, fn)
<1>1. PICK a \in 1..Len(c) : c[a].fn = fn /\ Declares(c[a], n)
  BY DEF DeclaredIn
<1>2. PICK i \in 1..Len(c[a].is) : c[a].is[i] = Op("new", n)
  BY <1>1 DEF Declares
<1>3. a \in 1..Len(d) /\ d[a].fn = fn
  BY <1>1, GrownFacts
<1>4. i \in 1..Len(d[a].is) /\ d[a].is[i] = Op("new", n)
  <2>1. CASE a # b
    BY <1>2, <2>1, GrownFacts
  <2>2. CASE a = b
    <3>1. d[b].is = c[b].is \o is /\ c[b].is \in Seq(Instr) /\ is \in Seq(Instr)
      BY GrownFacts
    <3> QED BY <1>2, <2>2, <3>1, SeqParts
  <2> QED BY <2>1, <2>2
<1> QED BY <1>3, <1>4 DEF DeclaredIn, Declares

LEMMA SeqOKGrows ==
  ASSUME NEW c, NEW d, NEW b, NEW is, NEW new, Grown(c, d, b, is, new),
         NEW s, NEW fn, SeqOK(s, c, fn)
  PROVE  SeqOK(s, d, fn)
<1> SUFFICES ASSUME NEW i \in 1..Len(s) PROVE InstrOK(s[i], d, fn)
  BY DEF SeqOK
<1>1. InstrOK(s[i], c, fn)
  BY DEF SeqOK
<1>2. PICK x : x = s[i]
  OBVIOUS
<1>3. \A t \in Targets(x) : t \in 1..Len(d) /\ d[t].fn = fn
  BY <1>1, <1>2, GrownFacts, SMTT(30) DEF InstrOK
<1>4. x.op \in {"destroy", "move"} => DeclaredIn(d, x.arg, fn)
  <2> SUFFICES ASSUME x.op \in {"destroy", "move"} PROVE DeclaredIn(d, x.arg, fn)
    OBVIOUS
  <2>1. PICK n : n = x.arg
    OBVIOUS
  <2>2. DeclaredIn(c, n, fn)
    BY <1>1, <1>2, <2>1 DEF InstrOK
  <2> QED BY <2>1, <2>2, DeclaredGrows
<1> QED BY <1>2, <1>3, <1>4 DEF InstrOK

LEMMA CodeOKGrows ==
  ASSUME NEW c, NEW d, NEW b, NEW is, NEW new, Grown(c, d, b, is, new), CodeOK(c),
         SeqOK(is, d, c[b].fn),
         \A a \in 1..Len(new) : SeqOK(new[a].is, d, new[a].fn)
  PROVE  CodeOK(d)
<1> SUFFICES ASSUME NEW a \in 1..Len(d) PROVE SeqOK(d[a].is, d, d[a].fn)
  BY DEF CodeOK
<1>1. CASE a \in 1..Len(c)
  <2>1. PICK s, fn : s = c[a].is /\ fn = c[a].fn
    OBVIOUS
  <2>2. SeqOK(s, c, fn)
    BY <1>1, <2>1 DEF CodeOK
  <2>3. SeqOK(s, d, fn)
    BY <2>2, SeqOKGrows
  <2>4. d[a].fn = fn
    BY <1>1, <2>1, GrownFacts
  <2>5. CASE a # b
    <3>1. d[a].is = s
      BY <1>1, <2>1, <2>5, GrownFacts
    <3> QED BY <2>3, <2>4, <3>1
  <2>6. CASE a = b
    <3>1. d[b].is = s \o is /\ s \in Seq(Instr) /\ is \in Seq(Instr)
      BY <2>1, <2>6, GrownFacts
    <3>2. SeqOK(is, d, fn)
      BY <2>1, <2>6
    <3>3. SeqOK(s \o is, d, fn)
      BY <2>3, <3>1, <3>2, SeqOKConcat
    <3> QED BY <2>4, <2>6, <3>1, <3>3
  <2> QED BY <2>5, <2>6
<1>2. CASE a - Len(c) \in 1..Len(new) /\ d[a] = new[a - Len(c)]
  BY <1>2
<1> QED BY <1>1, <1>2, GrownFacts

LEMMA TidyGrows ==
  ASSUME NEW c, NEW d, NEW b, NEW is, NEW new, Grown(c, d, b, is, new), Tidy(c),
         is = <<>> \/ (~Ends(c[b].is) /\ TidySeq(is)),
         \A a \in 1..Len(new) : TidySeq(new[a].is)
  PROVE  Tidy(d)
<1> SUFFICES ASSUME NEW a \in 1..Len(d) PROVE TidySeq(d[a].is)
  BY DEF Tidy
<1>1. CASE a \in 1..Len(c)
  <2>1. TidySeq(c[a].is)
    BY <1>1 DEF Tidy
  <2>2. CASE a # b
    BY <1>1, <2>1, <2>2, GrownFacts
  <2>3. CASE a = b
    <3>1. PICK s \in Seq(Instr) : s = c[b].is
      BY GrownFacts
    <3>2. d[b].is = s \o is /\ is \in Seq(Instr)
      BY <3>1, GrownFacts
    <3>3. CASE is = <<>>
      BY <2>1, <2>3, <3>1, <3>2, <3>3
    <3>4. CASE ~Ends(s) /\ TidySeq(is)
      <4>1. Plain(s)
        BY <2>1, <2>3, <3>1, <3>4, OpenIsPlain
      <4>2. TidySeq(s \o is)
        BY <3>2, <3>4, <4>1, TidyConcat
      <4> QED BY <2>3, <3>2, <4>2
    <3> QED BY <3>1, <3>3, <3>4
  <2> QED BY <2>2, <2>3
<1>2. CASE a - Len(c) \in 1..Len(new) /\ d[a] = new[a - Len(c)]
  BY <1>2
<1> QED BY <1>1, <1>2, GrownFacts

LEMMA TerminatedIsEnds == \A x : Terminated(x) <=> Ends(x.is)
  BY DEF Terminated, Ends

-----------------------------------------------------------------------------
(* The blocks that wait for their end. *)

(* The blocks a handler will go on with when the body in hand has ended. *)
Pend(f) ==
  CASE f.kind = "then" -> {f.next, f.alt} \ {0}
    [] f.kind \in {"elsehead", "else", "dispatch", "lambda"} -> {f.next}
    [] f.kind \in {"loop", "catch"} -> {f.alt}
    [] f.kind = "case" -> {f.next} \cup (f.alt + 1)..f.fin
    [] f.kind = "try" -> {f.next, f.alt}
    [] OTHER -> {}

(* The blocks of one handler are different ones. *)
Apart(f) ==
  /\ f.kind \in {"then", "try"} => f.next # f.alt
  /\ f.kind = "case" => f.next < f.alt

(* Every block of c has its end, or waits in one of the frames, in no two, *)
(* or is one of those in X: the block in hand.                             *)
BlocksOK(o, c, X) ==
  /\ X \subseteq 1..Len(c)
  /\ \A k \in 1..Len(o) :
       /\ Pend(o[k]) \subseteq 1..Len(c) /\ Pend(o[k]) \cap X = {} /\ Apart(o[k])
       /\ \A b \in Pend(o[k]) : ~Ends(c[b].is)
       /\ \A j \in 1..Len(o) : j # k => Pend(o[j]) \cap Pend(o[k]) = {}
       /\ o[k].kind = "dispatch" /\ k < Len(o) => o[k + 1].kind = "catch"
  /\ \A b \in 1..Len(c) : Ends(c[b].is) \/ b \in X \/ \E k \in 1..Len(o) : b \in Pend(o[k])

(* The same frames, but for what the invariant does not look at. *)
SameFrames(o, p) ==
  /\ o \in Seq(Frame) /\ p \in Seq(Frame) /\ Len(p) = Len(o)
  /\ \A k \in 1..Len(o) : Alike(p[k], o[k]) /\ p[k].objs = o[k].objs

LEMMA BlocksSame ==
  ASSUME NEW o, NEW p, SameFrames(o, p), NEW c, NEW X, BlocksOK(o, c, X)
  PROVE  BlocksOK(p, c, X)
<1>1. Len(p) = Len(o) /\ Len(o) \in Nat
  BY DEF SameFrames
<1>2. \A k \in 1..Len(o) : Pend(p[k]) = Pend(o[k])
  BY DEF SameFrames, Alike, Pend
<1>3. \A k \in 1..Len(o) : p[k].kind = o[k].kind /\ (Apart(p[k]) <=> Apart(o[k]))
  BY DEF SameFrames, Alike, Apart
<1>4. ASSUME NEW k \in 1..Len(o)
      PROVE  /\ Pend(p[k]) \subseteq 1..Len(c) /\ Pend(p[k]) \cap X = {} /\ Apart(p[k])
             /\ \A b \in Pend(p[k]) : ~Ends(c[b].is)
             /\ \A j \in 1..Len(o) : j # k => Pend(p[j]) \cap Pend(p[k]) = {}
  BY <1>2, <1>3 DEF BlocksOK
<1>5. ASSUME NEW k \in 1..Len(o), p[k].kind = "dispatch", k < Len(o)
      PROVE  p[k + 1].kind = "catch"
  <2>1. k + 1 \in 1..Len(o)
    BY <1>1, <1>5
  <2>2. o[k + 1].kind = "catch"
    BY <1>3, <1>5 DEF BlocksOK
  <2> QED BY <1>3, <2>1, <2>2
<1>6. \A b \in 1..Len(c) : Ends(c[b].is) \/ b \in X \/ \E k \in 1..Len(o) : b \in Pend(p[k])
  BY <1>2 DEF BlocksOK
<1>7. X \subseteq 1..Len(c)
  BY DEF BlocksOK
<1> QED BY <1>1, <1>4, <1>5, <1>6, <1>7 DEF BlocksOK

LEMMA BlocksGrow ==
  ASSUME NEW o, NEW c, NEW d, NEW b, NEW is, NEW new, Grown(c, d, b, is, new),
         NEW X, BlocksOK(o, c, X), b \in X
  PROVE  BlocksOK(o, d, X \cup (Len(c) + 1)..Len(d))
<1> DEFINE Fresh == (Len(c) + 1)..Len(d)
<1>1. Len(c) \in Nat /\ Len(d) \in Nat /\ Len(c) <= Len(d)
  BY GrownFacts
<1>2. Fresh \subseteq 1..Len(d) /\ Fresh \cap 1..Len(c) = {} /\ 1..Len(c) \subseteq 1..Len(d)
      /\ \A a \in 1..Len(d) : a \in 1..Len(c) \/ a \in Fresh
  BY <1>1
<1> HIDE DEF Fresh
<1>3. ASSUME NEW k \in 1..Len(o)
      PROVE  /\ Pend(o[k]) \subseteq 1..Len(d) /\ Pend(o[k]) \cap (X \cup Fresh) = {}
             /\ \A a \in Pend(o[k]) : ~Ends(d[a].is)
  <2>1. /\ Pend(o[k]) \subseteq 1..Len(c) /\ Pend(o[k]) \cap X = {}
        /\ \A a \in Pend(o[k]) : ~Ends(c[a].is)
    BY DEF BlocksOK
  <2>2. ASSUME NEW a \in Pend(o[k]) PROVE d[a].is = c[a].is
    <3>1. a \in 1..Len(c) /\ a # b
      BY <2>1
    <3> QED BY <3>1, GrownSame
  <2> QED BY <1>2, <2>1, <2>2
<1>4. ASSUME NEW a \in 1..Len(d)
      PROVE  Ends(d[a].is) \/ a \in X \cup Fresh \/ \E k \in 1..Len(o) : a \in Pend(o[k])
  <2>1. CASE a \in Fresh
    BY <2>1
  <2>2. CASE a \in 1..Len(c) /\ a = b
    BY <2>2
  <2>3. CASE a \in 1..Len(c) /\ a # b
    <3>1. d[a].is = c[a].is
      BY <2>3, GrownFacts
    <3>2. Ends(c[a].is) \/ a \in X \/ \E k \in 1..Len(o) : a \in Pend(o[k])
      BY <2>3 DEF BlocksOK
    <3> QED BY <3>1, <3>2
  <2> QED BY <1>2, <2>1, <2>2, <2>3
<1>5. X \cup Fresh \subseteq 1..Len(d)
  BY <1>2 DEF BlocksOK
<1>6. \A k \in 1..Len(o) :
        /\ Apart(o[k])
        /\ \A j \in 1..Len(o) : j # k => Pend(o[j]) \cap Pend(o[k]) = {}
        /\ o[k].kind = "dispatch" /\ k < Len(o) => o[k + 1].kind = "catch"
  BY DEF BlocksOK
<1>7. BlocksOK(o, d, X \cup Fresh)
  BY <1>3, <1>4, <1>5, <1>6 DEF BlocksOK
<1> QED BY <1>7 DEF Fresh

(* A block that has its end need not be looked after any more. *)
LEMMA BlocksDrop ==
  ASSUME NEW o, NEW c, NEW X, BlocksOK(o, c, X), NEW Y, Y \subseteq X,
         \A b \in X : b \in Y \/ Ends(c[b].is)
  PROVE  BlocksOK(o, c, Y)
<1>1. Y \subseteq 1..Len(c)
  BY DEF BlocksOK
<1>2. \A k \in 1..Len(o) :
        /\ Pend(o[k]) \subseteq 1..Len(c) /\ Pend(o[k]) \cap Y = {} /\ Apart(o[k])
        /\ \A b \in Pend(o[k]) : ~Ends(c[b].is)
        /\ \A j \in 1..Len(o) : j # k => Pend(o[j]) \cap Pend(o[k]) = {}
        /\ o[k].kind = "dispatch" /\ k < Len(o) => o[k + 1].kind = "catch"
  BY DEF BlocksOK
<1>3. \A b \in 1..Len(c) : Ends(c[b].is) \/ b \in Y \/ \E k \in 1..Len(o) : b \in Pend(o[k])
  BY DEF BlocksOK
<1> QED BY <1>1, <1>2, <1>3 DEF BlocksOK

(* What the top frame waits for. *)
LEMMA BlocksTop ==
  ASSUME NEW o \in Seq(Frame), o # <<>>, NEW f, f = o[Len(o)],
         NEW c, NEW X, BlocksOK(o, c, X)
  PROVE  /\ Pend(f) \subseteq 1..Len(c) /\ Pend(f) \cap X = {} /\ Apart(f)
         /\ \A b \in Pend(f) : ~Ends(c[b].is)
<1>1. Len(o) \in 1..Len(o)
  OBVIOUS
<1> QED BY <1>1 DEF BlocksOK

LEMMA BlocksPop ==
  ASSUME NEW o \in Seq(Frame), o # <<>>, NEW f, f = o[Len(o)],
         NEW c, NEW X, BlocksOK(o, c, X)
  PROVE  BlocksOK(Front(o), c, X \cup Pend(f))
<1>1. PICK p, n, Y : p = Front(o) /\ n = Len(o) /\ Y = X \cup Pend(f)
  OBVIOUS
<1>2. n \in Nat /\ n >= 1 /\ Len(p) = n - 1 /\ \A k \in 1..(n - 1) : p[k] = o[k]
  BY <1>1, StackPop
<1>3. n \in 1..n /\ \A k \in 1..(n - 1) : k \in 1..n /\ k # n /\ k < n
  BY <1>2
<1>4. /\ Pend(f) \subseteq 1..Len(c) /\ Pend(f) \cap X = {}
      /\ X \subseteq 1..Len(c)
  BY BlocksTop DEF BlocksOK
<1>5. ASSUME NEW k \in 1..(n - 1)
      PROVE  /\ Pend(p[k]) \subseteq 1..Len(c) /\ Pend(p[k]) \cap Y = {} /\ Apart(p[k])
             /\ \A b \in Pend(p[k]) : ~Ends(c[b].is)
             /\ \A j \in 1..(n - 1) : j # k => Pend(p[j]) \cap Pend(p[k]) = {}
  <2>1. /\ Pend(o[k]) \subseteq 1..Len(c) /\ Pend(o[k]) \cap X = {} /\ Apart(o[k])
        /\ \A b \in Pend(o[k]) : ~Ends(c[b].is)
        /\ \A j \in 1..n : j # k => Pend(o[j]) \cap Pend(o[k]) = {}
    BY <1>1, <1>3 DEF BlocksOK
  <2>2. Pend(f) \cap Pend(o[k]) = {}
    BY <1>1, <1>3, <2>1
  <2>3. \A j \in 1..(n - 1) : j # k => Pend(o[j]) \cap Pend(o[k]) = {}
    BY <1>3, <2>1
  <2> QED BY <1>1, <1>2, <2>1, <2>2, <2>3
<1>6. ASSUME NEW k \in 1..(n - 1), p[k].kind = "dispatch", k < n - 1
      PROVE  p[k + 1].kind = "catch"
  <2>1. k + 1 \in 1..(n - 1)
    BY <1>2, <1>6
  <2>2. o[k + 1].kind = "catch"
    BY <1>1, <1>2, <1>3, <1>6 DEF BlocksOK
  <2> QED BY <1>2, <2>1, <2>2
<1>7. ASSUME NEW b \in 1..Len(c)
      PROVE  Ends(c[b].is) \/ b \in Y \/ \E k \in 1..(n - 1) : b \in Pend(p[k])
  <2>1. Ends(c[b].is) \/ b \in X \/ \E k \in 1..n : b \in Pend(o[k])
    BY <1>1 DEF BlocksOK
  <2>2. ASSUME NEW k \in 1..n, b \in Pend(o[k]) PROVE b \in Y \/ \E j \in 1..(n - 1) : b \in Pend(p[j])
    <3>1. CASE k = n
      BY <1>1, <2>2, <3>1
    <3>2. CASE k # n
      <4>1. k \in 1..(n - 1)
        BY <1>2, <3>2
      <4> QED BY <1>2, <2>2, <4>1
    <3> QED BY <3>1, <3>2
  <2> QED BY <1>1, <2>1, <2>2
<1>8. Y \subseteq 1..Len(c)
  BY <1>1, <1>4
<1>9. BlocksOK(p, c, Y)
  BY <1>2, <1>5, <1>6, <1>7, <1>8 DEF BlocksOK
<1> QED BY <1>1, <1>9

LEMMA BlocksPush ==
  ASSUME NEW o \in Seq(Frame), NEW f \in Frame, NEW c, NEW X, BlocksOK(o, c, X),
         Pend(f) \subseteq X, Apart(f), \A b \in Pend(f) : ~Ends(c[b].is),
         o # <<>> /\ o[Len(o)].kind = "dispatch" => f.kind = "catch"
  PROVE  BlocksOK(Append(o, f), c, X \ Pend(f))
<1>1. PICK p, n, Y, P : p = Append(o, f) /\ n = Len(o) /\ Y = X \ Pend(f) /\ P = Pend(f)
  OBVIOUS
<1>2. n \in Nat /\ Len(p) = n + 1 /\ p[n + 1] = f /\ \A k \in 1..n : p[k] = o[k]
  BY <1>1, StackPush
<1>3. \A k \in 1..(n + 1) : k \in 1..n \/ k = n + 1
  BY <1>2
<1>4. ASSUME NEW k \in 1..n
      PROVE  /\ Pend(p[k]) \subseteq 1..Len(c) /\ Pend(p[k]) \cap X = {} /\ Apart(p[k])
             /\ \A b \in Pend(p[k]) : ~Ends(c[b].is)
             /\ \A j \in 1..n : j # k => Pend(p[j]) \cap Pend(p[k]) = {}
             /\ Pend(p[k]) \cap P = {}
  BY <1>1, <1>2 DEF BlocksOK
<1>5. P \subseteq X /\ P \subseteq 1..Len(c) /\ P \cap Y = {} /\ Pend(p[n + 1]) = P /\ Apart(p[n + 1])
      /\ Y \subseteq X /\ Y \subseteq 1..Len(c) /\ \A b \in P : ~Ends(c[b].is)
  BY <1>1, <1>2 DEF BlocksOK
<1>6. ASSUME NEW k \in 1..(n + 1)
      PROVE  /\ Pend(p[k]) \subseteq 1..Len(c) /\ Pend(p[k]) \cap Y = {} /\ Apart(p[k])
             /\ \A b \in Pend(p[k]) : ~Ends(c[b].is)
  BY <1>3, <1>4, <1>5
<1>7. ASSUME NEW k \in 1..(n + 1), NEW j \in 1..(n + 1), j # k
      PROVE  Pend(p[j]) \cap Pend(p[k]) = {}
  BY <1>3, <1>4, <1>5, <1>7
<1>8. ASSUME NEW k \in 1..(n + 1), p[k].kind = "dispatch", k < n + 1
      PROVE  p[k + 1].kind = "catch"
  <2>1. k \in 1..n /\ o[k].kind = "dispatch"
    BY <1>2, <1>8
  <2>2. CASE k = n
    <3>1. o # <<>>
      BY <1>1, <2>1
    <3> QED BY <1>1, <1>2, <2>1, <2>2, <3>1
  <2>3. CASE k # n
    <3>1. k + 1 \in 1..n /\ k < n
      BY <1>2, <2>1, <2>3
    <3>2. o[k + 1].kind = "catch"
      BY <1>1, <2>1, <3>1 DEF BlocksOK
    <3> QED BY <1>2, <3>1, <3>2
  <2> QED BY <2>2, <2>3
<1>9. ASSUME NEW b \in 1..Len(c)
      PROVE  Ends(c[b].is) \/ b \in Y \/ \E k \in 1..(n + 1) : b \in Pend(p[k])
  <2>1. Ends(c[b].is) \/ b \in X \/ \E k \in 1..n : b \in Pend(o[k])
    BY <1>1 DEF BlocksOK
  <2>2. CASE b \in P
    <3>1. n + 1 \in 1..(n + 1)
      BY <1>2
    <3> QED BY <1>5, <2>2, <3>1
  <2>3. ASSUME NEW k \in 1..n, b \in Pend(o[k]) PROVE \E j \in 1..(n + 1) : b \in Pend(p[j])
    <3>1. k \in 1..(n + 1)
      BY <1>2
    <3> QED BY <1>2, <2>3, <3>1
  <2> QED BY <1>1, <2>1, <2>2, <2>3
<1>10. BlocksOK(p, c, Y)
  BY <1>2, <1>5, <1>6, <1>7, <1>8, <1>9 DEF BlocksOK
<1> QED BY <1>1, <1>10

-----------------------------------------------------------------------------
(* The functions the bodies belong to. *)

Nested == {"function", "lambda"}

(* The blocks a handler branches to or goes on with, in its own function.  *)
Mine(f) ==
  CASE f.kind \in {"then", "elsehead", "else"} -> {f.next, f.alt} \ {0}
    [] f.kind \in {"loop", "try", "dispatch", "catch"} -> {f.next, f.alt}
    [] f.kind = "case" -> {f.next} \cup f.alt..f.fin
    [] OTHER -> {}

In(c, b, fn) == b \in 1..Len(c) /\ c[b].fn = fn

(* F has for each frame of o the function its body belongs to: the same    *)
(* one as below but where a lambda begins.  A body's blocks are in its     *)
(* function; where break and continue go is too, in a loop or a switch of  *)
(* the same function.                                                      *)
FnsOK(o, F, c) ==
  /\ F \in Seq(Nat) /\ Len(F) = Len(o)
  /\ \A k \in 1..Len(o) : \A l \in k..Len(o) :
       (\A j \in (k + 1)..l : o[j].kind \notin Nested) => F[l] = F[k]
  /\ \A k \in 1..Len(o) :
       /\ \A b \in Mine(o[k]) : In(c, b, F[k])
       /\ o[k].kind = "lambda" => k > 1 /\ In(c, o[k].next, F[k - 1])
       /\ \A j \in 1..k :
            (\A i \in (j + 1)..k : o[i].kind \notin Nested) =>
              /\ o[j].kind \in {"loop", "case"} => In(c, BreakIn(o[k]), F[k])
              /\ o[j].kind = "loop" => In(c, ContinueIn(o[k]), F[k])

LEMMA InGrows ==
  ASSUME NEW c, NEW d, NEW b, NEW is, NEW new, Grown(c, d, b, is, new),
         NEW a, NEW fn, In(c, a, fn)
  PROVE  In(d, a, fn)
  BY GrownFacts DEF In

LEMMA FnsGrow ==
  ASSUME NEW c, NEW d, NEW b, NEW is, NEW new, Grown(c, d, b, is, new),
         NEW o, NEW F, FnsOK(o, F, c)
  PROVE  FnsOK(o, F, d)
<1>1. \A a, fn : In(c, a, fn) => In(d, a, fn)
  BY InGrows
<1> QED BY <1>1, Zenon DEF FnsOK

LEMMA FnsSame ==
  ASSUME NEW o, NEW p, SameFrames(o, p), NEW F, NEW c, FnsOK(o, F, c)
  PROVE  FnsOK(p, F, c)
<1>1. Len(p) = Len(o) /\ Len(o) \in Nat
  BY DEF SameFrames
<1>2. \A k \in 1..Len(o) : /\ p[k].kind = o[k].kind /\ p[k].next = o[k].next
                           /\ Mine(p[k]) = Mine(o[k])
                           /\ BreakIn(p[k]) = BreakIn(o[k]) /\ ContinueIn(p[k]) = ContinueIn(o[k])
  BY DEF SameFrames, Alike, Mine, BreakIn, ContinueIn
<1>3. ASSUME NEW k \in 1..Len(o), NEW l \in k..Len(o),
             \A j \in (k + 1)..l : p[j].kind \notin Nested
      PROVE  F[l] = F[k]
  <2>1. \A j \in (k + 1)..l : j \in 1..Len(o)
    BY <1>1
  <2>2. \A j \in (k + 1)..l : o[j].kind \notin Nested
    BY <1>2, <1>3, <2>1
  <2> QED BY <2>2 DEF FnsOK
<1>4. ASSUME NEW k \in 1..Len(o)
      PROVE  /\ \A b \in Mine(p[k]) : In(c, b, F[k])
             /\ p[k].kind = "lambda" => k > 1 /\ In(c, p[k].next, F[k - 1])
  BY <1>2 DEF FnsOK
<1>5. ASSUME NEW k \in 1..Len(o), NEW j \in 1..k,
             \A i \in (j + 1)..k : p[i].kind \notin Nested
      PROVE  /\ p[j].kind \in {"loop", "case"} => In(c, BreakIn(p[k]), F[k])
             /\ p[j].kind = "loop" => In(c, ContinueIn(p[k]), F[k])
  <2>1. j \in 1..Len(o) /\ \A i \in (j + 1)..k : i \in 1..Len(o)
    BY <1>1
  <2>2. \A i \in (j + 1)..k : o[i].kind \notin Nested
    BY <1>2, <1>5, <2>1
  <2>3. /\ o[j].kind \in {"loop", "case"} => In(c, BreakIn(o[k]), F[k])
        /\ o[j].kind = "loop" => In(c, ContinueIn(o[k]), F[k])
    BY <2>2 DEF FnsOK
  <2> QED BY <1>2, <2>1, <2>3
<1> QED BY <1>1, <1>3, <1>4, <1>5 DEF FnsOK

LEMMA FnsPop ==
  ASSUME NEW o \in Seq(Frame), o # <<>>, NEW F, NEW c, FnsOK(o, F, c)
  PROVE  FnsOK(Front(o), Front(F), c)
<1>1. PICK p, G, n : p = Front(o) /\ G = Front(F) /\ n = Len(o)
  OBVIOUS
<1>2. n \in Nat /\ n >= 1 /\ Len(p) = n - 1 /\ \A k \in 1..(n - 1) : p[k] = o[k]
  BY <1>1, StackPop
<1>3. F \in Seq(Nat) /\ F # <<>> /\ Len(F) = n
  BY <1>1, <1>2 DEF FnsOK
<1>4. G \in Seq(Nat) /\ Len(G) = n - 1 /\ \A k \in 1..(n - 1) : G[k] = F[k]
  BY <1>1, <1>3, StackPop
<1>5. ASSUME NEW k \in 1..(n - 1), NEW l \in k..(n - 1),
             \A j \in (k + 1)..l : p[j].kind \notin Nested
      PROVE  G[l] = G[k]
  <2>1. k \in 1..n /\ l \in k..n /\ l \in 1..(n - 1) /\ \A j \in (k + 1)..l : j \in 1..(n - 1)
    BY <1>2
  <2>2. \A j \in (k + 1)..l : o[j].kind \notin Nested
    BY <1>2, <1>5, <2>1
  <2>3. F[l] = F[k]
    BY <1>1, <2>1, <2>2 DEF FnsOK
  <2> QED BY <1>4, <2>1, <2>3
<1>6. ASSUME NEW k \in 1..(n - 1)
      PROVE  /\ \A b \in Mine(p[k]) : In(c, b, G[k])
             /\ p[k].kind = "lambda" => k > 1 /\ In(c, p[k].next, G[k - 1])
  <2>1. k \in 1..n
    BY <1>2
  <2>2. /\ \A b \in Mine(o[k]) : In(c, b, F[k])
        /\ o[k].kind = "lambda" => k > 1 /\ In(c, o[k].next, F[k - 1])
    BY <1>1, <2>1 DEF FnsOK
  <2>3. k > 1 => k - 1 \in 1..(n - 1)
    BY <1>2
  <2> QED BY <1>2, <1>4, <2>2, <2>3
<1>7. ASSUME NEW k \in 1..(n - 1), NEW j \in 1..k,
             \A i \in (j + 1)..k : p[i].kind \notin Nested
      PROVE  /\ p[j].kind \in {"loop", "case"} => In(c, BreakIn(p[k]), G[k])
             /\ p[j].kind = "loop" => In(c, ContinueIn(p[k]), G[k])
  <2>1. k \in 1..n /\ j \in 1..(n - 1) /\ \A i \in (j + 1)..k : i \in 1..(n - 1)
    BY <1>2
  <2>2. \A i \in (j + 1)..k : o[i].kind \notin Nested
    BY <1>2, <1>7, <2>1
  <2>3. /\ o[j].kind \in {"loop", "case"} => In(c, BreakIn(o[k]), F[k])
        /\ o[j].kind = "loop" => In(c, ContinueIn(o[k]), F[k])
    BY <1>1, <2>1, <2>2 DEF FnsOK
  <2> QED BY <1>2, <1>4, <2>1, <2>3
<1>8. FnsOK(p, G, c)
  BY <1>2, <1>4, <1>5, <1>6, <1>7 DEF FnsOK
<1> QED BY <1>1, <1>8

(* A body inside the one on top, in the same function or, for a lambda, in *)
(* one of its own.                                                         *)
FitsFns(f, top, x, y, c) ==
  /\ y \in Nat /\ f.kind # "function"
  /\ \A b \in Mine(f) : In(c, b, y)
  /\ f.kind = "lambda" => In(c, f.next, x)
  /\ f.kind # "lambda" => /\ y = x
                          /\ f.kind \in {"loop", "case"} => In(c, BreakIn(f), y)
                          /\ f.kind = "loop" => In(c, ContinueIn(f), y)
                          /\ f.kind \notin {"loop", "case"} => BreakIn(f) = BreakIn(top)
                          /\ f.kind # "loop" => ContinueIn(f) = ContinueIn(top)

LEMMA FnsPush ==
  ASSUME NEW o \in Seq(Frame), o # <<>>, NEW F, NEW c, FnsOK(o, F, c),
         NEW f \in Frame, NEW y, FitsFns(f, o[Len(o)], F[Len(o)], y, c)
  PROVE  FnsOK(Append(o, f), Append(F, y), c)
<1>1. PICK p, G, n : p = Append(o, f) /\ G = Append(F, y) /\ n = Len(o)
  OBVIOUS
<1>2. n \in Nat /\ n >= 1 /\ Len(p) = n + 1 /\ p[n + 1] = f /\ \A k \in 1..n : p[k] = o[k]
  BY <1>1, StackPush
<1>3. F \in Seq(Nat) /\ Len(F) = n /\ y \in Nat
  BY <1>1, <1>2 DEF FnsOK, FitsFns
<1>4. G \in Seq(Nat) /\ Len(G) = n + 1 /\ G[n + 1] = y /\ \A k \in 1..n : G[k] = F[k]
  BY <1>1, <1>3, StackPush
<1>5. ASSUME NEW k \in 1..n, NEW l \in k..n,
             \A j \in (k + 1)..l : p[j].kind \notin Nested
      PROVE  G[l] = G[k]
  <2>1. l \in 1..n /\ \A j \in (k + 1)..l : j \in 1..n
    BY <1>2
  <2>2. \A j \in (k + 1)..l : o[j].kind \notin Nested
    BY <1>2, <1>5, <2>1
  <2>3. F[l] = F[k]
    BY <1>1, <2>1, <2>2 DEF FnsOK
  <2> QED BY <1>4, <2>1, <2>3
<1>6. ASSUME NEW k \in 1..n, \A j \in (k + 1)..(n + 1) : p[j].kind \notin Nested
      PROVE  G[n + 1] = G[k]
  <2>1. n + 1 \in (k + 1)..(n + 1) /\ n \in k..n /\ \A j \in (k + 1)..n : j \in (k + 1)..(n + 1)
    BY <1>2
  <2>2. f.kind \notin Nested
    BY <1>2, <1>6, <2>1
  <2>3. G[n] = G[k]
    BY <1>5, <1>6, <2>1
  <2>4. y = F[n] /\ n \in 1..n
    BY <1>1, <1>2, <2>2 DEF FitsFns, Nested
  <2> QED BY <1>4, <2>3, <2>4
<1>7. ASSUME NEW k \in 1..(n + 1), NEW l \in k..(n + 1),
             \A j \in (k + 1)..l : p[j].kind \notin Nested
      PROVE  G[l] = G[k]
  <2>1. CASE l = n + 1 /\ k = n + 1
    BY <2>1
  <2>2. CASE l = n + 1 /\ k \in 1..n
    BY <1>6, <1>7, <2>2
  <2>3. CASE l \in k..n /\ k \in 1..n
    BY <1>5, <1>7, <2>3
  <2>4. (l = n + 1 /\ k = n + 1) \/ (l = n + 1 /\ k \in 1..n) \/ (l \in k..n /\ k \in 1..n)
    BY <1>2
  <2> QED BY <2>1, <2>2, <2>3, <2>4
<1>8. ASSUME NEW k \in 1..(n + 1)
      PROVE  /\ \A b \in Mine(p[k]) : In(c, b, G[k])
             /\ p[k].kind = "lambda" => k > 1 /\ In(c, p[k].next, G[k - 1])
  <2>1. CASE k \in 1..n
    <3>1. /\ \A b \in Mine(o[k]) : In(c, b, F[k])
          /\ o[k].kind = "lambda" => k > 1 /\ In(c, o[k].next, F[k - 1])
      BY <1>1, <2>1 DEF FnsOK
    <3>2. k > 1 => k - 1 \in 1..n
      BY <1>2, <2>1
    <3> QED BY <1>2, <1>4, <2>1, <3>1, <3>2
  <2>2. CASE k = n + 1
    <3>1. k - 1 = n /\ k > 1 /\ n \in 1..n
      BY <1>2, <2>2
    <3>2. p[k] = f /\ G[k] = y /\ G[k - 1] = F[n]
      BY <1>2, <1>4, <2>2, <3>1
    <3>3. (\A b \in Mine(f) : In(c, b, y)) /\ (f.kind = "lambda" => In(c, f.next, F[n]))
      BY <1>1 DEF FitsFns
    <3> QED BY <3>1, <3>2, <3>3
  <2>3. k \in 1..n \/ k = n + 1
    BY <1>2
  <2> QED BY <2>1, <2>2, <2>3
<1>9. ASSUME NEW k \in 1..n, NEW j \in 1..k,
             \A i \in (j + 1)..k : p[i].kind \notin Nested
      PROVE  /\ p[j].kind \in {"loop", "case"} => In(c, BreakIn(p[k]), G[k])
             /\ p[j].kind = "loop" => In(c, ContinueIn(p[k]), G[k])
  <2>1. j \in 1..n /\ \A i \in (j + 1)..k : i \in 1..n
    BY <1>2
  <2>2. \A i \in (j + 1)..k : o[i].kind \notin Nested
    BY <1>2, <1>9, <2>1
  <2>3. /\ o[j].kind \in {"loop", "case"} => In(c, BreakIn(o[k]), F[k])
        /\ o[j].kind = "loop" => In(c, ContinueIn(o[k]), F[k])
    BY <1>1, <2>2 DEF FnsOK
  <2> QED BY <1>2, <1>4, <2>1, <2>3
<1>10. ASSUME NEW j \in 1..(n + 1), \A i \in (j + 1)..(n + 1) : p[i].kind \notin Nested
       PROVE  /\ p[j].kind \in {"loop", "case"} => In(c, BreakIn(f), y)
              /\ p[j].kind = "loop" => In(c, ContinueIn(f), y)
  <2>1. CASE j = n + 1
    <3>1. p[j] = f /\ ("loop" # "lambda" /\ "case" # "lambda")
      BY <1>2, <2>1
    <3> QED BY <3>1 DEF FitsFns
  <2>2. CASE j \in 1..n
    <3>1. n + 1 \in (j + 1)..(n + 1) /\ n \in 1..n /\ \A i \in (j + 1)..n : i \in (j + 1)..(n + 1)
      BY <1>2, <2>2
    <3>2. f.kind \notin Nested
      BY <1>2, <1>10, <3>1
    <3>3. /\ p[j].kind \in {"loop", "case"} => In(c, BreakIn(p[n]), G[n])
          /\ p[j].kind = "loop" => In(c, ContinueIn(p[n]), G[n])
      BY <1>9, <1>10, <2>2, <3>1
    <3>4. p[n] = o[n] /\ G[n] = F[n] /\ y = F[n]
      BY <1>1, <1>2, <1>4, <3>1, <3>2 DEF FitsFns, Nested
    <3>5. f.kind # "lambda"
      BY <3>2 DEF Nested
    <3>6. /\ f.kind \in {"loop", "case"} => In(c, BreakIn(f), y)
          /\ f.kind = "loop" => In(c, ContinueIn(f), y)
          /\ f.kind \notin {"loop", "case"} => BreakIn(f) = BreakIn(o[n])
          /\ f.kind # "loop" => ContinueIn(f) = ContinueIn(o[n])
      BY <1>1, <3>5 DEF FitsFns
    <3> QED BY <3>3, <3>4, <3>6
  <2>3. j \in 1..n \/ j = n + 1
    BY <1>2
  <2> QED BY <2>1, <2>2, <2>3
<1>11. ASSUME NEW k \in 1..(n + 1), NEW j \in 1..k,
              \A i \in (j + 1)..k : p[i].kind \notin Nested
       PROVE  /\ p[j].kind \in {"loop", "case"} => In(c, BreakIn(p[k]), G[k])
              /\ p[j].kind = "loop" => In(c, ContinueIn(p[k]), G[k])
  <2>1. k \in 1..n \/ (k = n + 1 /\ j \in 1..(n + 1))
    BY <1>2
  <2>2. CASE k \in 1..n
    BY <1>9, <1>11, <2>2
  <2>3. CASE k = n + 1 /\ j \in 1..(n + 1)
    BY <1>2, <1>4, <1>10, <1>11, <2>3
  <2> QED BY <2>1, <2>2, <2>3
<1>12. FnsOK(p, G, c)
  BY <1>2, <1>4, <1>7, <1>8, <1>11 DEF FnsOK
<1> QED BY <1>1, <1>12

-----------------------------------------------------------------------------
(* The objects the bodies have registered. *)

(* D has for each frame of o the number of scopes pushed up to it.  The    *)
(* scope of a frame begins where the frame says that its body does; n      *)
(* objects are registered.                                                 *)
MarksOK(o, D, sc, n) ==
  /\ D \in Seq(Nat) /\ Len(D) = Len(o) /\ sc \in Seq(Mark) /\ n \in Nat
  /\ \A k \in 1..Len(o) :
       /\ o[k].objs <= n
       /\ o[k].scoped => D[k] \in 1..Len(sc) /\ sc[D[k]].objs = o[k].objs
       /\ \A l \in (k + 1)..Len(o) :
            /\ o[k].objs <= o[l].objs /\ D[k] <= D[l]
            /\ o[l].scoped => D[k] < D[l]
  /\ \A k \in 1..(Len(o) - 1) : D[k + 1] = IF o[k + 1].scoped THEN D[k] + 1 ELSE D[k]
  /\ o # <<>> => D[Len(o)] = Len(sc)

LEMMA MarksSame ==
  ASSUME NEW o, NEW p, SameFrames(o, p), NEW D, NEW sc, NEW n, MarksOK(o, D, sc, n)
  PROVE  MarksOK(p, D, sc, n)
<1>1. Len(p) = Len(o) /\ Len(o) \in Nat /\ (p = <<>> <=> o = <<>>)
  BY DEF SameFrames
<1>2. \A k \in 1..Len(o) : p[k].objs = o[k].objs /\ p[k].scoped = o[k].scoped
  BY DEF SameFrames, Alike
<1>3. ASSUME NEW k \in 1..Len(o)
      PROVE  /\ p[k].objs <= n
             /\ p[k].scoped => D[k] \in 1..Len(sc) /\ sc[D[k]].objs = p[k].objs
  BY <1>2 DEF MarksOK
<1>4. ASSUME NEW k \in 1..Len(o), NEW l \in (k + 1)..Len(o)
      PROVE  /\ p[k].objs <= p[l].objs /\ D[k] <= D[l]
             /\ p[l].scoped => D[k] < D[l]
  <2>1. l \in 1..Len(o)
    BY <1>1
  <2> QED BY <1>2, <2>1 DEF MarksOK
<1>5. ASSUME NEW k \in 1..(Len(o) - 1)
      PROVE  D[k + 1] = IF p[k + 1].scoped THEN D[k] + 1 ELSE D[k]
  <2>1. k + 1 \in 1..Len(o)
    BY <1>1
  <2> QED BY <1>2, <2>1 DEF MarksOK
<1> QED BY <1>1, <1>3, <1>4, <1>5 DEF MarksOK

LEMMA MarksMore ==
  ASSUME NEW o \in Seq(Frame), NEW D, NEW sc, NEW n, MarksOK(o, D, sc, n),
         NEW m \in Nat, n <= m
  PROVE  MarksOK(o, D, sc, m)
<1>1. ASSUME NEW k \in 1..Len(o) PROVE o[k].objs <= m
  <2>1. o[k] \in Frame
    OBVIOUS
  <2>2. o[k].objs \in Nat
    BY <2>1 DEF Frame
  <2>3. o[k].objs <= n /\ n \in Nat
    BY DEF MarksOK
  <2> QED BY <2>2, <2>3
<1> QED BY <1>1 DEF MarksOK

(* The top frame's scope is the last one. *)
LEMMA MarksTop ==
  ASSUME NEW o \in Seq(Frame), o # <<>>, NEW D, NEW sc, NEW n, MarksOK(o, D, sc, n),
         NEW f, f = o[Len(o)]
  PROVE  /\ f.objs \in 0..n
         /\ f.scoped => sc # <<>> /\ Len(sc) \in Nat /\ Len(sc) >= 1 /\ sc[Len(sc)].objs = f.objs
         /\ \A k \in 1..Len(o) : o[k].objs <= f.objs
<1>1. Len(o) \in 1..Len(o) /\ f \in Frame
  OBVIOUS
<1>2. f.objs \in Nat
  BY <1>1 DEF Frame
<1>3. \A k \in 1..Len(o) : k = Len(o) \/ Len(o) \in (k + 1)..Len(o)
  OBVIOUS
<1> QED BY <1>1, <1>2, <1>3 DEF MarksOK

LEMMA MarksPop ==
  ASSUME NEW o \in Seq(Frame), o # <<>>, NEW D, NEW sc, NEW n, MarksOK(o, D, sc, n),
         NEW f, f = o[Len(o)]
  PROVE  /\ f.scoped => MarksOK(Front(o), Front(D), Front(sc), f.objs)
         /\ ~f.scoped => MarksOK(Front(o), Front(D), sc, n)
<1>1. PICK p, E, t, m, h : /\ p = Front(o) /\ E = Front(D) /\ m = Len(o)
                           /\ t = IF f.scoped THEN Front(sc) ELSE sc
                           /\ h = IF f.scoped THEN f.objs ELSE n
  OBVIOUS
<1>2. m \in Nat /\ m >= 1 /\ Len(p) = m - 1 /\ \A k \in 1..(m - 1) : p[k] = o[k]
  BY <1>1, StackPop
<1>3. D \in Seq(Nat) /\ D # <<>> /\ Len(D) = m /\ sc \in Seq(Mark) /\ Len(sc) \in Nat /\ n \in Nat
  BY <1>1, <1>2 DEF MarksOK
<1>4. E \in Seq(Nat) /\ Len(E) = m - 1 /\ \A k \in 1..(m - 1) : E[k] = D[k]
  BY <1>1, <1>3, StackPop
<1>5. /\ f.objs \in 0..n /\ (f.scoped => sc # <<>>) /\ \A k \in 1..m : o[k].objs <= f.objs
  BY <1>1, MarksTop
<1>6. /\ t \in Seq(Mark) /\ h \in Nat /\ D[m] = Len(sc)
      /\ Len(t) = IF f.scoped THEN Len(sc) - 1 ELSE Len(sc)
      /\ \A j \in 1..Len(t) : t[j] = sc[j]
  <2>1. D[m] = Len(sc)
    BY <1>1 DEF MarksOK
  <2>2. CASE f.scoped
    <3>1. t = Front(sc) /\ h = f.objs /\ sc # <<>>
      BY <1>1, <1>5, <2>2
    <3>2. /\ t \in Seq(Mark) /\ Len(t) = Len(sc) - 1
          /\ \A j \in 1..(Len(sc) - 1) : t[j] = sc[j]
      BY <1>3, <3>1, StackPop
    <3> QED BY <1>3, <1>5, <2>1, <2>2, <3>1, <3>2
  <2>3. CASE ~f.scoped
    BY <1>1, <1>3, <2>1, <2>3
  <2> QED BY <2>2, <2>3
<1>7. ASSUME NEW k \in 1..(m - 1)
      PROVE  /\ p[k].objs <= h
             /\ p[k].scoped => E[k] \in 1..Len(t) /\ t[E[k]].objs = p[k].objs
  <2>1. k \in 1..m /\ m \in (k + 1)..m
    BY <1>2
  <2>2. o[k].objs <= n /\ o[k].objs <= f.objs
    BY <1>1, <1>5, <2>1 DEF MarksOK
  <2>3. f.scoped => D[k] < D[m]
    BY <1>1, <2>1 DEF MarksOK
  <2>4. o[k].scoped => D[k] \in 1..Len(sc) /\ sc[D[k]].objs = o[k].objs
    BY <1>1, <2>1 DEF MarksOK
  <2>5. o[k].scoped => D[k] \in 1..Len(t)
    BY <1>3, <1>6, <2>3, <2>4, SMTT(30)
  <2> QED BY <1>1, <1>2, <1>4, <1>6, <2>2, <2>4, <2>5, SMTT(30)
<1>8. ASSUME NEW k \in 1..(m - 1), NEW l \in (k + 1)..(m - 1)
      PROVE  /\ p[k].objs <= p[l].objs /\ E[k] <= E[l]
             /\ p[l].scoped => E[k] < E[l]
  <2>1. k \in 1..m /\ l \in (k + 1)..m /\ l \in 1..(m - 1)
    BY <1>2
  <2> QED BY <1>1, <1>2, <1>4, <2>1 DEF MarksOK
<1>9. ASSUME NEW k \in 1..(m - 2)
      PROVE  E[k + 1] = IF p[k + 1].scoped THEN E[k] + 1 ELSE E[k]
  <2>1. k \in 1..(m - 1) /\ k + 1 \in 1..(m - 1)
    BY <1>2
  <2> QED BY <1>1, <1>2, <1>4, <2>1 DEF MarksOK
<1>10. ASSUME p # <<>> PROVE E[m - 1] = Len(t)
  <2>1. Len(p) # 0 /\ m - 1 \in 1..(m - 1)
    <3>1. p \in Seq(Frame)
      BY <1>1, StackPop
    <3> QED BY <1>2, <1>10, <3>1
  <2>2. (m - 1) + 1 = m
    BY <1>2
  <2>3. D[m] = IF f.scoped THEN D[m - 1] + 1 ELSE D[m - 1]
    BY <1>1, <2>1, <2>2 DEF MarksOK
  <2>4. D[m - 1] \in Nat
    BY <1>3, <2>1
  <2> QED BY <1>3, <1>4, <1>6, <2>1, <2>3, <2>4
<1>11. (m - 1) - 1 = m - 2
  BY <1>2
<1>12. MarksOK(p, E, t, h)
  BY <1>2, <1>4, <1>6, <1>7, <1>8, <1>9, <1>10, <1>11 DEF MarksOK
<1> QED BY <1>1, <1>12

(* A frame on top: with a scope of its own it begins with what is          *)
(* registered by now; without one it may have begun before.                *)
LEMMA MarksPush ==
  ASSUME NEW o \in Seq(Frame), o # <<>>, NEW D, NEW sc, NEW n, MarksOK(o, D, sc, n),
         NEW f \in Frame, o[Len(o)].objs <= f.objs, f.objs <= n,
         NEW t \in Seq(Mark),
         IF f.scoped THEN \E x \in Mark : x.objs = f.objs /\ t = Append(sc, x) ELSE t = sc
  PROVE  MarksOK(Append(o, f), Append(D, Len(t)), t, n)
<1>1. PICK p, E, m, e : p = Append(o, f) /\ E = Append(D, Len(t)) /\ m = Len(o) /\ e = o[Len(o)]
  OBVIOUS
<1>2. m \in Nat /\ m >= 1 /\ Len(p) = m + 1 /\ p[m + 1] = f /\ p # <<>>
      /\ \A k \in 1..m : p[k] = o[k]
  BY <1>1, StackPush
<1>3. D \in Seq(Nat) /\ Len(D) = m /\ sc \in Seq(Mark) /\ Len(sc) \in Nat /\ n \in Nat
      /\ Len(t) \in Nat /\ D[m] = Len(sc)
  BY <1>1, <1>2 DEF MarksOK
<1>4. E \in Seq(Nat) /\ Len(E) = m + 1 /\ E[m + 1] = Len(t) /\ \A k \in 1..m : E[k] = D[k]
  BY <1>1, <1>3, StackPush
<1>5. /\ Len(t) = IF f.scoped THEN Len(sc) + 1 ELSE Len(sc)
      /\ \A j \in 1..Len(sc) : t[j] = sc[j]
      /\ f.scoped => t[Len(t)].objs = f.objs
  <2>1. CASE f.scoped
    <3>1. PICK x \in Mark : x.objs = f.objs /\ t = Append(sc, x)
      BY <2>1
    <3> QED BY <1>3, <2>1, <3>1, StackPush
  <2>2. CASE ~f.scoped
    BY <2>2
  <2> QED BY <2>1, <2>2
<1>6. f.objs \in Nat /\ e.objs \in Nat /\ \A k \in 1..m : o[k].objs \in Nat /\ o[k].objs <= e.objs
  <2>1. \A k \in 1..m : o[k] \in Frame
    BY <1>1
  <2>2. \A k \in 1..m : o[k].objs \in Nat
    BY <2>1 DEF Frame
  <2>3. m \in 1..m
    BY <1>2
  <2>4. \A k \in 1..m : o[k].objs <= e.objs
    BY <1>1, MarksTop
  <2>5. f.objs \in Nat
    BY DEF Frame
  <2> QED BY <1>1, <2>2, <2>3, <2>4, <2>5
<1>7. ASSUME NEW k \in 1..m
      PROVE  /\ p[k].objs <= n
             /\ p[k].scoped => E[k] \in 1..Len(t) /\ t[E[k]].objs = p[k].objs
             /\ p[k].objs <= f.objs
             /\ D[k] \in Nat /\ D[k] <= Len(sc)
  <2>1. /\ o[k].objs <= n
        /\ o[k].scoped => D[k] \in 1..Len(sc) /\ sc[D[k]].objs = o[k].objs
    BY <1>1 DEF MarksOK
  <2>2. 1..Len(sc) \subseteq 1..Len(t)
    BY <1>3, <1>5
  <2>3. o[k].objs <= f.objs
    BY <1>1, <1>6
  <2>4. k = m \/ m \in (k + 1)..m
    BY <1>2
  <2>5. D[k] \in Nat /\ D[k] <= D[m]
    BY <1>1, <1>3, <2>4, SMTT(30) DEF MarksOK
  <2> QED BY <1>2, <1>3, <1>4, <1>5, <2>1, <2>2, <2>3, <2>5
<1>8. /\ p[m + 1].objs <= n
      /\ p[m + 1].scoped => E[m + 1] \in 1..Len(t) /\ t[E[m + 1]].objs = p[m + 1].objs
  BY <1>2, <1>3, <1>4, <1>5
<1>9. ASSUME NEW k \in 1..(m + 1), NEW l \in (k + 1)..(m + 1)
      PROVE  /\ p[k].objs <= p[l].objs /\ E[k] <= E[l]
             /\ p[l].scoped => E[k] < E[l]
  <2>1. k \in 1..m /\ (l \in (k + 1)..m \/ l = m + 1)
    BY <1>2
  <2>2. CASE l \in (k + 1)..m
    <3>1. l \in 1..m
      BY <1>2, <2>1, <2>2
    <3> QED BY <1>1, <1>2, <1>4, <2>1, <2>2, <3>1 DEF MarksOK
  <2>3. CASE l = m + 1
    <3>1. p[k].objs <= f.objs /\ D[k] \in Nat /\ D[k] <= Len(sc)
      BY <1>7, <2>1
    <3>2. D[k] <= Len(t) /\ (f.scoped => D[k] < Len(t))
      BY <1>3, <1>5, <3>1
    <3> QED BY <1>2, <1>4, <2>1, <2>3, <3>1, <3>2
  <2> QED BY <2>1, <2>2, <2>3
<1>10. ASSUME NEW k \in 1..m
       PROVE  E[k + 1] = IF p[k + 1].scoped THEN E[k] + 1 ELSE E[k]
  <2>1. CASE k = m
    BY <1>2, <1>3, <1>4, <1>5, <2>1
  <2>2. CASE k # m
    <3>1. k \in 1..(m - 1) /\ k + 1 \in 1..m
      BY <1>2, <2>2
    <3> QED BY <1>1, <1>2, <1>4, <3>1 DEF MarksOK
  <2> QED BY <2>1, <2>2
<1>11. ASSUME NEW k \in 1..(m + 1)
       PROVE  /\ p[k].objs <= n
              /\ p[k].scoped => E[k] \in 1..Len(t) /\ t[E[k]].objs = p[k].objs
  <2>1. k \in 1..m \/ k = m + 1
    BY <1>2
  <2> QED BY <1>7, <1>8, <2>1
<1>12. (m + 1) - 1 = m
  BY <1>2
<1>13. MarksOK(p, E, t, n)
  BY <1>2, <1>3, <1>4, <1>9, <1>10, <1>11, <1>12 DEF MarksOK
<1> QED BY <1>1, <1>13

-----------------------------------------------------------------------------
(* Whose objects are registered. *)

(* An object that is registered later than body k began, and before any    *)
(* lambda in it did, is declared in the body's function.                   *)
EntriesOK(o, F, cl, c) ==
  \A k \in 1..Len(o) : \A i \in (o[k].objs + 1)..Len(cl) :
    (\A l \in (k + 1)..Len(o) : o[l].kind = "lambda" => i <= o[l].objs) =>
      DeclaredIn(c, cl[i].obj, F[k])

LEMMA EntriesSame ==
  ASSUME NEW o, NEW p, SameFrames(o, p), NEW F, NEW cl, NEW c, EntriesOK(o, F, cl, c)
  PROVE  EntriesOK(p, F, cl, c)
<1>1. Len(p) = Len(o) /\ Len(o) \in Nat
      /\ \A k \in 1..Len(o) : p[k].kind = o[k].kind /\ p[k].objs = o[k].objs
  BY DEF SameFrames, Alike
<1>2. ASSUME NEW k \in 1..Len(o), NEW i \in (o[k].objs + 1)..Len(cl),
             \A l \in (k + 1)..Len(o) : p[l].kind = "lambda" => i <= p[l].objs
      PROVE  DeclaredIn(c, cl[i].obj, F[k])
  <2>1. \A l \in (k + 1)..Len(o) : l \in 1..Len(o)
    BY <1>1
  <2>2. \A l \in (k + 1)..Len(o) : o[l].kind = "lambda" => i <= o[l].objs
    BY <1>1, <1>2, <2>1
  <2> QED BY <2>2 DEF EntriesOK
<1> QED BY <1>1, <1>2 DEF EntriesOK

LEMMA EntriesGrow ==
  ASSUME NEW c, NEW d, NEW b, NEW is, NEW new, Grown(c, d, b, is, new),
         NEW o, NEW F, NEW cl, EntriesOK(o, F, cl, c)
  PROVE  EntriesOK(o, F, cl, d)
<1>1. \A n, fn : DeclaredIn(c, n, fn) => DeclaredIn(d, n, fn)
  BY DeclaredGrows
<1> QED BY <1>1, Zenon DEF EntriesOK

(* The list may lose its end, and entries may be marked; if the top frame  *)
(* is a lambda all that it has registered goes.                            *)
LEMMA EntriesPop ==
  ASSUME NEW o \in Seq(Frame), o # <<>>, NEW f, f = o[Len(o)],
         NEW F \in Seq(Nat), Len(F) = Len(o),
         NEW cl, NEW c, EntriesOK(o, F, cl, c), Len(cl) \in Nat,
         NEW e, Len(e) \in Nat, Len(e) <= Len(cl), \A i \in 1..Len(e) : e[i].obj = cl[i].obj,
         f.kind = "lambda" => Len(e) <= f.objs
  PROVE  EntriesOK(Front(o), Front(F), e, c)
<1>1. PICK p, G, n : p = Front(o) /\ G = Front(F) /\ n = Len(o)
  OBVIOUS
<1>2. n \in Nat /\ n >= 1 /\ Len(p) = n - 1 /\ \A k \in 1..(n - 1) : p[k] = o[k]
  BY <1>1, StackPop
<1>3. F # <<>> /\ Len(G) = n - 1 /\ \A k \in 1..(n - 1) : G[k] = F[k]
  <2>1. F # <<>>
    BY <1>1, <1>2
  <2> QED BY <1>1, <2>1, StackPop
<1>4. ASSUME NEW k \in 1..(n - 1), NEW i \in (p[k].objs + 1)..Len(e),
             \A l \in (k + 1)..(n - 1) : p[l].kind = "lambda" => i <= p[l].objs
      PROVE  DeclaredIn(c, e[i].obj, G[k])
  <2>1. p[k] = o[k] /\ G[k] = F[k] /\ k \in 1..n
    BY <1>2, <1>3
  <2>2. o[k].objs \in Nat
    <3>1. o[k] \in Frame
      BY <1>1, <2>1
    <3> QED BY <3>1 DEF Frame
  <2>3. i \in 1..Len(e) /\ i \in (o[k].objs + 1)..Len(cl)
    BY <2>1, <2>2
  <2>4. ASSUME NEW l \in (k + 1)..n, o[l].kind = "lambda" PROVE i <= o[l].objs
    <3>1. CASE l = n
      <4>1. f.objs \in Nat /\ i \in Nat
        <5>1. f \in Frame
          BY <1>1, <1>2
        <5>2. i \in Nat
          BY <2>3
        <5> QED BY <5>1, <5>2 DEF Frame
      <4> QED BY <1>1, <2>3, <2>4, <3>1, <4>1
    <3>2. CASE l # n
      <4>1. l \in (k + 1)..(n - 1) /\ l \in 1..(n - 1)
        BY <1>2, <3>2
      <4> QED BY <1>2, <1>4, <2>4, <4>1
    <3> QED BY <3>1, <3>2
  <2>5. DeclaredIn(c, cl[i].obj, F[k])
    BY <1>1, <2>1, <2>3, <2>4 DEF EntriesOK
  <2> QED BY <2>1, <2>3, <2>5
<1>5. EntriesOK(p, G, e, c)
  BY <1>2, <1>4 DEF EntriesOK
<1> QED BY <1>1, <1>5

(* Entries may be marked. *)
LEMMA EntriesMoved ==
  ASSUME NEW o, NEW F, NEW cl, NEW c, EntriesOK(o, F, cl, c),
         \A k \in 1..Len(o) : o[k].objs \in Nat,
         NEW e, Len(e) = Len(cl), \A i \in 1..Len(e) : e[i].obj = cl[i].obj
  PROVE  EntriesOK(o, F, e, c)
<1>1. ASSUME NEW k \in 1..Len(o), NEW i \in (o[k].objs + 1)..Len(e),
             \A l \in (k + 1)..Len(o) : o[l].kind = "lambda" => i <= o[l].objs
      PROVE  DeclaredIn(c, e[i].obj, F[k])
  <2>1. i \in 1..Len(e)
    OBVIOUS
  <2>2. DeclaredIn(c, cl[i].obj, F[k])
    BY <1>1 DEF EntriesOK
  <2> QED BY <2>1, <2>2
<1> QED BY <1>1 DEF EntriesOK

(* A lambda begins with nothing of its own; another body may have begun    *)
(* before, and belongs to the function of the one it is in.                *)
LEMMA EntriesPush ==
  ASSUME NEW o \in Seq(Frame), o # <<>>, NEW F \in Seq(Nat), Len(F) = Len(o),
         NEW cl, NEW c, EntriesOK(o, F, cl, c), Len(cl) \in Nat,
         NEW f \in Frame, NEW y \in Nat,
         f.kind = "lambda" => f.objs = Len(cl),
         f.kind # "lambda" => y = F[Len(o)] /\ o[Len(o)].objs <= f.objs
  PROVE  EntriesOK(Append(o, f), Append(F, y), cl, c)
<1>1. PICK p, G, n : p = Append(o, f) /\ G = Append(F, y) /\ n = Len(o)
  OBVIOUS
<1>2. n \in Nat /\ n >= 1 /\ Len(p) = n + 1 /\ p[n + 1] = f /\ \A k \in 1..n : p[k] = o[k]
  BY <1>1, StackPush
<1>3. G[n + 1] = y /\ \A k \in 1..n : G[k] = F[k]
  BY <1>1, StackPush
<1>4. ASSUME NEW k \in 1..n, NEW i \in (o[k].objs + 1)..Len(cl),
             \A l \in (k + 1)..(n + 1) : p[l].kind = "lambda" => i <= p[l].objs
      PROVE  DeclaredIn(c, cl[i].obj, F[k])
  <2>1. \A l \in (k + 1)..n : l \in (k + 1)..(n + 1) /\ l \in 1..n
    BY <1>2
  <2>2. \A l \in (k + 1)..n : o[l].kind = "lambda" => i <= o[l].objs
    BY <1>2, <1>4, <2>1
  <2> QED BY <1>1, <2>2 DEF EntriesOK
<1>5. ASSUME NEW i \in (f.objs + 1)..Len(cl)
      PROVE  DeclaredIn(c, cl[i].obj, y)
  <2>1. f.objs \in Nat
    BY DEF Frame
  <2>2. CASE f.kind = "lambda"
    BY <2>1, <2>2
  <2>3. CASE f.kind # "lambda"
    <3>1. o[n].objs \in Nat /\ n \in 1..n
      <4>1. n \in 1..n /\ o[n] \in Frame
        BY <1>1, <1>2
      <4> QED BY <4>1 DEF Frame
    <3>2. i \in (o[n].objs + 1)..Len(cl)
      BY <1>1, <2>1, <2>3, <3>1
    <3>3. (n + 1)..n = {}
      BY <1>2
    <3>4. DeclaredIn(c, cl[i].obj, F[n])
      BY <1>1, <3>1, <3>2, <3>3 DEF EntriesOK
    <3> QED BY <1>1, <2>3, <3>4
  <2> QED BY <2>2, <2>3
<1>6. ASSUME NEW k \in 1..(n + 1), NEW i \in (p[k].objs + 1)..Len(cl),
             \A l \in (k + 1)..(n + 1) : p[l].kind = "lambda" => i <= p[l].objs
      PROVE  DeclaredIn(c, cl[i].obj, G[k])
  <2>1. CASE k \in 1..n
    BY <1>2, <1>3, <1>4, <1>6, <2>1
  <2>2. CASE k = n + 1
    BY <1>2, <1>3, <1>5, <2>2
  <2>3. k \in 1..n \/ k = n + 1
    BY <1>2
  <2> QED BY <2>1, <2>2, <2>3
<1>7. EntriesOK(p, G, cl, c)
  BY <1>2, <1>6 DEF EntriesOK
<1> QED BY <1>1, <1>7

(* The function is the outermost body, and no other. *)
Rooted(o) == \A k \in 1..Len(o) : o[k].kind = "function" <=> k = 1

(* A body above which there is no lambda belongs to the current function.  *)
LEMMA SameFunction ==
  ASSUME NEW o, Len(o) \in Nat, Rooted(o), NEW F, NEW c, FnsOK(o, F, c),
         NEW k \in 1..Len(o), \A l \in (k + 1)..Len(o) : o[l].kind # "lambda"
  PROVE  F[Len(o)] = F[k]
<1>1. Len(o) \in k..Len(o) /\ \A l \in (k + 1)..Len(o) : l \in 1..Len(o) /\ l # 1
  OBVIOUS
<1>2. \A l \in (k + 1)..Len(o) : o[l].kind \notin Nested
  BY <1>1 DEF Rooted, Nested
<1> QED BY <1>1, <1>2 DEF FnsOK

(* An object is registered that the current function declares. *)
LEMMA EntriesMore ==
  ASSUME NEW o \in Seq(Frame), o # <<>>, Rooted(o), NEW F, NEW c, FnsOK(o, F, c),
         NEW cl \in Seq(Entry), EntriesOK(o, F, cl, c),
         \A k \in 1..Len(o) : o[k].objs <= Len(cl),
         NEW x \in Entry, DeclaredIn(c, x.obj, F[Len(o)])
  PROVE  EntriesOK(o, F, Append(cl, x), c)
<1>1. PICK n, m, e : n = Len(o) /\ m = Len(cl) /\ e = Append(cl, x)
  OBVIOUS
<1>2. n \in Nat /\ m \in Nat /\ Len(e) = m + 1 /\ e[m + 1] = x /\ \A i \in 1..m : e[i] = cl[i]
  BY <1>1, StackPush
<1>3. \A k \in 1..n : o[k].objs \in Nat /\ o[k].objs <= m
  <2>1. \A k \in 1..n : o[k] \in Frame
    BY <1>1
  <2>2. \A k \in 1..n : o[k].objs \in Nat
    BY <2>1 DEF Frame
  <2> QED BY <1>1, <2>2
<1>4. ASSUME NEW k \in 1..n, NEW i \in (o[k].objs + 1)..(m + 1),
             \A l \in (k + 1)..n : o[l].kind = "lambda" => i <= o[l].objs
      PROVE  DeclaredIn(c, e[i].obj, F[k])
  <2>1. CASE i = m + 1
    <3>1. ASSUME NEW l \in (k + 1)..n PROVE o[l].kind # "lambda"
      <4>1. l \in 1..n
        BY <1>2
      <4>2. o[l].objs \in Nat /\ o[l].objs <= m
        BY <1>3, <4>1
      <4>3. ~(m + 1 <= o[l].objs)
        BY <1>2, <4>2
      <4> QED BY <1>4, <2>1, <4>3
    <3>2. F[n] = F[k]
      BY <1>1, <1>2, <3>1, SameFunction
    <3> QED BY <1>1, <1>2, <2>1, <3>2
  <2>2. CASE i # m + 1
    <3>1. i \in (o[k].objs + 1)..m /\ i \in 1..m
      BY <1>2, <1>3, <2>2
    <3>2. DeclaredIn(c, cl[i].obj, F[k])
      BY <1>1, <1>4, <3>1 DEF EntriesOK
    <3> QED BY <1>2, <3>1, <3>2
  <2> QED BY <2>1, <2>2
<1>5. EntriesOK(o, F, e, c)
  BY <1>1, <1>2, <1>4 DEF EntriesOK
<1> QED BY <1>1, <1>5

-----------------------------------------------------------------------------
(* The innermost function and the innermost loop or switch. *)

LessThan == OpToRel(<, Nat)

LEMMA LessThanHolds == \A x, y \in Nat : x < y => <<x, y>> \in LessThan
  BY Zenon DEF OpToRel, LessThan

(* A set of natural numbers that is not empty has a least one. *)
LEMMA LeastNumber ==
  ASSUME NEW T \in SUBSET Nat, T # {}
  PROVE  \E x \in T : \A y \in T : x <= y
<1>1. IsWellFoundedOn(LessThan, Nat)
  BY NatLessThanWellFounded, Zenon DEF LessThan
<1>2. PICK x \in T : \A y \in T : ~(<<y, x>> \in LessThan)
  BY <1>1, WFMin, Zenon
<1>3. ASSUME NEW y \in T PROVE x <= y
  <2>1. ~(y < x)
    BY <1>2, LessThanHolds, Zenon
  <2> QED BY <2>1
<1> QED BY <1>3, Zenon

(* And up to n, a greatest one. *)
LEMMA GreatestNumber ==
  ASSUME NEW n \in Nat, NEW T \in SUBSET (0..n), T # {}
  PROVE  \E x \in T : \A y \in T : y <= x
<1> DEFINE U == {n - x : x \in T}
<1>1. U \in SUBSET Nat /\ U # {}
  <2>1. \A x \in T : n - x \in Nat
    OBVIOUS
  <2> QED BY <2>1
<1>2. PICK u \in U : \A v \in U : u <= v
  <2> HIDE DEF U
  <2> QED BY <1>1, LeastNumber
<1>3. PICK x \in T : u = n - x
  OBVIOUS
<1>4. ASSUME NEW y \in T PROVE y <= x
  <2>1. u <= n - y
    BY <1>2
  <2> QED BY <1>3, <2>1
<1> QED BY <1>4

LEMMA InnermostFunction ==
  ASSUME open \in Seq(Frame), open # <<>>, Rooted(open)
  PROVE  /\ FunctionStart \in 1..Len(open) /\ open[FunctionStart].kind \in Nested
         /\ \A j \in (FunctionStart + 1)..Len(open) : open[j].kind \notin Nested
<1> DEFINE T == {k \in 1..Len(open) : open[k].kind \in Nested}
<1>1. Len(open) \in Nat /\ 1 \in 1..Len(open)
  OBVIOUS
<1>2. T \in SUBSET (0..Len(open)) /\ T # {}
  <2>1. open[1].kind = "function"
    BY <1>1 DEF Rooted
  <2>2. 1 \in T
    BY <1>1, <2>1 DEF Nested
  <2> QED BY <2>2
<1>3. PICK x \in T : \A y \in T : y <= x
  <2> HIDE DEF T
  <2> QED BY <1>1, <1>2, GreatestNumber
<1>4. \A j \in (x + 1)..Len(open) : open[j].kind \notin {"function", "lambda"}
  <2> SUFFICES ASSUME NEW j \in (x + 1)..Len(open) PROVE open[j].kind \notin {"function", "lambda"}
    OBVIOUS
  <2>1. j \in 1..Len(open) /\ ~(j <= x)
    OBVIOUS
  <2> QED BY <1>3, <2>1 DEF Nested
<1>5. x \in 1..Len(open) /\ open[x].kind \in {"function", "lambda"}
  BY DEF Nested
<1> QED BY <1>4, <1>5 DEF FunctionStart, Nested

LEMMA InnermostTarget ==
  ASSUME open \in Seq(Frame), open # <<>>, Rooted(open), NEW kinds, Innermost(kinds) # 0
  PROVE  /\ Innermost(kinds) \in 1..Len(open)
         /\ open[Innermost(kinds)].kind \in kinds
         /\ \A j \in (Innermost(kinds) + 1)..Len(open) : open[j].kind \notin Nested
<1> DEFINE n == Len(open)
           T == {0} \cup {k \in (FunctionStart + 1)..n : open[k].kind \in kinds}
<1>1. n \in Nat /\ FunctionStart \in 1..n
      /\ \A j \in (FunctionStart + 1)..n : open[j].kind \notin Nested
  BY InnermostFunction
<1>2. T \in SUBSET (0..n) /\ T # {}
  BY <1>1
<1>3. PICK x \in T : \A y \in T : y <= x
  <2> HIDE DEF T, n
  <2> QED BY <1>1, <1>2, GreatestNumber
<1>4. /\ x \in {0} \cup (FunctionStart + 1)..n
      /\ x > 0 => open[x].kind \in kinds
      /\ \A j \in (FunctionStart + 1)..n : j > x => open[j].kind \notin kinds
  BY <1>1, <1>3
<1>5. \E k \in {0} \cup (FunctionStart + 1)..n :
        /\ k > 0 => open[k].kind \in kinds
        /\ \A j \in (FunctionStart + 1)..n : j > k => open[j].kind \notin kinds
  BY <1>4
<1>6. /\ Innermost(kinds) \in {0} \cup (FunctionStart + 1)..n
      /\ Innermost(kinds) > 0 => open[Innermost(kinds)].kind \in kinds
  BY <1>5 DEF Innermost
<1> HIDE DEF n, T
<1>7. Innermost(kinds) \in (FunctionStart + 1)..n /\ Innermost(kinds) > 0
  BY <1>1, <1>6
<1>8. \A j \in (Innermost(kinds) + 1)..n : j \in (FunctionStart + 1)..n
  BY <1>1, <1>7
<1> QED BY <1>1, <1>6, <1>7, <1>8 DEF n

-----------------------------------------------------------------------------
(* The parts together. *)

(* What holds of the open bodies o, the code c with the blocks X in hand,  *)
(* the registered objects cl and the scopes sc.                            *)
Held(o, F, D, c, X, cl, sc) ==
  /\ o \in Seq(Frame) /\ Rooted(o) /\ c \in Seq(Block) /\ cl \in Seq(Entry)
  /\ Tidy(c) /\ CodeOK(c)
  /\ BlocksOK(o, c, X)
  /\ FnsOK(o, F, c)
  /\ MarksOK(o, D, sc, Len(cl))
  /\ EntriesOK(o, F, cl, c)

LEMMA HeldSame ==
  ASSUME NEW o, NEW F, NEW D, NEW c, NEW X, NEW cl, NEW sc, Held(o, F, D, c, X, cl, sc),
         NEW p, SameFrames(o, p)
  PROVE  Held(p, F, D, c, X, cl, sc)
<1>1. p \in Seq(Frame) /\ Rooted(p)
  BY DEF SameFrames, Alike, Rooted, Held
<1>2. BlocksOK(p, c, X) /\ FnsOK(p, F, c) /\ EntriesOK(p, F, cl, c)
  BY BlocksSame, FnsSame, EntriesSame DEF Held
<1>3. PICK n : n = Len(cl)
  OBVIOUS
<1>4. MarksOK(p, D, sc, n)
  BY <1>3, MarksSame DEF Held
<1> QED BY <1>1, <1>2, <1>3, <1>4 DEF Held

LEMMA HeldGrow ==
  ASSUME NEW o, NEW F, NEW D, NEW c, NEW X, NEW cl, NEW sc, Held(o, F, D, c, X, cl, sc),
         NEW d, NEW b, NEW is, NEW new, Grown(c, d, b, is, new), b \in X,
         is = <<>> \/ (~Ends(c[b].is) /\ TidySeq(is)), SeqOK(is, d, c[b].fn),
         \A a \in 1..Len(new) : TidySeq(new[a].is) /\ SeqOK(new[a].is, d, new[a].fn)
  PROVE  Held(o, F, D, d, X \cup (Len(c) + 1)..Len(d), cl, sc)
<1>1. Tidy(d) /\ CodeOK(d)
  BY TidyGrows, CodeOKGrows DEF Held
<1>2. BlocksOK(o, d, X \cup (Len(c) + 1)..Len(d))
  BY BlocksGrow DEF Held
<1>3. FnsOK(o, F, d) /\ EntriesOK(o, F, cl, d)
  BY FnsGrow, EntriesGrow DEF Held
<1>4. d \in Seq(Block)
  BY DEF Grown
<1> QED BY <1>1, <1>2, <1>3, <1>4 DEF Held

LEMMA HeldDrop ==
  ASSUME NEW o, NEW F, NEW D, NEW c, NEW X, NEW cl, NEW sc, Held(o, F, D, c, X, cl, sc),
         NEW Y, Y \subseteq X, \A b \in X : b \in Y \/ Ends(c[b].is)
  PROVE  Held(o, F, D, c, Y, cl, sc)
  BY BlocksDrop DEF Held

(* The top frame goes, and what its scope has registered. *)
LEMMA HeldPop ==
  ASSUME NEW o, NEW F, NEW D, NEW c, NEW X, NEW cl, NEW sc, Held(o, F, D, c, X, cl, sc),
         o # <<>>, NEW f, f = o[Len(o)], f.kind = "lambda" => f.scoped
  PROVE  /\ f.scoped =>
              /\ Held(Front(o), Front(F), Front(D), c, X \cup Pend(f),
                      SubSeq(cl, 1, sc[Len(sc)].objs), Front(sc))
              /\ sc # <<>>
         /\ ~f.scoped => Held(Front(o), Front(F), Front(D), c, X \cup Pend(f), cl, sc)
<1>1. PICK n, p, G, E, Y : /\ n = Len(cl) /\ p = Front(o) /\ G = Front(F) /\ E = Front(D)
                           /\ Y = X \cup Pend(f)
  OBVIOUS
<1>2. /\ o \in Seq(Frame) /\ F \in Seq(Nat) /\ Len(F) = Len(o) /\ cl \in Seq(Entry) /\ n \in Nat
      /\ MarksOK(o, D, sc, n)
  BY <1>1 DEF Held, FnsOK
<1>3. p \in Seq(Frame) /\ Rooted(p)
  <2>1. p \in Seq(Frame) /\ Len(p) = Len(o) - 1 /\ Len(o) \in Nat
        /\ \A k \in 1..(Len(o) - 1) : p[k] = o[k]
    BY <1>1, <1>2, StackPop
  <2>2. \A k \in 1..(Len(o) - 1) : k \in 1..Len(o)
    BY <2>1
  <2> QED BY <2>1, <2>2 DEF Held, Rooted
<1>4. BlocksOK(p, c, Y) /\ FnsOK(p, G, c)
  BY <1>1, <1>2, BlocksPop, FnsPop DEF Held
<1>5. CASE f.scoped
  <2>1. PICK t, e : t = Front(sc) /\ e = SubSeq(cl, 1, sc[Len(sc)].objs)
    OBVIOUS
  <2>2. f.objs \in 0..n /\ sc # <<>> /\ sc[Len(sc)].objs = f.objs
    BY <1>2, <1>5, MarksTop
  <2>3. e \in Seq(Entry) /\ Len(e) = f.objs /\ \A i \in 1..f.objs : e[i] = cl[i]
    <3>1. PICK m \in 0..Len(cl) : m = f.objs
      BY <1>1, <2>2
    <3>2. e = SubSeq(cl, 1, m)
      BY <2>1, <2>2, <3>1
    <3>3. e = [k \in 1..m |-> cl[k]]
      BY <1>2, <3>2
    <3> QED BY <1>2, <3>1, <3>2, <3>3, Prefix, SMTT(30)
  <2>4. MarksOK(p, E, t, Len(e))
    BY <1>1, <1>2, <1>5, <2>1, <2>3, MarksPop
  <2>5. EntriesOK(p, G, e, c)
    <3>1. /\ EntriesOK(o, F, cl, c) /\ Len(cl) \in Nat /\ Len(e) \in Nat /\ Len(e) <= Len(cl)
          /\ \A i \in 1..Len(e) : e[i].obj = cl[i].obj
          /\ f.kind = "lambda" => Len(e) <= f.objs
      <4>1. f.objs <= f.objs /\ f.objs \in Nat /\ f.objs <= n
        BY <2>2
      <4> QED BY <1>1, <1>2, <2>3, <4>1 DEF Held
    <3> QED BY <1>1, <1>2, <3>1, EntriesPop
  <2>6. Held(p, G, E, c, Y, e, t)
    BY <1>3, <1>4, <2>3, <2>4, <2>5 DEF Held
  <2> QED BY <1>1, <1>5, <2>1, <2>2, <2>6
<1>6. CASE ~f.scoped
  <2>1. MarksOK(p, E, sc, n)
    BY <1>1, <1>2, <1>6, MarksPop
  <2>2. EntriesOK(p, G, cl, c)
    <3>1. /\ EntriesOK(o, F, cl, c) /\ Len(cl) \in Nat /\ Len(cl) <= Len(cl)
          /\ \A i \in 1..Len(cl) : cl[i].obj = cl[i].obj
          /\ f.kind # "lambda"
      BY <1>1, <1>2, <1>6 DEF Held
    <3> QED BY <1>1, <1>2, <3>1, EntriesPop
  <2>3. Held(p, G, E, c, Y, cl, sc)
    BY <1>1, <1>3, <1>4, <2>1, <2>2 DEF Held
  <2> QED BY <1>1, <1>6, <2>3
<1> QED BY <1>5, <1>6

(* What a frame must be to go on top of the others. *)
LEMMA HeldPush ==
  ASSUME NEW o, NEW F, NEW D, NEW c, NEW X, NEW cl, NEW sc, Held(o, F, D, c, X, cl, sc),
         o # <<>>, NEW f \in Frame, NEW y, FitsFns(f, o[Len(o)], F[Len(o)], y, c),
         Pend(f) \subseteq X, Apart(f), \A b \in Pend(f) : ~Ends(c[b].is),
         o[Len(o)].kind = "dispatch" => f.kind = "catch",
         o[Len(o)].objs <= f.objs, f.objs <= Len(cl), f.kind = "lambda" => f.objs = Len(cl),
         NEW t \in Seq(Mark),
         IF f.scoped THEN \E x \in Mark : x.objs = f.objs /\ t = Append(sc, x) ELSE t = sc
  PROVE  Held(Append(o, f), Append(F, y), Append(D, Len(t)), c, X \ Pend(f), cl, t)
<1>1. PICK n, p, G, E, Y : /\ n = Len(cl) /\ p = Append(o, f) /\ G = Append(F, y)
                           /\ E = Append(D, Len(t)) /\ Y = X \ Pend(f)
  OBVIOUS
<1>2. /\ o \in Seq(Frame) /\ F \in Seq(Nat) /\ Len(F) = Len(o) /\ cl \in Seq(Entry) /\ n \in Nat
      /\ MarksOK(o, D, sc, n) /\ y \in Nat /\ f.kind # "function"
  BY <1>1 DEF Held, FnsOK, FitsFns
<1>3. p \in Seq(Frame) /\ Rooted(p)
  <2>1. p \in Seq(Frame) /\ Len(p) = Len(o) + 1 /\ Len(o) \in Nat /\ p[Len(o) + 1] = f
        /\ \A k \in 1..Len(o) : p[k] = o[k]
    BY <1>1, <1>2, StackPush
  <2>2. \A k \in 1..(Len(o) + 1) : k \in 1..Len(o) \/ (k = Len(o) + 1 /\ k # 1)
    BY <1>2, <2>1
  <2> QED BY <1>2, <2>1, <2>2 DEF Held, Rooted
<1>4. BlocksOK(p, c, Y)
  BY <1>1, <1>2, BlocksPush DEF Held
<1>5. FnsOK(p, G, c)
  BY <1>1, <1>2, FnsPush DEF Held
<1>6. MarksOK(p, E, t, n)
  BY <1>1, <1>2, MarksPush DEF Held
<1>7. EntriesOK(p, G, cl, c)
  <2>1. EntriesOK(o, F, cl, c) /\ Len(cl) \in Nat
        /\ (f.kind = "lambda" => f.objs = Len(cl))
        /\ (f.kind # "lambda" => y = F[Len(o)] /\ o[Len(o)].objs <= f.objs)
    BY <1>1, <1>2 DEF Held, FitsFns
  <2> QED BY <1>1, <1>2, <2>1, EntriesPush
<1>8. Held(p, G, E, c, Y, cl, t)
  BY <1>1, <1>3, <1>4, <1>5, <1>6, <1>7 DEF Held
<1> QED BY <1>1, <1>8

LEMMA HeldMore ==
  ASSUME NEW o, NEW F, NEW D, NEW c, NEW X, NEW cl, NEW sc, Held(o, F, D, c, X, cl, sc),
         o # <<>>, NEW x \in Entry, DeclaredIn(c, x.obj, F[Len(o)])
  PROVE  Held(o, F, D, c, X, Append(cl, x), sc)
<1>1. PICK e, n, m : e = Append(cl, x) /\ n = Len(cl) /\ m = Len(e)
  OBVIOUS
<1>2. o \in Seq(Frame) /\ cl \in Seq(Entry) /\ n \in Nat /\ MarksOK(o, D, sc, n)
  BY <1>1 DEF Held
<1>3. e \in Seq(Entry) /\ m \in Nat /\ n <= m
  BY <1>1, <1>2, StackPush
<1>4. MarksOK(o, D, sc, m)
  BY <1>2, <1>3, MarksMore
<1>5. \A k \in 1..Len(o) : o[k].objs <= Len(cl)
  BY <1>1, <1>2 DEF MarksOK
<1>6. EntriesOK(o, F, e, c)
  BY <1>1, <1>2, <1>5, EntriesMore DEF Held
<1> QED BY <1>1, <1>3, <1>4, <1>6 DEF Held

LEMMA HeldMoved ==
  ASSUME NEW o, NEW F, NEW D, NEW c, NEW X, NEW cl, NEW sc, Held(o, F, D, c, X, cl, sc),
         NEW e \in Seq(Entry), Len(e) = Len(cl), \A i \in 1..Len(e) : e[i].obj = cl[i].obj
  PROVE  Held(o, F, D, c, X, e, sc)
<1>1. \A k \in 1..Len(o) : o[k].objs \in Nat
  <2>1. \A k \in 1..Len(o) : o[k] \in Frame
    BY DEF Held
  <2> QED BY <2>1 DEF Frame
<1>2. EntriesOK(o, F, e, c)
  BY <1>1, EntriesMoved DEF Held
<1> QED BY <1>2 DEF Held

-----------------------------------------------------------------------------
(* The invariant, and the ways the stack of bodies goes on.                *)

(* The block b is in hand: it belongs to the function of the body on top,  *)
(* and the clauses of a try begin in a block that is open.                 *)
Settled(o, c, b, cl, sc) ==
  \E F, D :
    /\ Held(o, F, D, c, IF o = <<>> THEN {} ELSE {b}, cl, sc)
    /\ o # <<>> => /\ c[b].fn = F[Len(o)]
                   /\ o[Len(o)].kind = "dispatch" => ~Ends(c[b].is)

VInv == IInv /\ Settled(open, code, cur, cleanups, scopes)

(* The same top frame, later code. *)
LEMMA SettledStay ==
  ASSUME NEW o, NEW F, NEW D, NEW c, NEW b, NEW cl, NEW sc, Held(o, F, D, c, {b}, cl, sc),
         o # <<>>, c[b].fn = F[Len(o)], o[Len(o)].kind # "dispatch"
  PROVE  Settled(o, c, b, cl, sc)
<1>1. Held(o, F, D, c, IF o = <<>> THEN {} ELSE {b}, cl, sc)
  OBVIOUS
<1> QED BY <1>1, Zenon DEF Settled

(* A body begins inside the one on top. *)
LEMMA SettledOpen ==
  ASSUME NEW o, NEW F, NEW D, NEW c, NEW X, NEW cl, NEW sc, Held(o, F, D, c, X, cl, sc),
         o # <<>>, NEW f \in Frame, NEW y, FitsFns(f, o[Len(o)], F[Len(o)], y, c),
         Pend(f) \subseteq X, Apart(f), \A a \in Pend(f) : ~Ends(c[a].is),
         o[Len(o)].kind = "dispatch" => f.kind = "catch", f.kind # "dispatch",
         f.objs = Len(cl), NEW m \in Mark, m.objs = Len(cl), sc \in Seq(Mark),
         NEW t, t = IF f.scoped THEN Append(sc, m) ELSE sc,
         NEW b \in X, b \notin Pend(f), c[b].fn = y,
         \A a \in X : a = b \/ a \in Pend(f) \/ Ends(c[a].is)
  PROVE  Settled(Append(o, f), c, b, cl, t)
<1>1. PICK p, G, E, Y : /\ p = Append(o, f) /\ G = Append(F, y) /\ E = Append(D, Len(t))
                        /\ Y = X \ Pend(f)
  OBVIOUS
<1>2. o \in Seq(Frame) /\ F \in Seq(Nat) /\ Len(F) = Len(o) /\ y \in Nat
      /\ cl \in Seq(Entry) /\ Len(cl) \in Nat
  BY DEF Held, FnsOK, FitsFns
<1>3. o[Len(o)].objs <= f.objs /\ f.objs <= Len(cl)
  <2>1. PICK top, n : top = o[Len(o)] /\ n = Len(cl)
    OBVIOUS
  <2>2. MarksOK(o, D, sc, n)
    BY <2>1 DEF Held
  <2>3. top.objs \in 0..n
    BY <1>2, <2>1, <2>2, MarksTop
  <2> QED BY <1>2, <2>1, <2>3
<1>4. t \in Seq(Mark) /\ IF f.scoped THEN \E x \in Mark : x.objs = f.objs /\ t = Append(sc, x) ELSE t = sc
  <2>1. Append(sc, m) \in Seq(Mark)
    BY StackPush
  <2> QED BY <2>1
<1>5. Held(p, G, E, c, Y, cl, t)
  BY <1>1, <1>3, <1>4, HeldPush
<1>6. Held(p, G, E, c, {b}, cl, t)
  <2>1. {b} \subseteq Y /\ \A a \in Y : a \in {b} \/ Ends(c[a].is)
    BY <1>1
  <2> QED BY <1>5, <2>1, HeldDrop
<1>7. p # <<>> /\ p[Len(p)] = f /\ G[Len(p)] = y
  <2>1. Len(p) = Len(o) + 1 /\ p # <<>> /\ p[Len(o) + 1] = f
    <3>1. o \in Seq(Frame) /\ p = Append(o, f)
      BY <1>1, <1>2
    <3> QED BY <3>1, StackPush
  <2>2. G[Len(F) + 1] = y
    BY <1>1, <1>2, StackPush
  <2> QED BY <1>2, <2>1, <2>2
<1>8. Settled(p, c, b, cl, t)
  BY <1>6, <1>7, SettledStay
<1> QED BY <1>1, <1>8

(* What the top frame and the one below have to do with each other. *)
LEMMA BelowTop ==
  ASSUME NEW o, NEW F, NEW D, NEW c, NEW X, NEW cl, NEW sc, Held(o, F, D, c, X, cl, sc),
         o # <<>>, NEW f, f = o[Len(o)], f.kind # "function"
  PROVE  /\ Len(o) \in Nat /\ Len(o) >= 2 /\ Len(o) - 1 \in 1..Len(o)
         /\ Front(o) # <<>> /\ Front(o) \in Seq(Frame) /\ Len(Front(o)) = Len(o) - 1
         /\ Front(o)[Len(o) - 1] = o[Len(o) - 1] /\ Front(F)[Len(o) - 1] = F[Len(o) - 1]
         /\ f.kind = "lambda" => In(c, f.next, F[Len(o) - 1])
         /\ f.kind # "lambda" => F[Len(o)] = F[Len(o) - 1]
         /\ \A a \in Mine(f) : In(c, a, F[Len(o)])
         /\ o[Len(o) - 1].kind = "dispatch" => f.kind = "catch"
<1>1. PICK n, p, G : n = Len(o) /\ p = Front(o) /\ G = Front(F)
  OBVIOUS
<1>2. o \in Seq(Frame) /\ n \in Nat /\ n >= 1 /\ F \in Seq(Nat) /\ Len(F) = n /\ F # <<>>
  <2>1. o \in Seq(Frame) /\ F \in Seq(Nat) /\ Len(F) = n
    BY <1>1 DEF Held, FnsOK
  <2> QED BY <1>1, <2>1
<1>3. n >= 2 /\ n \in 1..n /\ n - 1 \in 1..n /\ n - 1 \in 1..(n - 1) /\ n \in (n - 1)..n
      /\ n - 1 < n /\ (n - 1) + 1 = n
  <2>1. n # 1
    <3>1. n = 1 => f.kind = "function"
      BY <1>1, <1>2 DEF Held, Rooted
    <3> QED BY <3>1
  <2> QED BY <1>2, <2>1
<1>4. p \in Seq(Frame) /\ Len(p) = n - 1 /\ p[n - 1] = o[n - 1] /\ G[n - 1] = F[n - 1] /\ p # <<>>
  <2>1. p \in Seq(Frame) /\ Len(p) = n - 1 /\ p[n - 1] = o[n - 1]
    BY <1>1, <1>2, <1>3, StackPop
  <2>2. G[n - 1] = F[n - 1]
    BY <1>1, <1>2, <1>3, StackPop
  <2> QED BY <1>3, <2>1, <2>2
<1>5. /\ f.kind = "lambda" => In(c, f.next, F[n - 1])
      /\ \A a \in Mine(f) : In(c, a, F[n])
  BY <1>1, <1>3 DEF Held, FnsOK
<1>6. f.kind # "lambda" => F[n] = F[n - 1]
  <2> SUFFICES ASSUME f.kind # "lambda" PROVE F[n] = F[n - 1]
    OBVIOUS
  <2>1. \A j \in ((n - 1) + 1)..n : j = n
    BY <1>2
  <2>2. \A j \in ((n - 1) + 1)..n : o[j].kind \notin Nested
    BY <1>1, <2>1 DEF Nested
  <2> QED BY <1>1, <1>3, <2>2 DEF Held, FnsOK
<1>7. o[n - 1].kind = "dispatch" => f.kind = "catch"
  BY <1>1, <1>3 DEF Held, BlocksOK
<1> QED BY <1>1, <1>2, <1>3, <1>4, <1>5, <1>6, <1>7

(* The objects and the scopes without those of the frame f. *)
Kept(f, cl, sc) == IF f.scoped THEN SubSeq(cl, 1, sc[Len(sc)].objs) ELSE cl

Around(f, sc) == IF f.scoped THEN Front(sc) ELSE sc

LEMMA HeldOff ==
  ASSUME NEW o, NEW F, NEW D, NEW c, NEW X, NEW cl, NEW sc, Held(o, F, D, c, X, cl, sc),
         o # <<>>, NEW f, f = o[Len(o)], f.kind = "lambda" => f.scoped
  PROVE  Held(Front(o), Front(F), Front(D), c, X \cup Pend(f), Kept(f, cl, sc), Around(f, sc))
<1>1. CASE f.scoped
  BY <1>1, HeldPop DEF Kept, Around
<1>2. CASE ~f.scoped
  BY <1>2, HeldPop DEF Kept, Around
<1> QED BY <1>1, <1>2

(* A body ends. *)
LEMMA SettledClose ==
  ASSUME NEW o, NEW F, NEW D, NEW c, NEW h, NEW cl, NEW sc, Held(o, F, D, c, {h}, cl, sc),
         o # <<>>, c[h].fn = F[Len(o)], NEW f, f = o[Len(o)], f.kind # "function",
         f.kind = "lambda" => f.scoped,
         NEW b \in {h} \cup Pend(f), f.kind = "lambda" => b = f.next,
         f.kind # "lambda" => b \in {h} \cup Mine(f), f.kind = "catch" => b # h,
         \A a \in {h} \cup Pend(f) : a = b \/ Ends(c[a].is)
  PROVE  Settled(Front(o), c, b, Kept(f, cl, sc), Around(f, sc))
<1>1. PICK n, p, G, E, Y, e, t :
        /\ n = Len(o) /\ p = Front(o) /\ G = Front(F) /\ E = Front(D) /\ Y = {h} \cup Pend(f)
        /\ e = Kept(f, cl, sc) /\ t = Around(f, sc)
  OBVIOUS
<1>2. /\ n \in Nat /\ n >= 2 /\ p # <<>> /\ Len(p) = n - 1
      /\ p[n - 1] = o[n - 1] /\ G[n - 1] = F[n - 1]
      /\ f.kind = "lambda" => In(c, f.next, F[n - 1])
      /\ f.kind # "lambda" => F[n] = F[n - 1]
      /\ \A a \in Mine(f) : In(c, a, F[n])
      /\ o[n - 1].kind = "dispatch" => f.kind = "catch"
  <2>1. PICK X : X = {h}
    OBVIOUS
  <2>2. Held(o, F, D, c, X, cl, sc)
    BY <2>1
  <2> QED BY <1>1, <2>2, BelowTop
<1>3. Held(p, G, E, c, Y, e, t)
  <2>1. PICK X : X = {h}
    OBVIOUS
  <2>2. Held(o, F, D, c, X, cl, sc)
    BY <2>1
  <2>3. Held(Front(o), Front(F), Front(D), c, X \cup Pend(f), Kept(f, cl, sc), Around(f, sc))
    BY <2>2, HeldOff
  <2> QED BY <1>1, <2>1, <2>3
<1>4. Held(p, G, E, c, {b}, e, t)
  <2>1. {b} \subseteq Y /\ \A a \in Y : a \in {b} \/ Ends(c[a].is)
    BY <1>1
  <2> QED BY <1>3, <2>1, HeldDrop
<1>5. c[b].fn = G[Len(p)]
  <2>1. CASE f.kind = "lambda"
    BY <1>2, <2>1 DEF In
  <2>2. CASE f.kind # "lambda"
    <3>1. c[b].fn = F[n]
      BY <1>1, <1>2, <2>2 DEF In
    <3> QED BY <1>2, <2>2, <3>1
  <2> QED BY <2>1, <2>2
<1>6. p[Len(p)].kind = "dispatch" => ~Ends(c[b].is)
  <2> SUFFICES ASSUME p[Len(p)].kind = "dispatch" PROVE ~Ends(c[b].is)
    OBVIOUS
  <2>1. b \in Pend(f)
    BY <1>2
  <2>2. BlocksOK(o, c, {h}) /\ o \in Seq(Frame)
    BY DEF Held
  <2>3. Len(o) \in 1..Len(o)
    BY <2>2
  <2>4. \A a \in Pend(o[Len(o)]) : ~Ends(c[a].is)
    BY <2>2, <2>3 DEF BlocksOK
  <2> QED BY <2>1, <2>4
<1>7. Held(p, G, E, c, IF p = <<>> THEN {} ELSE {b}, e, t)
  BY <1>2, <1>4
<1>8. Settled(p, c, b, e, t)
  BY <1>5, <1>6, <1>7, Zenon DEF Settled
<1> QED BY <1>1, <1>8

(* A handler goes on to its next part, which takes the place of the one    *)
(* before.                                                                 *)
LEMMA SettledNext ==
  ASSUME NEW o, NEW F, NEW D, NEW c, NEW h, NEW cl, NEW sc, Held(o, F, D, c, {h}, cl, sc),
         o # <<>>, c[h].fn = F[Len(o)], NEW f, f = o[Len(o)],
         f.kind \notin {"function", "lambda", "catch"},
         NEW g \in Frame, g.kind \notin {"function", "lambda", "catch", "loop"},
         Mine(g) \subseteq Mine(f), Pend(g) \subseteq Pend(f), Apart(g),
         g.kind = "case" => BreakIn(g) \in Mine(g),
         g.kind # "case" => BreakIn(g) = BreakIn(o[Len(o) - 1]),
         ContinueIn(g) = ContinueIn(o[Len(o) - 1]),
         f.objs <= g.objs, g.objs <= Len(Kept(f, cl, sc)),
         NEW t \in Seq(Mark),
         IF g.scoped THEN \E x \in Mark : x.objs = g.objs /\ t = Append(Around(f, sc), x)
                     ELSE t = Around(f, sc),
         NEW b \in {h} \cup Pend(f), b \notin Pend(g), b \in {h} \cup Mine(f),
         \A a \in {h} \cup Pend(f) : a = b \/ a \in Pend(g) \/ Ends(c[a].is),
         g.kind = "dispatch" => b # h
  PROVE  Settled([o EXCEPT ![Len(o)] = g], c, b, Kept(f, cl, sc), t)
<1>1. PICK n, p, G, E, Y, e, s :
        /\ n = Len(o) /\ p = Front(o) /\ G = Front(F) /\ E = Front(D) /\ Y = {h} \cup Pend(f)
        /\ e = Kept(f, cl, sc) /\ s = Around(f, sc)
  OBVIOUS
<1>2. /\ n \in Nat /\ n >= 2 /\ n - 1 \in 1..n /\ p # <<>> /\ p \in Seq(Frame) /\ Len(p) = n - 1
      /\ p[n - 1] = o[n - 1] /\ G[n - 1] = F[n - 1]
      /\ F[n] = F[n - 1]
      /\ \A a \in Mine(f) : In(c, a, F[n])
      /\ o[n - 1].kind # "dispatch"
  <2>1. PICK X : X = {h}
    OBVIOUS
  <2>2. Held(o, F, D, c, X, cl, sc)
    BY <2>1
  <2> QED BY <1>1, <2>2, BelowTop
<1>3. Held(p, G, E, c, Y, e, s)
  <2>1. PICK X : X = {h}
    OBVIOUS
  <2>2. Held(o, F, D, c, X, cl, sc)
    BY <2>1
  <2>3. Held(Front(o), Front(F), Front(D), c, X \cup Pend(f), Kept(f, cl, sc), Around(f, sc))
    BY <2>2, HeldOff
  <2> QED BY <1>1, <2>1, <2>3
<1>4. PICK y \in Nat : y = F[n]
  <2>1. F \in Seq(Nat) /\ Len(F) = n /\ n \in 1..n
    BY <1>1, <1>2 DEF Held, FnsOK
  <2> QED BY <2>1
<1>5. FitsFns(g, p[Len(p)], G[Len(p)], y, c)
  <2>1. \A a \in Mine(g) : In(c, a, y)
    BY <1>2, <1>4
  <2>2. g.kind = "case" => In(c, BreakIn(g), y)
    BY <2>1
  <2> QED BY <1>1, <1>2, <1>4, <2>1, <2>2 DEF FitsFns
<1>6. p[Len(p)].objs <= g.objs /\ \A a \in Pend(g) : ~Ends(c[a].is)
  <2>1. o \in Seq(Frame) /\ BlocksOK(o, c, {h}) /\ MarksOK(o, D, sc, Len(cl))
    BY DEF Held
  <2>2. n \in 1..n /\ n \in ((n - 1) + 1)..n
    BY <1>2
  <2>3. \A a \in Pend(f) : ~Ends(c[a].is)
    BY <1>1, <2>1, <2>2 DEF BlocksOK
  <2>4. o[n - 1].objs <= f.objs
    BY <1>1, <1>2, <2>1, <2>2 DEF MarksOK
  <2>5. o[n - 1].objs \in Nat /\ f.objs \in Nat /\ g.objs \in Nat
    <3>1. o[n - 1] \in Frame /\ f \in Frame
      BY <1>1, <1>2, <2>1, <2>2
    <3> QED BY <3>1 DEF Frame
  <2> QED BY <1>2, <2>3, <2>4, <2>5
<1>7. PICK q, H, K, Z : q = Append(p, g) /\ H = Append(G, y) /\ K = Append(E, Len(t)) /\ Z = Y \ Pend(g)
  OBVIOUS
<1>8. Held(q, H, K, c, Z, e, t)
  <2>1. /\ Pend(g) \subseteq Y /\ (p[Len(p)].kind = "dispatch" => g.kind = "catch")
        /\ g.objs <= Len(e) /\ (g.kind = "lambda" => g.objs = Len(e))
        /\ IF g.scoped THEN \E x \in Mark : x.objs = g.objs /\ t = Append(s, x) ELSE t = s
    BY <1>1, <1>2
  <2> QED BY <1>2, <1>3, <1>5, <1>6, <1>7, <2>1, HeldPush
<1>9. Held(q, H, K, c, {b}, e, t)
  <2>1. {b} \subseteq Z /\ \A a \in Z : a \in {b} \/ Ends(c[a].is)
    BY <1>1, <1>7
  <2> QED BY <1>8, <2>1, HeldDrop
<1>10. q # <<>> /\ q[Len(q)] = g /\ H[Len(q)] = y /\ q = [o EXCEPT ![Len(o)] = g]
  <2>1. p \in Seq(Frame) /\ q = Append(p, g)
    BY <1>2, <1>7
  <2>2. q \in Seq(Frame) /\ Len(q) = n /\ q # <<>> /\ q[n] = g /\ \A k \in 1..(n - 1) : q[k] = p[k]
    BY <1>2, <2>1, StackPush
  <2>3. H[n] = y
    <3>1. G \in Seq(Nat) /\ Len(G) = n - 1
      BY <1>2, <1>3 DEF Held, FnsOK
    <3>2. H[(n - 1) + 1] = y
      BY <1>4, <1>7, <3>1, StackPush, SMTT(30)
    <3> QED BY <1>2, <3>2
  <2>4. \A k \in 1..(n - 1) : p[k] = o[k]
    <3>1. o \in Seq(Frame)
      BY DEF Held
    <3> QED BY <1>1, <3>1, StackPop
  <2>5. PICK r : r = [o EXCEPT ![Len(o)] = g]
    OBVIOUS
  <2>6. /\ r \in Seq(Frame) /\ Len(r) = n /\ r[n] = g
        /\ \A k \in 1..(n - 1) : r[k] = o[k]
    <3>1. o \in Seq(Frame)
      BY DEF Held
    <3> QED BY <1>1, <2>5, <3>1, StackReplace
  <2>7. ASSUME NEW k \in 1..n PROVE q[k] = r[k]
    <3>1. k \in 1..(n - 1) \/ k = n
      BY <1>2
    <3> QED BY <2>2, <2>4, <2>6, <3>1
  <2>8. q = r
    BY <2>2, <2>6, <2>7
  <2> QED BY <2>2, <2>3, <2>5, <2>8
<1>11. c[b].fn = y
  BY <1>1, <1>2, <1>4 DEF In
<1>12. g.kind = "dispatch" => ~Ends(c[b].is)
  <2> SUFFICES ASSUME g.kind = "dispatch" PROVE ~Ends(c[b].is)
    OBVIOUS
  <2>1. b \in Pend(f)
    OBVIOUS
  <2>2. o \in Seq(Frame) /\ BlocksOK(o, c, {h})
    BY DEF Held
  <2>3. n \in 1..n
    BY <1>2
  <2> QED BY <1>1, <2>1, <2>2, <2>3 DEF BlocksOK
<1>13. Held(q, H, K, c, IF q = <<>> THEN {} ELSE {b}, e, t)
  BY <1>9, <1>10
<1>14. Settled(q, c, b, e, t)
  BY <1>10, <1>11, <1>12, <1>13, Zenon DEF Settled
<1> QED BY <1>1, <1>10, <1>14

-----------------------------------------------------------------------------
(* What the handlers emit. *)

(* An instruction without targets; one with two; a switch. *)
LEMMA OpOK ==
  ASSUME NEW op \in Ops, op \in Terminators => op \in {"ret", "unreachable"}, NEW n \in Nat,
         NEW c, NEW fn, op \in {"destroy", "move"} => DeclaredIn(c, n, fn)
  PROVE  Op(op, n) \in Instr /\ Op(op, n).op = op /\ InstrOK(Op(op, n), c, fn)
<1>1. PICK i \in Instr : i = Op(op, n)
  BY OpType
<1>2. i.op = op /\ i.arg = n
  BY <1>1 DEF Op
<1>3. Targets(i) = {}
  BY <1>2 DEF Targets, Terminators
<1> QED BY <1>1, <1>2, <1>3 DEF InstrOK

LEMMA BranchOK ==
  ASSUME NEW op \in {"br", "condbr", "try", "match"}, NEW n \in Nat, NEW y \in Nat, NEW f \in Nat,
         NEW c, NEW fn, In(c, y, fn), In(c, f, fn)
  PROVE  /\ Branch(op, n, y, f) \in Instr /\ Branch(op, n, y, f).op = op
         /\ op \in Terminators /\ InstrOK(Branch(op, n, y, f), c, fn)
<1>1. op \in Ops /\ op \in Terminators
  BY DEF Ops, Terminators
<1>2. PICK i \in Instr : i = Branch(op, n, y, f)
  BY <1>1, BranchType
<1>3. i.op = op /\ i.yes = y /\ i.no = f
  BY <1>2 DEF Branch
<1>4. Targets(i) = {y, f}
  BY <1>3 DEF Targets, Terminators
<1>5. i.op \notin {"destroy", "move"}
  BY <1>3
<1>6. InstrOK(i, c, fn)
  BY <1>4, <1>5 DEF InstrOK, In
<1> QED BY <1>1, <1>2, <1>3, <1>6

LEMMA BrOK ==
  ASSUME NEW b \in Nat, NEW c, NEW fn, In(c, b, fn)
  PROVE  Br(b) \in Instr /\ Br(b).op = "br" /\ "br" \in Terminators /\ InstrOK(Br(b), c, fn)
  BY BranchOK DEF Br

LEMMA SwitchOK ==
  ASSUME NEW n \in Nat, NEW y \in Nat, NEW f \in Nat, NEW c, NEW fn,
         \A b \in y..(y + n - 1) : In(c, b, fn), In(c, f, fn)
  PROVE  /\ Branch("switch", n, y, f) \in Instr /\ Branch("switch", n, y, f).op = "switch"
         /\ "switch" \in Terminators /\ InstrOK(Branch("switch", n, y, f), c, fn)
<1>1. "switch" \in Ops /\ "switch" \in Terminators
  BY DEF Ops, Terminators
<1>2. PICK i \in Instr : i = Branch("switch", n, y, f)
  BY <1>1, BranchType
<1>3. i.op = "switch" /\ i.arg = n /\ i.yes = y /\ i.no = f
  BY <1>2 DEF Branch
<1>4. Targets(i) = y..(y + n - 1) \cup {f}
  BY <1>3 DEF Targets
<1>5. InstrOK(i, c, fn)
  BY <1>3, <1>4 DEF InstrOK, In
<1> QED BY <1>1, <1>2, <1>3, <1>5

(* One instruction, and two of which only the second may end a block. *)
LEMMA OneOK ==
  ASSUME NEW x \in Instr, NEW c, NEW fn, InstrOK(x, c, fn)
  PROVE  <<x>> \in Seq(Instr) /\ TidySeq(<<x>>) /\ SeqOK(<<x>>, c, fn)
         /\ (x.op \in Terminators => Ends(<<x>>)) /\ (x.op \notin Terminators => Plain(<<x>>))
  BY PlainOne, OneType

LEMMA TwoOK ==
  ASSUME NEW x \in Instr, NEW z \in Instr, NEW c, NEW fn, InstrOK(x, c, fn), InstrOK(z, c, fn),
         x.op \notin Terminators, z.op \in Terminators
  PROVE  <<x, z>> \in Seq(Instr) /\ TidySeq(<<x, z>>) /\ SeqOK(<<x, z>>, c, fn) /\ Ends(<<x, z>>)
  BY DEF TidySeq, SeqOK, Ends

(* The deferred statements. *)
LEMMA DeferCodeOK ==
  ASSUME TypeOK, NEW n \in 0..Len(defers), NEW c, NEW fn
  PROVE  Plain(DeferCode(n)) /\ SeqOK(DeferCode(n), c, fn)
<1>1. defers \in Seq(Nat) /\ Len(defers) \in Nat
  BY DEF TypeOK
<1>2. PICK s : s = DeferCode(n)
  OBVIOUS
<1>3. Len(s) = Len(defers) - n /\ s = [i \in 1..(Len(defers) - n) |-> Op("run", defers[Len(defers) + 1 - i])]
  BY <1>1, <1>2 DEF DeferCode
<1>4. ASSUME NEW i \in 1..Len(s) PROVE s[i].op \notin Terminators /\ InstrOK(s[i], c, fn)
  <2>1. s[i] = Op("run", defers[Len(defers) + 1 - i])
    BY <1>3
  <2>2. Len(defers) + 1 - i \in 1..Len(defers)
    BY <1>1, <1>3
  <2>3. PICK d \in Nat : d = defers[Len(defers) + 1 - i]
    BY <1>1, <2>2
  <2>4. "run" \in Ops /\ "run" \notin Terminators
    BY DEF Ops, Terminators
  <2>5. InstrOK(Op("run", d), c, fn) /\ Op("run", d).op = "run"
    BY <2>4, OpOK
  <2> QED BY <2>1, <2>3, <2>4, <2>5
<1> QED BY <1>2, <1>4 DEF Plain, SeqOK

(* The objects, those that have not been moved. *)
LEMMA CleanupCodeOK ==
  ASSUME NEW entries \in Seq(Entry), NEW n \in 0..Len(entries), NEW c, NEW fn,
         \A i \in (n + 1)..Len(entries) : entries[i].moved \/ DeclaredIn(c, entries[i].obj, fn)
  PROVE  Plain(CleanupCode(entries, n)) /\ SeqOK(CleanupCode(entries, n), c, fn)
<1>1. Len(entries) \in Nat
  OBVIOUS
<1> DEFINE C(i) == LET e == entries[Len(entries) + 1 - i]
                   IN  IF e.moved THEN Op("nop", 0) ELSE Op("destroy", e.obj)
<1>2. PICK s : s = CleanupCode(entries, n)
  OBVIOUS
<1>3. ASSUME NEW i \in 1..(Len(entries) - n)
      PROVE  C(i).op \notin Terminators /\ InstrOK(C(i), c, fn)
  <2>1. Len(entries) + 1 - i \in 1..Len(entries) /\ Len(entries) + 1 - i \in (n + 1)..Len(entries)
    BY <1>1
  <2>2. PICK e \in Entry : e = entries[Len(entries) + 1 - i]
    BY <2>1
  <2>3. e.obj \in Nat
    BY DEF Entry
  <2>4. e.moved \/ DeclaredIn(c, e.obj, fn)
    BY <2>1, <2>2
  <2>5. "nop" \in Ops /\ "nop" \notin Terminators /\ "destroy" \in Ops /\ "destroy" \notin Terminators
    BY DEF Ops, Terminators
  <2>6. CASE e.moved
    <3>1. InstrOK(Op("nop", 0), c, fn) /\ Op("nop", 0).op = "nop"
      BY <2>5, OpOK
    <3>2. C(i) = Op("nop", 0)
      BY <2>2, <2>6
    <3> QED BY <2>5, <3>1, <3>2
  <2>7. CASE ~e.moved
    <3>1. InstrOK(Op("destroy", e.obj), c, fn) /\ Op("destroy", e.obj).op = "destroy"
      BY <2>3, <2>4, <2>5, <2>7, OpOK
    <3>2. C(i) = Op("destroy", e.obj)
      BY <2>2, <2>7
    <3> QED BY <2>5, <3>1, <3>2
  <2> QED BY <2>6, <2>7
<1>4. s = [i \in 1..(Len(entries) - n) |-> C(i)]
  BY <1>2 DEF CleanupCode
<1> HIDE DEF C
<1>5. Len(s) = Len(entries) - n /\ \A i \in 1..Len(s) : s[i] = C(i)
  BY <1>1, <1>4
<1> QED BY <1>2, <1>3, <1>5 DEF Plain, SeqOK

-----------------------------------------------------------------------------
(* A step of the generator, from where it starts. *)

LEMMA Start ==
  ASSUME VInv, open # <<>>
  PROVE  /\ \E F, D : /\ Held(open, F, D, code, {cur}, cleanups, scopes)
                      /\ Here.fn = F[Len(open)]
         /\ Top.kind = "dispatch" => ~Ends(Here.is)
         /\ TypeOK /\ code \in Seq(Block) /\ cur \in 1..Len(code) /\ Here = code[cur]
         /\ Here.fn \in Nat
         /\ open \in Seq(Frame) /\ Top = open[Len(open)] /\ Top \in Frame
         /\ cleanups \in Seq(Entry) /\ Len(cleanups) \in Nat
         /\ scopes \in Seq(Mark) /\ Len(scopes) \in Nat /\ scopes # <<>>
         /\ Len(code) \in Nat /\ Len(open) \in Nat /\ Len(open) >= 1
<1>1. /\ TypeOK /\ code \in Seq(Block) /\ cur \in 1..Len(code) /\ Here = code[cur]
      /\ open \in Seq(Frame) /\ Top = open[Len(open)] /\ Top \in Frame
      /\ cleanups \in Seq(Entry) /\ Len(cleanups) \in Nat
      /\ scopes \in Seq(Mark) /\ Len(scopes) \in Nat /\ scopes # <<>>
      /\ Len(code) \in Nat /\ Len(open) \in Nat /\ Len(open) >= 1
  <2>1. TypeOK /\ scopes # <<>>
    BY DEF VInv, IInv, ScopesOK
  <2>2. Top \in Frame /\ Len(open) \in Nat /\ Len(open) >= 1
    BY <2>1, TopType
  <2> QED BY <2>1, <2>2 DEF TypeOK, Here, Top
<1>2. Here.fn \in Nat
  <2>1. Here \in Block
    BY <1>1
  <2> QED BY <2>1 DEF Block
<1>3. PICK F, D :
        /\ Held(open, F, D, code, IF open = <<>> THEN {} ELSE {cur}, cleanups, scopes)
        /\ open # <<>> => /\ code[cur].fn = F[Len(open)]
                          /\ open[Len(open)].kind = "dispatch" => ~Ends(code[cur].is)
  BY DEF VInv, Settled
<1>4. Held(open, F, D, code, {cur}, cleanups, scopes)
  BY <1>3
<1>5. Here.fn = F[Len(open)] /\ (Top.kind = "dispatch" => ~Ends(Here.is))
  BY <1>1, <1>3
<1>6. \E G, E : /\ Held(open, G, E, code, {cur}, cleanups, scopes)
                /\ Here.fn = G[Len(open)]
  BY <1>4, <1>5, Zenon
<1> QED BY <1>1, <1>2, <1>5, <1>6

(* The objects a statement or a scope's end may name. *)
LEMMA TopObjects ==
  ASSUME NEW o, NEW F, NEW D, NEW c, NEW X, NEW cl, NEW sc, Held(o, F, D, c, X, cl, sc),
         o # <<>>, NEW k \in 1..Len(o), \A l \in (k + 1)..Len(o) : o[l].kind # "lambda",
         NEW i \in (o[k].objs + 1)..Len(cl)
  PROVE  DeclaredIn(c, cl[i].obj, F[Len(o)])
<1>1. DeclaredIn(c, cl[i].obj, F[k])
  BY DEF Held, EntriesOK
<1>2. Len(o) \in Nat
  BY DEF Held
<1>3. F[Len(o)] = F[k]
  BY <1>2, SameFunction DEF Held
<1> QED BY <1>1, <1>3

LEMMA ScopeExitOK ==
  ASSUME VInv, open # <<>>, Top.scoped
  PROVE  ScopeExit \in Seq(Instr) /\ Plain(ScopeExit) /\ SeqOK(ScopeExit, code, Here.fn)
<1>1. PICK F, D : /\ Held(open, F, D, code, {cur}, cleanups, scopes)
                  /\ Here.fn = F[Len(open)]
  BY Start
<1>2. PICK m, n, fn : m = scopes[Len(scopes)] /\ n = Len(cleanups) /\ fn = Here.fn
  OBVIOUS
<1>3. m.objs = Top.objs /\ Top.objs \in 0..n /\ m.defs \in 0..Len(defers)
  <2>1. MarksOK(open, D, scopes, n)
    BY <1>1, <1>2 DEF Held
  <2>2. m.objs = Top.objs /\ Top.objs \in 0..n
    BY <1>2, <2>1, Start, MarksTop
  <2>3. m \in Mark /\ Len(scopes) \in 1..Len(scopes)
    BY <1>2, Start
  <2>4. m.defs <= Len(defers) /\ Len(defers) \in Nat
    BY <1>2, <2>3 DEF VInv, IInv, ScopesOK, TypeOK
  <2>5. m.defs \in Nat
    BY <2>3 DEF Mark
  <2> QED BY <2>2, <2>4, <2>5
<1>4. \A i \in (m.objs + 1)..Len(cleanups) :
        cleanups[i].moved \/ DeclaredIn(code, cleanups[i].obj, fn)
  <2> SUFFICES ASSUME NEW i \in (m.objs + 1)..Len(cleanups)
               PROVE  DeclaredIn(code, cleanups[i].obj, fn)
    OBVIOUS
  <2>1. Len(open) \in 1..Len(open) /\ \A l \in (Len(open) + 1)..Len(open) : open[l].kind # "lambda"
    BY Start
  <2>2. i \in (open[Len(open)].objs + 1)..Len(cleanups)
    BY <1>3, Start
  <2> QED BY <1>1, <1>2, <2>1, <2>2, TopObjects
<1>5. PICK k \in 0..Len(cleanups) : k = m.objs
  BY <1>2, <1>3
<1>6. PICK u, v : u = DeferCode(m.defs) /\ v = CleanupCode(cleanups, m.objs)
  OBVIOUS
<1>7. u \in Seq(Instr) /\ Plain(u) /\ SeqOK(u, code, fn)
  BY <1>3, <1>6, Start, DeferCodeType, DeferCodeOK
<1>8. v \in Seq(Instr) /\ Plain(v) /\ SeqOK(v, code, fn)
  BY <1>4, <1>5, <1>6, Start, CleanupCodeType, CleanupCodeOK
<1>9. u \o v \in Seq(Instr) /\ Plain(u \o v) /\ SeqOK(u \o v, code, fn)
  BY <1>7, <1>8, ConcatType, PlainConcat, SeqOKConcat
<1> QED BY <1>2, <1>6, <1>9 DEF ScopeExit

(* The end of a body is added to a block that is open, or not at all. *)
LEMMA BodyEndGrows ==
  ASSUME VInv, open # <<>>, NEW tail \in Seq(Instr), TidySeq(tail), SeqOK(tail, code, Here.fn),
         NEW d, d = Emit(BodyEnd(tail))
  PROVE  \E is : /\ Grown(code, d, cur, is, <<>>)
                 /\ is = <<>> \/ (~Ends(Here.is) /\ TidySeq(is))
                 /\ SeqOK(is, d, Here.fn)
                 /\ Ends(tail) => Ends(d[cur].is)
<1>1. PICK s, fn : s = (IF Top.scoped THEN ScopeExit ELSE <<>>) \o tail /\ fn = Here.fn
  OBVIOUS
<1>2. s \in Seq(Instr) /\ TidySeq(s) /\ SeqOK(s, code, fn) /\ (Ends(tail) => Ends(s))
  <2>1. PICK u : u = IF Top.scoped THEN ScopeExit ELSE <<>>
    OBVIOUS
  <2>2. u \in Seq(Instr) /\ Plain(u) /\ SeqOK(u, code, fn)
    <3>1. CASE Top.scoped
      BY <1>1, <2>1, <3>1, ScopeExitOK
    <3>2. CASE ~Top.scoped
      BY <2>1, <3>2, PlainEmpty, EmptyType
    <3> QED BY <3>1, <3>2
  <2> QED BY <1>1, <2>1, <2>2, ConcatType, TidyConcat, SeqOKConcat, EndsConcat
<1>3. PICK is : is = IF Ends(Here.is) THEN <<>> ELSE s
  OBVIOUS
<1>4. is \in Seq(Instr) /\ is = BodyEnd(tail) /\ (is = <<>> \/ (~Ends(Here.is) /\ TidySeq(is)))
      /\ SeqOK(is, code, fn)
  <2>1. Terminated(Here) <=> Ends(Here.is)
    BY TerminatedIsEnds
  <2>2. BodyEnd(tail) = IF Terminated(Here) THEN <<>> ELSE s
    BY <1>1 DEF BodyEnd
  <2>3. CASE Ends(Here.is)
    BY <1>3, <2>1, <2>2, <2>3, PlainEmpty, EmptyType
  <2>4. CASE ~Ends(Here.is)
    BY <1>2, <1>3, <2>1, <2>2, <2>4
  <2> QED BY <2>3, <2>4
<1>5. Grown(code, d, cur, is, <<>>)
  <2>1. d = [code EXCEPT ![cur].is = @ \o is]
    BY <1>4 DEF Emit
  <2>2. code \in Seq(Block) /\ cur \in 1..Len(code) /\ is \in Seq(Instr)
    BY <1>4, Start
  <2>3. Grown(code, [code EXCEPT ![cur].is = @ \o is], cur, is, <<>>)
    BY <2>2, EmitGrows
  <2> QED BY <2>1, <2>3
<1>6. SeqOK(is, d, fn)
  BY <1>4, <1>5, SeqOKGrows
<1>7. Ends(tail) => Ends(d[cur].is)
  <2> SUFFICES ASSUME Ends(tail) PROVE Ends(d[cur].is)
    OBVIOUS
  <2>1. d[cur].is = code[cur].is \o is /\ code[cur].is \in Seq(Instr)
    BY <1>5, GrownFacts, SMTT(30)
  <2>2. PICK r \in Seq(Instr) : r = Here.is /\ d[cur].is = r \o is
    <3>1. Here.is = code[cur].is
      BY Start
    <3> QED BY <2>1, <3>1
  <2>3. CASE Ends(r)
    <3>1. is = <<>> /\ r \o <<>> = r
      BY <1>3, <2>2, <2>3
    <3> QED BY <2>2, <2>3, <3>1
  <2>4. CASE ~Ends(r)
    <3>1. is = s
      BY <1>3, <2>2, <2>4
    <3> QED BY <1>2, <2>2, <3>1, EndsConcat
  <2> QED BY <2>3, <2>4
<1> QED BY <1>1, <1>4, <1>5, <1>6, <1>7

-----------------------------------------------------------------------------
(* Statements without a body. *)

LEMMA EmitHere ==
  ASSUME VInv, open # <<>>, NEW is \in Seq(Instr)
  PROVE  Grown(code, Emit(is), cur, is, <<>>)
<1>1. code \in Seq(Block) /\ cur \in 1..Len(code)
  BY Start
<1>2. Grown(code, [code EXCEPT ![cur].is = @ \o is], cur, is, <<>>)
  BY <1>1, EmitGrows
<1> QED BY <1>2 DEF Emit

LEMMA SameTaken ==
  ASSUME VInv, open # <<>>
  PROVE  SameFrames(open, Taken) /\ Taken # <<>> /\ Len(Taken) = Len(open)
         /\ Taken[Len(open)].kind = Top.kind
<1> DEFINE g == [Top EXCEPT !.begun = TRUE]
<1>1. g \in Frame /\ Alike(g, Top) /\ g.objs = Top.objs
  <2>1. Top \in Frame
    BY Start
  <2> QED BY <2>1 DEF Frame, Alike
<1>2. Taken = [open EXCEPT ![Len(open)] = g]
  BY DEF Taken, Top
<1> HIDE DEF g
<1>3. /\ Taken \in Seq(Frame) /\ Len(Taken) = Len(open) /\ Taken # <<>>
      /\ Taken[Len(open)] = g
      /\ \A k \in 1..(Len(open) - 1) : Taken[k] = open[k]
  BY <1>1, <1>2, Start, StackReplace
<1>4. ASSUME NEW k \in 1..Len(open) PROVE Alike(Taken[k], open[k]) /\ Taken[k].objs = open[k].objs
  <2>1. k \in 1..(Len(open) - 1) \/ k = Len(open)
    BY Start
  <2>2. CASE k \in 1..(Len(open) - 1)
    BY <1>3, <2>2 DEF Alike
  <2>3. CASE k = Len(open)
    BY <1>1, <1>3, <2>3, Start
  <2> QED BY <2>1, <2>2, <2>3
<1>5. Taken[Len(open)].kind = Top.kind
  BY <1>1, <1>3 DEF Alike
<1> QED BY <1>3, <1>4, <1>5, Start DEF SameFrames

LEMMA SimpleV ==
  ASSUME VInv, open # <<>>, Top.kind # "dispatch", IInv', open' = Taken,
         cur' = cur, scopes' = scopes,
         NEW is, Grown(code, code', cur, is, <<>>),
         is = <<>> \/ (~Ends(Here.is) /\ TidySeq(is)), SeqOK(is, code', Here.fn),
         \/ /\ Len(cleanups') = Len(cleanups)
            /\ \A i \in 1..Len(cleanups) : cleanups'[i].obj = cleanups[i].obj
         \/ \E x \in Entry : cleanups' = Append(cleanups, x) /\ DeclaredIn(code', x.obj, Here.fn)
  PROVE  VInv'
<1>1. PICK F, D : /\ Held(open, F, D, code, {cur}, cleanups, scopes)
                  /\ Here.fn = F[Len(open)]
  BY Start
<1>2. PICK p, d, e, fn : p = open' /\ d = code' /\ e = cleanups' /\ fn = Here.fn
  OBVIOUS
<1>3. p # <<>> /\ Len(p) = Len(open) /\ p[Len(p)].kind # "dispatch" /\ SameFrames(open, p)
  BY <1>2, SameTaken
<1>4. Held(p, F, D, code, {cur}, cleanups, scopes)
  BY <1>1, <1>3, HeldSame
<1>5. Held(p, F, D, d, {cur}, cleanups, scopes) /\ d[cur].fn = fn
  <2>1. Grown(code, d, cur, is, <<>>) /\ SeqOK(is, d, code[cur].fn)
        /\ (is = <<>> \/ (~Ends(code[cur].is) /\ TidySeq(is)))
    BY <1>2, Start
  <2>2. Len(<<>>) = 0 /\ Len(d) = Len(code) /\ Len(code) \in Nat
    BY <2>1, EmptyType, GrownFacts
  <2>3. (Len(code) + 1)..Len(d) = {}
    BY <2>2
  <2>4. PICK X : X = {cur}
    OBVIOUS
  <2>5. Held(p, F, D, code, X, cleanups, scopes) /\ cur \in X
    BY <1>4, <2>4
  <2>6. \A a \in 1..Len(<<>>) : TidySeq(<<>>[a].is) /\ SeqOK(<<>>[a].is, d, <<>>[a].fn)
    BY <2>2
  <2>7. Held(p, F, D, d, X \cup (Len(code) + 1)..Len(d), cleanups, scopes)
    BY <2>1, <2>5, <2>6, HeldGrow
  <2>8. d[cur].fn = fn
    <3>1. cur \in 1..Len(code) /\ code[cur].fn = fn
      BY <1>2, Start
    <3> QED BY <2>1, <3>1, GrownFacts
  <2> QED BY <2>3, <2>4, <2>7, <2>8
<1>6. Held(p, F, D, d, {cur}, e, scopes)
  <2>1. e \in Seq(Entry)
    BY <1>2 DEF IInv, TypeOK
  <2>2. CASE /\ Len(cleanups') = Len(cleanups)
             /\ \A i \in 1..Len(cleanups) : cleanups'[i].obj = cleanups[i].obj
    <3>1. Len(e) = Len(cleanups) /\ \A i \in 1..Len(e) : e[i].obj = cleanups[i].obj
      BY <1>2, <2>2
    <3> QED BY <1>5, <2>1, <3>1, HeldMoved
  <2>3. CASE \E x \in Entry : cleanups' = Append(cleanups, x) /\ DeclaredIn(code', x.obj, Here.fn)
    <3>1. PICK x \in Entry : e = Append(cleanups, x) /\ DeclaredIn(d, x.obj, fn)
      BY <1>2, <2>3
    <3>2. DeclaredIn(d, x.obj, F[Len(p)])
      BY <1>1, <1>2, <1>3, <3>1
    <3> QED BY <1>3, <1>5, <3>1, <3>2, HeldMore
  <2> QED BY <2>2, <2>3
<1>7. Settled(p, d, cur, e, scopes)
  BY <1>1, <1>2, <1>3, <1>5, <1>6, SettledStay
<1>8. Settled(open', code', cur', cleanups', scopes')
  BY <1>2, <1>7
<1> QED BY <1>8 DEF VInv

(* A block with "new" in it declares the object. *)
LEMMA NewDeclares ==
  ASSUME NEW c, NEW d, NEW b, NEW is, NEW new, Grown(c, d, b, is, new),
         NEW n, NEW i \in 1..Len(is), is[i] = Op("new", n)
  PROVE  DeclaredIn(d, n, c[b].fn)
<1>1. PICK s : s = c[b].is
  OBVIOUS
<1>2. s \in Seq(Instr) /\ is \in Seq(Instr) /\ d[b].is = s \o is /\ b \in 1..Len(d) /\ b \in 1..Len(c)
  BY <1>1, GrownFacts
<1>3. Len(s) + i \in 1..Len(s \o is) /\ (s \o is)[Len(s) + i] = Op("new", n)
  BY <1>2, SeqParts
<1>4. Declares(d[b], n)
  BY <1>2, <1>3 DEF Declares
<1>5. d[b].fn = c[b].fn
  BY <1>2, GrownFacts
<1> QED BY <1>2, <1>4, <1>5 DEF DeclaredIn

(* A statement stands where the block is still open. *)
LEMMA TakeFacts ==
  ASSUME VInv, CanTake, ~Uses("DeadCode")
  PROVE  open # <<>> /\ ~Ends(Here.is) /\ Top.kind # "dispatch" /\ Place \in Nat
         /\ Rooted(open) /\ open \in Seq(Frame)
<1>1. open # <<>> /\ ~Terminated(Here) /\ Top.kind # "dispatch"
  BY DEF CanTake, HasRoom
<1>2. Place \in Nat
  BY CanTakeFacts DEF VInv
<1>3. Rooted(open) /\ open \in Seq(Frame)
  BY DEF VInv, IInv, ShapeOK, Rooted, TypeOK
<1> QED BY <1>1, <1>2, <1>3, TerminatedIsEnds

(* The objects of the current function, in the code as it is. *)
LEMMA ReachDeclared ==
  ASSUME VInv, CanTake, ~Uses("DeadCode"),
         NEW i \in (open[FunctionStart].objs + 1)..Len(cleanups)
  PROVE  DeclaredIn(code, cleanups[i].obj, Here.fn)
<1>1. open # <<>>
  BY TakeFacts
<1>2. PICK F, D : /\ Held(open, F, D, code, {cur}, cleanups, scopes)
                  /\ Here.fn = F[Len(open)]
  BY <1>1, Start
<1>3. PICK X, k : X = {cur} /\ k = FunctionStart
  OBVIOUS
<1>4. k \in 1..Len(open) /\ \A l \in (k + 1)..Len(open) : open[l].kind # "lambda"
  BY <1>3, TakeFacts, InnermostFunction DEF Nested
<1>5. Held(open, F, D, code, X, cleanups, scopes) /\ i \in (open[k].objs + 1)..Len(cleanups)
  BY <1>2, <1>3
<1>6. DeclaredIn(code, cleanups[i].obj, F[Len(open)])
  BY <1>1, <1>4, <1>5, TopObjects
<1> QED BY <1>2, <1>6

LEMMA InReachDeclared ==
  ASSUME VInv, CanTake, ~Uses("DeadCode"), NEW i \in InReach
  PROVE  /\ i \in 1..Len(cleanups) /\ DeclaredIn(code, cleanups[i].obj, Here.fn)
         /\ cleanups[i].obj \in Nat /\ Moved(i) \in Seq(Entry) /\ Len(Moved(i)) = Len(cleanups)
         /\ \A j \in 1..Len(cleanups) : Moved(i)[j].obj = cleanups[j].obj
         /\ \A j \in 1..Len(cleanups) : cleanups[j].moved => Moved(i)[j].moved
<1>1. open # <<>> /\ IInv
  BY TakeFacts DEF VInv
<1>2. /\ i \in 1..Len(cleanups) /\ cleanups[i] \in Entry /\ cleanups[i].obj \in Nat
      /\ Moved(i) \in Seq(Entry) /\ Len(Moved(i)) = Len(cleanups)
  BY <1>1, InReachType
<1>3. DeclaredIn(code, cleanups[i].obj, Here.fn)
  <2>1. FunctionStart \in 1..Len(open) /\ open \in Seq(Frame)
    BY <1>1, TakeFacts, InnermostFunction
  <2>2. open[FunctionStart] \in Frame
    BY <2>1
  <2>3. open[FunctionStart].objs \in Nat
    BY <2>2 DEF Frame
  <2>4. i > open[FunctionStart].objs
    BY DEF InReach
  <2>5. i \in (open[FunctionStart].objs + 1)..Len(cleanups)
    BY <1>2, <2>3, <2>4
  <2> QED BY <2>5, ReachDeclared
<1>4. Moved(i) = [cleanups EXCEPT ![i] = [cleanups[i] EXCEPT !.moved = TRUE]]
  BY DEF Moved
<1>5. cleanups \in Seq(Entry)
  BY <1>1, Start
<1>6. PICK e \in Entry : e = [cleanups[i] EXCEPT !.moved = TRUE] /\ e.obj = cleanups[i].obj /\ e.moved
  <2>1. PICK r \in Entry : r = cleanups[i]
    BY <1>2
  <2>2. [r EXCEPT !.moved = TRUE] \in Entry /\ [r EXCEPT !.moved = TRUE].obj = r.obj
        /\ [r EXCEPT !.moved = TRUE].moved
    BY DEF Entry
  <2> QED BY <2>1, <2>2
<1>7. \A j \in 1..Len(cleanups) : Moved(i)[j] = IF j = i THEN e ELSE cleanups[j]
  BY <1>2, <1>4, <1>5, <1>6
<1> QED BY <1>2, <1>3, <1>6, <1>7

(* The code of a return names no object of the functions around it. *)
LEMMA ReturnCodeOK ==
  ASSUME VInv, CanTake, ~Uses("DeadCode"), ~Uses("LambdaPast"), ReturnIsClean,
         NEW e \in Seq(Entry), Len(e) = Len(cleanups),
         \A j \in 1..Len(cleanups) : e[j].obj = cleanups[j].obj,
         \A j \in 1..Len(cleanups) : cleanups[j].moved => e[j].moved
  PROVE  /\ EmitCleanups(e) \in Seq(Instr) /\ Plain(EmitCleanups(e))
         /\ SeqOK(EmitCleanups(e), code, Here.fn)
<1>1. open # <<>> /\ TypeOK /\ Len(cleanups) \in Nat
  BY TakeFacts, Start
<1>2. 0 \in 0..Len(defers) /\ 0 \in 0..Len(e)
  BY <1>1 DEF TypeOK
<1>3. \A i \in (0 + 1)..Len(e) : e[i].moved \/ DeclaredIn(code, e[i].obj, Here.fn)
  <2> SUFFICES ASSUME NEW i \in 1..Len(cleanups)
               PROVE  e[i].moved \/ DeclaredIn(code, e[i].obj, Here.fn)
    OBVIOUS
  <2>1. FunctionStart \in 1..Len(open) /\ open \in Seq(Frame)
    BY <1>1, TakeFacts, InnermostFunction
  <2>2. open[FunctionStart] \in Frame
    BY <2>1
  <2>3. open[FunctionStart].objs \in Nat
    BY <2>2 DEF Frame
  <2>4. CASE i \in 1..open[FunctionStart].objs
    BY <2>4 DEF ReturnIsClean
  <2>5. CASE i \notin 1..open[FunctionStart].objs
    <3>1. i \in (open[FunctionStart].objs + 1)..Len(cleanups)
      BY <1>1, <2>3, <2>5
    <3>2. DeclaredIn(code, cleanups[i].obj, Here.fn)
      BY <3>1, ReachDeclared
    <3> QED BY <3>2
  <2> QED BY <2>4, <2>5
<1>4. PICK u, v, fn : u = DeferCode(0) /\ v = CleanupCode(e, 0) /\ fn = Here.fn
  OBVIOUS
<1>5. u \in Seq(Instr) /\ Plain(u) /\ SeqOK(u, code, fn)
  BY <1>1, <1>2, <1>4, DeferCodeType, DeferCodeOK
<1>6. v \in Seq(Instr) /\ Plain(v) /\ SeqOK(v, code, fn)
  BY <1>2, <1>3, <1>4, CleanupCodeType, CleanupCodeOK
<1>7. u \o v \in Seq(Instr) /\ Plain(u \o v) /\ SeqOK(u \o v, code, fn)
  BY <1>5, <1>6, ConcatType, PlainConcat, SeqOKConcat
<1> QED BY <1>4, <1>7 DEF EmitCleanups

(* Code that is right where it stands, and registers nothing. *)
LEMMA EmitV ==
  ASSUME VInv, CanTake, ~Uses("DeadCode"), IInv', open' = Taken, cur' = cur, scopes' = scopes,
         NEW is \in Seq(Instr), code' = Emit(is), TidySeq(is), SeqOK(is, code, Here.fn),
         Len(cleanups') = Len(cleanups),
         \A i \in 1..Len(cleanups) : cleanups'[i].obj = cleanups[i].obj
  PROVE  VInv'
<1>1. open # <<>> /\ ~Ends(Here.is) /\ Top.kind # "dispatch"
  BY TakeFacts
<1>2. PICK d, fn : d = code' /\ fn = Here.fn
  OBVIOUS
<1>3. Grown(code, d, cur, is, <<>>)
  BY <1>1, <1>2, EmitHere
<1>4. SeqOK(is, d, fn)
  BY <1>2, <1>3, SeqOKGrows
<1> QED BY <1>1, <1>2, <1>3, <1>4, SimpleV

LEMMA SimpleVInv ==
  ASSUME ~Uses("DeadCode"), ~Uses("LambdaPast"), VInv, Simple
  PROVE  VInv'
<1>1. IInv'
  BY SimpleIInv DEF VInv
<1>2. CASE VarDecl
  <2>1. /\ CanTake /\ code' = Emit(<<Op("new", Place)>>) /\ open' = Taken
        /\ cleanups' = Append(cleanups, [obj |-> Place, moved |-> FALSE])
        /\ cur' = cur /\ scopes' = scopes
    BY <1>2 DEF VarDecl
  <2>2. open # <<>> /\ ~Ends(Here.is) /\ Top.kind # "dispatch" /\ Place \in Nat
    BY <2>1, TakeFacts
  <2>3. PICK n, d, fn, is : n = Place /\ d = code' /\ fn = Here.fn /\ is = <<Op("new", n)>>
    OBVIOUS
  <2>4. "new" \in Ops /\ "new" \notin Terminators /\ "new" \notin {"destroy", "move"}
    BY DEF Ops, Terminators
  <2>5. PICK x : x = Op("new", n)
    OBVIOUS
  <2>6. x \in Instr /\ InstrOK(x, d, fn)
    <3>1. n \in Nat
      BY <2>2, <2>3
    <3> QED BY <2>4, <2>5, <3>1, OpOK
  <2>7. is \in Seq(Instr) /\ TidySeq(is) /\ SeqOK(is, d, fn)
    BY <2>3, <2>5, <2>6, OneOK
  <2>8. Grown(code, d, cur, is, <<>>)
    BY <2>1, <2>2, <2>3, <2>7, EmitHere
  <2>9. DeclaredIn(d, n, fn)
    <3>1. 1 \in 1..Len(is) /\ is[1] = Op("new", n)
      BY <2>3
    <3>2. DeclaredIn(d, n, code[cur].fn)
      BY <2>8, <3>1, NewDeclares
    <3> QED BY <2>2, <2>3, <3>2, Start
  <2>10. \E y \in Entry : cleanups' = Append(cleanups, y) /\ DeclaredIn(d, y.obj, fn)
    <3>1. PICK y : y = [obj |-> n, moved |-> FALSE]
      OBVIOUS
    <3>2. n \in Nat
      BY <2>2, <2>3
    <3>3. y \in Entry /\ y.obj = n
      BY <3>1, <3>2 DEF Entry
    <3> QED BY <2>1, <2>3, <2>9, <3>1, <3>3
  <2> QED BY <1>1, <2>1, <2>2, <2>3, <2>7, <2>8, <2>10, SimpleV
<1>3. CASE Defer
  <2>1. /\ CanTake /\ open' = Taken /\ cur' = cur /\ scopes' = scopes /\ cleanups' = cleanups
        /\ code' = IF Terminated(Here) THEN code ELSE Emit(<<Op("arm", Place)>>)
    BY <1>3 DEF Defer
  <2>2. ~Terminated(Here) /\ Place \in Nat
    BY <2>1, TakeFacts, TerminatedIsEnds
  <2>3. "arm" \in Ops /\ "arm" \notin Terminators /\ "arm" \notin {"destroy", "move"}
    BY DEF Ops, Terminators
  <2>4. PICK x, is, fn : x = Op("arm", Place) /\ is = <<x>> /\ fn = Here.fn
    OBVIOUS
  <2>5. x \in Instr /\ InstrOK(x, code, fn)
    BY <2>2, <2>3, <2>4, OpOK
  <2>6. is \in Seq(Instr) /\ TidySeq(is) /\ SeqOK(is, code, fn)
    BY <2>4, <2>5, OneOK
  <2>7. code' = Emit(is)
    BY <2>1, <2>2, <2>4
  <2> QED BY <1>1, <2>1, <2>4, <2>6, <2>7, EmitV
<1>4. CASE Move
  <2>1. PICK i \in InReach : /\ code' = Emit(<<Op("move", cleanups[i].obj)>>)
                             /\ cleanups' = Moved(i)
    BY <1>4 DEF Move
  <2>2. CanTake /\ open' = Taken /\ cur' = cur /\ scopes' = scopes
    BY <1>4 DEF Move
  <2>3. "move" \in Ops /\ "move" \notin Terminators
    BY DEF Ops, Terminators
  <2>4. PICK x, is, fn, n : x = Op("move", n) /\ is = <<x>> /\ fn = Here.fn /\ n = cleanups[i].obj
    OBVIOUS
  <2>5. n \in Nat /\ DeclaredIn(code, n, fn)
    BY <2>2, <2>4, InReachDeclared
  <2>6. x \in Instr /\ InstrOK(x, code, fn)
    BY <2>3, <2>4, <2>5, OpOK
  <2>7. is \in Seq(Instr) /\ TidySeq(is) /\ SeqOK(is, code, fn)
    BY <2>4, <2>6, OneOK
  <2>8. Len(cleanups') = Len(cleanups)
        /\ \A j \in 1..Len(cleanups) : cleanups'[j].obj = cleanups[j].obj
    BY <2>1, <2>2, InReachDeclared
  <2> QED BY <1>1, <2>1, <2>2, <2>4, <2>7, <2>8, EmitV
<1>5. CASE Delete
  <2>1. PICK i \in InReach : code' = Emit(<<Op("destroy", cleanups[i].obj)>>)
    BY <1>5 DEF Delete
  <2>2. CanTake /\ open' = Taken /\ cur' = cur /\ scopes' = scopes /\ cleanups' = cleanups
    BY <1>5 DEF Delete
  <2>3. "destroy" \in Ops /\ "destroy" \notin Terminators
    BY DEF Ops, Terminators
  <2>4. PICK x, is, fn, n : x = Op("destroy", n) /\ is = <<x>> /\ fn = Here.fn /\ n = cleanups[i].obj
    OBVIOUS
  <2>5. n \in Nat /\ DeclaredIn(code, n, fn)
    BY <2>2, <2>4, InReachDeclared
  <2>6. x \in Instr /\ InstrOK(x, code, fn)
    BY <2>3, <2>4, <2>5, OpOK
  <2>7. is \in Seq(Instr) /\ TidySeq(is) /\ SeqOK(is, code, fn)
    BY <2>4, <2>6, OneOK
  <2> QED BY <1>1, <2>1, <2>2, <2>4, <2>7, EmitV
<1>6. ASSUME NEW x, x = Op("ret", 0), NEW fn
      PROVE  x \in Instr /\ <<x>> \in Seq(Instr) /\ TidySeq(<<x>>) /\ SeqOK(<<x>>, code, fn)
  <2>1. "ret" \in Ops /\ "ret" \in Terminators /\ "ret" \notin {"destroy", "move"}
    BY DEF Ops, Terminators
  <2>2. x \in Instr /\ InstrOK(x, code, fn)
    BY <1>6, <2>1, OpOK
  <2> QED BY <2>2, OneOK
<1>7. CASE Return
  <2>1. /\ CanTake /\ ReturnIsClean /\ code' = Emit(EmitCleanups(cleanups) \o <<Op("ret", 0)>>)
        /\ open' = Taken /\ cur' = cur /\ scopes' = scopes /\ cleanups' = cleanups
    BY <1>7 DEF Return
  <2>2. PICK u, w, fn : u = EmitCleanups(cleanups) /\ w = <<Op("ret", 0)>> /\ fn = Here.fn
    OBVIOUS
  <2>3. cleanups \in Seq(Entry)
    BY <2>1, TakeFacts, Start
  <2>4. u \in Seq(Instr) /\ Plain(u) /\ SeqOK(u, code, fn)
    BY <2>1, <2>2, <2>3, ReturnCodeOK
  <2>5. w \in Seq(Instr) /\ TidySeq(w) /\ SeqOK(w, code, fn)
    BY <1>6, <2>2
  <2>6. PICK is : is = u \o w
    OBVIOUS
  <2>7. is \in Seq(Instr) /\ TidySeq(is) /\ SeqOK(is, code, fn)
    BY <2>4, <2>5, <2>6, ConcatType, TidyConcat, SeqOKConcat
  <2>8. code' = Emit(is)
    BY <2>1, <2>2, <2>6
  <2> QED BY <1>1, <2>1, <2>2, <2>7, <2>8, EmitV
<1>8. CASE ReturnMove
  <2>1. PICK i \in InReach :
          /\ code' = Emit(<<Op("move", cleanups[i].obj)>> \o EmitCleanups(Moved(i)) \o <<Op("ret", 0)>>)
          /\ cleanups' = Moved(i)
    BY <1>8 DEF ReturnMove
  <2>2. CanTake /\ ReturnIsClean /\ open' = Taken /\ cur' = cur /\ scopes' = scopes
    BY <1>8 DEF ReturnMove
  <2>3. "move" \in Ops /\ "move" \notin Terminators
    BY DEF Ops, Terminators
  <2>4. PICK x, m, u, w, fn, n : /\ x = Op("move", n) /\ m = <<x>> /\ fn = Here.fn /\ n = cleanups[i].obj
                                 /\ u = EmitCleanups(Moved(i)) /\ w = <<Op("ret", 0)>>
    OBVIOUS
  <2>5. n \in Nat /\ DeclaredIn(code, n, fn)
    BY <2>2, <2>4, InReachDeclared
  <2>6. x \in Instr /\ x.op = "move" /\ InstrOK(x, code, fn)
    BY <2>3, <2>4, <2>5, OpOK
  <2>7. m \in Seq(Instr) /\ Plain(m) /\ SeqOK(m, code, fn)
    BY <2>3, <2>4, <2>6, OneOK
  <2>8. u \in Seq(Instr) /\ Plain(u) /\ SeqOK(u, code, fn)
    <3>1. PICK e : e = Moved(i)
      OBVIOUS
    <3>2. /\ e \in Seq(Entry) /\ Len(e) = Len(cleanups)
          /\ \A j \in 1..Len(cleanups) : e[j].obj = cleanups[j].obj
          /\ \A j \in 1..Len(cleanups) : cleanups[j].moved => e[j].moved
      BY <2>2, <3>1, InReachDeclared
    <3> QED BY <2>2, <2>4, <3>1, <3>2, ReturnCodeOK
  <2>9. w \in Seq(Instr) /\ TidySeq(w) /\ SeqOK(w, code, fn)
    BY <1>6, <2>4
  <2>10. PICK is, v : is = v \o w /\ v = m \o u
    OBVIOUS
  <2>11. v \in Seq(Instr) /\ Plain(v) /\ SeqOK(v, code, fn)
    BY <2>7, <2>8, <2>10, ConcatType, PlainConcat, SeqOKConcat
  <2>12. is \in Seq(Instr) /\ TidySeq(is) /\ SeqOK(is, code, fn)
    BY <2>9, <2>10, <2>11, ConcatType, TidyConcat, SeqOKConcat
  <2>13. code' = Emit(is)
    BY <2>1, <2>4, <2>10
  <2>14. Len(cleanups') = Len(cleanups)
         /\ \A j \in 1..Len(cleanups) : cleanups'[j].obj = cleanups[j].obj
    BY <2>1, <2>2, InReachDeclared
  <2> QED BY <1>1, <2>2, <2>4, <2>12, <2>13, <2>14, EmitV
<1>9. CASE Call
  <2>1. /\ CanTake /\ open' = Taken /\ cur' = cur /\ scopes' = scopes /\ cleanups' = cleanups
        /\ code' = Emit(<<Op("call", 0)>>)
    BY <1>9 DEF Call
  <2>2. "call" \in Ops /\ "call" \notin Terminators /\ "call" \notin {"destroy", "move"}
    BY DEF Ops, Terminators
  <2>3. PICK x, is, fn : x = Op("call", 0) /\ is = <<x>> /\ fn = Here.fn
    OBVIOUS
  <2>4. x \in Instr /\ InstrOK(x, code, fn)
    BY <2>2, <2>3, OpOK
  <2>5. is \in Seq(Instr) /\ TidySeq(is) /\ SeqOK(is, code, fn)
    BY <2>3, <2>4, OneOK
  <2> QED BY <1>1, <2>1, <2>3, <2>5, EmitV
<1>10. CASE Throw
  <2>1. /\ CanTake /\ open' = Taken /\ cur' = cur /\ scopes' = scopes /\ cleanups' = cleanups
        /\ code' = Emit(<<Op("throw", 0), Op("unreachable", 0)>>)
    BY <1>10 DEF Throw
  <2>2. "throw" \in Ops /\ "throw" \notin Terminators /\ "throw" \notin {"destroy", "move"}
        /\ "unreachable" \in Ops /\ "unreachable" \in Terminators
        /\ "unreachable" \notin {"destroy", "move"}
    BY DEF Ops, Terminators
  <2>3. PICK x, z, is, fn : /\ x = Op("throw", 0) /\ z = Op("unreachable", 0)
                            /\ is = <<x, z>> /\ fn = Here.fn
    OBVIOUS
  <2>4. x \in Instr /\ InstrOK(x, code, fn) /\ x.op = "throw"
    BY <2>2, <2>3, OpOK
  <2>5. z \in Instr /\ InstrOK(z, code, fn) /\ z.op = "unreachable"
    BY <2>2, <2>3, OpOK
  <2>6. is \in Seq(Instr) /\ TidySeq(is) /\ SeqOK(is, code, fn)
    BY <2>2, <2>3, <2>4, <2>5, TwoOK
  <2> QED BY <1>1, <2>1, <2>3, <2>6, EmitV
<1>11. ASSUME NEW feature, NEW target \in Nat, NEW kinds, Jump(feature, target, kinds),
              target # 0 /\ Innermost(kinds) # 0 /\ CanTake => In(code, target, Here.fn)
       PROVE  VInv'
  <2>1. /\ CanTake /\ JumpIsClean(kinds, target)
        /\ open' = Taken /\ cur' = cur /\ scopes' = scopes /\ cleanups' = cleanups
        /\ code' = IF target = 0 THEN code ELSE Emit(<<Br(target)>>)
    BY <1>11 DEF Jump
  <2>2. CASE target = 0
    <3>1. code' = code
      BY <2>1, <2>2
    <3>2. open # <<>> /\ Top.kind # "dispatch"
      BY <2>1, TakeFacts
    <3>3. Grown(code, code', cur, <<>>, <<>>)
      BY <3>1, <3>2, Start, NothingGrows
    <3>4. SeqOK(<<>>, code', Here.fn)
      BY PlainEmpty
    <3>5. PICK is : is = <<>>
      OBVIOUS
    <3>6. Grown(code, code', cur, is, <<>>) /\ is = <<>> /\ SeqOK(is, code', Here.fn)
      BY <3>3, <3>4, <3>5
    <3> QED BY <1>1, <2>1, <3>2, <3>6, SimpleV
  <2>3. CASE target # 0
    <3>1. open \in Seq(Frame) /\ open # <<>> /\ Rooted(open)
      BY <2>1, TakeFacts
    <3>3. Innermost(kinds) # 0
      BY <2>1, <2>3 DEF JumpIsClean
    <3>4. PICK x, is, fn : x = Br(target) /\ is = <<x>> /\ fn = Here.fn
      OBVIOUS
    <3>5. In(code, target, fn)
      BY <1>11, <2>1, <2>3, <3>3, <3>4
    <3>6. x \in Instr /\ InstrOK(x, code, fn)
      BY <3>4, <3>5, BrOK
    <3>7. is \in Seq(Instr) /\ TidySeq(is) /\ SeqOK(is, code, fn)
      BY <3>4, <3>6, OneOK
    <3>8. code' = Emit(is)
      BY <2>1, <2>3, <3>4
    <3> QED BY <1>1, <2>1, <3>4, <3>7, <3>8, EmitV
  <2> QED BY <2>2, <2>3
<1>12. ASSUME CanTake, NEW kinds, Innermost(kinds) # 0
       PROVE  /\ kinds = {"loop", "case"} => In(code, breakTarget, Here.fn)
              /\ kinds = {"loop"} => In(code, continueTarget, Here.fn)
  <2>1. open \in Seq(Frame) /\ open # <<>> /\ Rooted(open) /\ Len(open) \in 1..Len(open)
    BY <1>12, TakeFacts
  <2>2. PICK F, D : /\ Held(open, F, D, code, {cur}, cleanups, scopes)
                    /\ Here.fn = F[Len(open)]
    BY <2>1, Start
  <2>3. PICK k : k = Innermost(kinds)
    OBVIOUS
  <2>4. k \in 1..Len(open) /\ open[k].kind \in kinds
        /\ \A j \in (k + 1)..Len(open) : open[j].kind \notin Nested
    BY <1>12, <2>1, <2>3, InnermostTarget
  <2>5. breakTarget = BreakIn(Top) /\ continueTarget = ContinueIn(Top) /\ Top = open[Len(open)]
    BY <2>1, TopFacts, Start DEF VInv
  <2>6. /\ open[k].kind \in {"loop", "case"} => In(code, BreakIn(open[Len(open)]), F[Len(open)])
        /\ open[k].kind = "loop" => In(code, ContinueIn(open[Len(open)]), F[Len(open)])
    BY <2>1, <2>2, <2>4 DEF Held, FnsOK
  <2> QED BY <2>2, <2>4, <2>5, <2>6
<1>13. CASE Break
  <2>1. breakTarget \in Nat /\ Jump("Break", breakTarget, {"loop", "case"})
    BY <1>13 DEF Break, VInv, IInv, TypeOK
  <2> QED BY <1>11, <1>12, <2>1
<1>14. CASE Continue
  <2>1. continueTarget \in Nat /\ Jump("Continue", continueTarget, {"loop"})
    BY <1>14 DEF Continue, VInv, IInv, TypeOK
  <2> QED BY <1>11, <1>12, <2>1
<1> QED BY <1>2, <1>3, <1>4, <1>5, <1>7, <1>8, <1>9, <1>10, <1>13, <1>14 DEF Simple

-----------------------------------------------------------------------------
(* Where a handler starts. *)

(* Three sequences in a row. *)
LEMMA ThreeInARow ==
  ASSUME NEW S, NEW s \in Seq(S), NEW t \in Seq(S), NEW u \in Seq(S)
  PROVE  (s \o t) \o u = s \o (t \o u)
  OBVIOUS

(* A statement adds is to the block in hand and makes the blocks of new. *)
Emits(is, new, d) == d = Emit(is) \o new

LEMMA GrownHere ==
  ASSUME NEW c, NEW d, NEW b, NEW is, NEW new, Grown(c, d, b, is, new)
  PROVE  /\ Len(c) \in Nat /\ Len(new) \in Nat /\ Len(d) = Len(c) + Len(new)
         /\ \A a \in 1..Len(new) : /\ Len(c) + a \in 1..Len(d) /\ d[Len(c) + a] = new[a]
                                   /\ Len(c) + a # b
         /\ Ends(is) => Ends(d[b].is)
         /\ b \in 1..Len(c) /\ d[b].fn = c[b].fn
<1>1. /\ Len(c) \in Nat /\ Len(new) \in Nat /\ Len(d) = Len(c) + Len(new)
      /\ b \in 1..Len(c) /\ d[b].is = c[b].is \o is
      /\ c[b].is \in Seq(Instr) /\ is \in Seq(Instr)
  BY GrownFacts
<1>2. \A a \in 1..Len(new) : /\ Len(c) + a \in 1..Len(d) /\ d[Len(c) + a] = new[a]
                             /\ Len(c) + a # b
  BY <1>1 DEF Grown
<1>3. Ends(is) => Ends(d[b].is)
  BY <1>1, EndsConcat
<1>4. d[b].fn = c[b].fn
  BY <1>1 DEF Grown
<1> QED BY <1>1, <1>2, <1>3, <1>4

LEMMA EmitsGrows ==
  ASSUME VInv, open # <<>>, NEW is \in Seq(Instr), NEW new \in Seq(Block),
         NEW d, Emits(is, new, d)
  PROVE  Grown(code, d, cur, is, new)
<1>1. PICK e : e = Emit(is)
  OBVIOUS
<1>2. Grown(code, e, cur, is, <<>>)
  BY <1>1, EmitHere
<1>3. Grown(code, e \o new, cur, is, new)
  BY <1>2, AppendGrows
<1> QED BY <1>1, <1>3 DEF Emits

(* What the code is then. *)
LEMMA CodeAndNew ==
  ASSUME VInv, open # <<>>, NEW is \in Seq(Instr), NEW new \in Seq(Block),
         NEW d, Emits(is, new, d)
  PROVE  /\ Grown(code, d, cur, is, new)
         /\ Len(code) \in Nat /\ Len(new) \in Nat /\ Len(d) = Len(code) + Len(new)
         /\ \A a \in 1..Len(new) : /\ Len(code) + a \in 1..Len(d) /\ d[Len(code) + a] = new[a]
                                   /\ Len(code) + a # cur
         /\ Ends(is) => Ends(d[cur].is)
         /\ cur \in 1..Len(code) /\ d[cur].fn = Here.fn
<1>1. Grown(code, d, cur, is, new) /\ Here = code[cur]
  BY EmitsGrows, Start
<1> QED BY <1>1, GrownHere

(* The code grows by what the verifier takes. *)
GrowsWell(d, is, new) ==
  /\ Grown(code, d, cur, is, new)
  /\ is = <<>> \/ (~Ends(Here.is) /\ TidySeq(is))
  /\ SeqOK(is, d, Here.fn)
  /\ \A a \in 1..Len(new) : TidySeq(new[a].is) /\ SeqOK(new[a].is, d, new[a].fn)

(* The frame f goes on top of q, the frames that were open. *)
Pushes(q, f) ==
  /\ SameFrames(open, q) /\ f \in Frame /\ open' = Append(q, f) /\ f.objs = Len(cleanups)
  /\ f.kind # "dispatch" /\ (Top.kind = "dispatch" => f.kind = "catch")
  /\ cleanups' = cleanups /\ scopes' = scopes \o Scope(f.scoped)

(* Of the blocks X, one is in hand, the body of f will go on with some, and *)
(* the others have ended.                                                   *)
Deals(f, d, X, b) ==
  /\ Apart(f) /\ Pend(f) \subseteq X /\ (\A a \in Pend(f) : ~Ends(d[a].is))
  /\ b \in X /\ b \notin Pend(f)
  /\ \A a \in X : a = b \/ a \in Pend(f) \/ Ends(d[a].is)

(* A body is opened: the general case. *)
LEMMA OpenV ==
  ASSUME VInv, open # <<>>, IInv', NEW d, d = code', NEW is, NEW new, GrowsWell(d, is, new),
         NEW q, NEW f, Pushes(q, f), NEW y, FitsFns(f, Top, Here.fn, y, d),
         NEW X, X = {cur} \cup (Len(code) + 1)..Len(d),
         NEW b, b = cur', Deals(f, d, X, b), d[b].fn = y
  PROVE  VInv'
<1> USE DEF GrowsWell, Pushes, Deals
<1>1. PICK F, D : /\ Held(open, F, D, code, {cur}, cleanups, scopes)
                  /\ Here.fn = F[Len(open)]
  BY Start
<1>2. Held(q, F, D, code, {cur}, cleanups, scopes)
  BY <1>1, HeldSame
<1>3. Held(q, F, D, d, X, cleanups, scopes)
  <2>1. Here = code[cur]
    BY Start
  <2>2. PICK Y : Y = {cur} /\ cur \in Y
    OBVIOUS
  <2>3. Held(q, F, D, code, Y, cleanups, scopes)
    BY <1>2, <2>2
  <2>4. /\ is = <<>> \/ (~Ends(code[cur].is) /\ TidySeq(is))
        /\ SeqOK(is, d, code[cur].fn)
    BY <2>1
  <2>5. Held(q, F, D, d, Y \cup (Len(code) + 1)..Len(d), cleanups, scopes)
    BY <2>2, <2>3, <2>4, HeldGrow
  <2> QED BY <2>2, <2>5
<1>4. /\ q \in Seq(Frame) /\ Len(q) = Len(open) /\ q # <<>>
      /\ q[Len(q)].kind = Top.kind /\ BreakIn(q[Len(q)]) = BreakIn(Top)
      /\ ContinueIn(q[Len(q)]) = ContinueIn(Top)
  <2>1. q \in Seq(Frame) /\ Len(q) = Len(open) /\ Len(open) \in 1..Len(open)
        /\ open \in Seq(Frame) /\ Top = open[Len(open)]
    BY Start DEF SameFrames
  <2>2. Alike(q[Len(q)], Top)
    BY <2>1 DEF SameFrames
  <2> QED BY <2>1, <2>2 DEF Alike, BreakIn, ContinueIn
<1>5. PICK top, x : top = q[Len(q)] /\ x = F[Len(q)]
  OBVIOUS
<1>6. FitsFns(f, top, x, y, d)
  BY <1>1, <1>4, <1>5 DEF FitsFns
<1>7. scopes \in Seq(Mark) /\ cleanups \in Seq(Entry)
      /\ TypeOK
  BY Start
<1>8. PICK m \in Mark : m.objs = Len(cleanups) /\ m = EmptyMark
  <2>1. Len(cleanups) \in Nat /\ Len(defers) \in Nat
    BY <1>7 DEF TypeOK
  <2>2. EmptyMark \in Mark /\ EmptyMark.objs = Len(cleanups)
    BY <2>1 DEF EmptyMark, Mark
  <2> QED BY <2>2
<1>9. PICK t : t = IF f.scoped THEN Append(scopes, m) ELSE scopes
  OBVIOUS
<1>10. t = scopes'
  <2>1. scopes \o <<m>> = Append(scopes, m) /\ scopes \o <<>> = scopes
    BY <1>7
  <2> QED BY <1>8, <1>9, <2>1 DEF Scope
<1>11. top.kind = "dispatch" => f.kind = "catch"
  BY <1>4, <1>5
<1>12. FitsFns(f, q[Len(q)], F[Len(q)], y, d)
       /\ (q[Len(q)].kind = "dispatch" => f.kind = "catch")
  BY <1>5, <1>6, <1>11
<1>13. Settled(Append(q, f), d, b, cleanups, t)
  BY <1>3, <1>4, <1>7, <1>8, <1>9, <1>12, SettledOpen
<1>14. Settled(open', code', cur', cleanups', scopes')
  BY <1>10, <1>13
<1> QED BY <1>14 DEF VInv

(* The body belongs to the function around it. *)
LEMMA Fits ==
  ASSUME VInv, open # <<>>, NEW f \in Frame, f.kind \notin {"function", "lambda"},
         f.brk = breakTarget, f.cont = continueTarget,
         NEW c, NEW x \in Nat, \A b \in Mine(f) : In(c, b, x)
  PROVE  FitsFns(f, Top, x, x, c)
<1>1. breakTarget = BreakIn(Top) /\ continueTarget = ContinueIn(Top)
  BY TopFacts DEF VInv
<1>2. f.kind = "loop" => f.alt \in Mine(f) /\ f.next \in Mine(f)
  BY DEF Mine
<1>3. f.kind = "case" => f.next \in Mine(f)
  BY DEF Mine
<1>4. CASE f.kind = "loop"
  BY <1>2, <1>4 DEF FitsFns, BreakIn, ContinueIn
<1>5. CASE f.kind = "case"
  BY <1>1, <1>3, <1>5 DEF FitsFns, BreakIn, ContinueIn
<1>6. CASE f.kind \notin {"loop", "case"}
  <2>1. BreakIn(f) = f.brk /\ ContinueIn(f) = f.cont
    BY <1>6 DEF BreakIn, ContinueIn
  <2> QED BY <1>1, <1>6, <2>1 DEF FitsFns
<1> QED BY <1>4, <1>5, <1>6

(* A statement ends the block in hand with is and makes the blocks of new, *)
(* all as the verifier wants them.                                         *)
Branches(is, new, d) ==
  /\ is \in Seq(Instr) /\ TidySeq(is) /\ Ends(is) /\ new \in Seq(Block)
  /\ Emits(is, new, d) /\ SeqOK(is, d, Here.fn)
  /\ \A a \in 1..Len(new) :
       new[a].fn = Here.fn /\ TidySeq(new[a].is) /\ SeqOK(new[a].is, d, Here.fn)

(* The blocks of new are dealt out to the body of f. *)
DealsNew(f, new, b) ==
  LET Fresh == (Len(code) + 1)..(Len(code) + Len(new))
  IN  /\ \A a \in Mine(f) : a \in Fresh \/ In(code, a, Here.fn)
      /\ Apart(f) /\ Pend(f) \subseteq Fresh /\ b \in Fresh /\ b \notin Pend(f)
      /\ \A a \in 1..Len(new) :
           /\ Len(code) + a \in Pend(f) => ~Ends(new[a].is)
           /\ Len(code) + a = b \/ Len(code) + a \in Pend(f) \/ Ends(new[a].is)

(* A body is opened in a block of its own, in the same function. *)
LEMMA OpenHereV ==
  ASSUME VInv, open # <<>>, IInv', ~Ends(Here.is),
         NEW is, NEW new, NEW d, d = code', Branches(is, new, d),
         NEW q, NEW f, Pushes(q, f), f.kind \notin {"function", "lambda"},
         f.brk = breakTarget, f.cont = continueTarget, DealsNew(f, new, cur')
  PROVE  VInv'
<1> USE DEF Branches, DealsNew, Pushes
<1>1. /\ Grown(code, d, cur, is, new)
      /\ Len(code) \in Nat /\ Len(new) \in Nat /\ Len(d) = Len(code) + Len(new)
      /\ \A a \in 1..Len(new) : /\ Len(code) + a \in 1..Len(d) /\ d[Len(code) + a] = new[a]
                                /\ Len(code) + a # cur
      /\ Ends(d[cur].is)
      /\ cur \in 1..Len(code) /\ d[cur].fn = Here.fn
  <2>1. Emits(is, new, d) /\ is \in Seq(Instr) /\ new \in Seq(Block) /\ Ends(is)
    OBVIOUS
  <2> HIDE DEF Branches, DealsNew, Pushes
  <2> QED BY <2>1, CodeAndNew
<1>2. PICK X, b, y, n : /\ X = {cur} \cup (Len(code) + 1)..Len(d) /\ b = cur' /\ y = Here.fn
                        /\ n = Len(code)
  OBVIOUS
<1>3. y \in Nat
  BY <1>2, Start
<1>4. ASSUME NEW a \in (n + 1)..Len(d)
      PROVE  /\ a \in 1..Len(d) /\ d[a].fn = y /\ (a \in Pend(f) => ~Ends(d[a].is))
             /\ (a = b \/ a \in Pend(f) \/ Ends(d[a].is))
  <2>1. PICK e \in 1..Len(new) : a = n + e
    <3>1. a - n \in 1..Len(new) /\ a = n + (a - n)
      BY <1>1, <1>2
    <3> QED BY <3>1
  <2> QED BY <1>1, <1>2, <2>1
<1>5. \A a \in Mine(f) : In(d, a, y)
  <2> SUFFICES ASSUME NEW a \in Mine(f) PROVE In(d, a, y)
    OBVIOUS
  <2>1. CASE a \in (n + 1)..Len(d)
    BY <1>4, <2>1 DEF In
  <2>2. CASE In(code, a, y)
    BY <1>1, <2>2, InGrows
  <2> QED BY <1>1, <1>2, <2>1, <2>2
<1>6. FitsFns(f, Top, y, y, d)
  BY <1>3, <1>5, Fits
<1>7. b \in X /\ d[b].fn = y /\ b \notin Pend(f) /\ b = cur'
  BY <1>1, <1>2, <1>4
<1>8. Pend(f) \subseteq X /\ \A a \in Pend(f) : ~Ends(d[a].is)
  BY <1>1, <1>2, <1>4
<1>9. \A a \in X : a = b \/ a \in Pend(f) \/ Ends(d[a].is)
  BY <1>1, <1>2, <1>4
<1>10. GrowsWell(d, is, new)
  BY <1>1 DEF GrowsWell
<1>11. Pushes(q, f)
  OBVIOUS
<1>12. Deals(f, d, X, b)
  BY <1>7, <1>8, <1>9 DEF Deals
<1>13. FitsFns(f, Top, Here.fn, y, d)
  BY <1>2, <1>6
<1> HIDE DEF Branches, DealsNew, Pushes
<1> QED BY <1>2, <1>7, <1>10, <1>11, <1>12, <1>13, OpenV

(* The blocks made here belong to the function in hand and are empty. *)
LEMMA EmptyBlocks ==
  ASSUME VInv, open # <<>>, NEW k \in Nat
  PROVE  /\ NB(k) \in Seq(Block) /\ Len(NB(k)) = k
         /\ \A a \in 1..k : NB(k)[a] = BlockHere
         /\ BlockHere \in Block /\ BlockHere.fn = Here.fn /\ BlockHere.is = <<>>
<1>1. TypeOK
  BY Start
<1>2. NB(k) \in Seq(Block) /\ Len(NB(k)) = k /\ BlockHere \in Block
  BY <1>1, BlockType
<1>3. \A a \in 1..k : NB(k)[a] = BlockHere
  BY DEF NB
<1>4. BlockHere.fn = Here.fn /\ BlockHere.is = <<>>
  BY DEF BlockHere, NewBlock
<1> QED BY <1>2, <1>3, <1>4

(* A block made here may be branched to from here. *)
LEMMA FreshIn ==
  ASSUME VInv, open # <<>>, NEW is \in Seq(Instr), NEW new \in Seq(Block),
         NEW d, Emits(is, new, d), NEW a \in 1..Len(new), new[a].fn = Here.fn
  PROVE  In(d, Len(code) + a, Here.fn)
  BY CodeAndNew DEF In

(* A new frame for the top. *)
LEMMA NewOnTop ==
  ASSUME VInv, open # <<>>, NEW kind \in Kinds, NEW scoped \in BOOLEAN,
         NEW next \in Nat, NEW alt \in Nat, NEW f, f = NewFrame(kind, scoped, next, alt)
  PROVE  /\ f \in Frame
         /\ f.kind = kind /\ f.scoped = scoped /\ f.next = next /\ f.alt = alt
         /\ f.brk = breakTarget /\ f.cont = continueTarget /\ f.objs = Len(cleanups)
<1>1. TypeOK
  BY Start
<1>2. f.objs = Len(cleanups)
  BY DEF NewFrame
<1> QED BY <1>1, <1>2, FrameType

(* A statement that opens a body. *)
LEMMA OpenFacts ==
  ASSUME VInv, CanOpen, ~Uses("DeadCode")
  PROVE  /\ open # <<>> /\ ~Ends(Here.is) /\ Top.kind # "dispatch"
         /\ SameFrames(open, Taken) /\ Len(code) \in Nat /\ Here.fn \in Nat
         /\ Place \in Nat
<1>1. CanTake
  BY DEF CanOpen
<1> QED BY <1>1, TakeFacts, SameTaken, Start

(* generateBlock. *)
LEMMA OpenBlockV ==
  ASSUME VInv, ~Uses("DeadCode"), OpenBlock
  PROVE  VInv'
<1>1. IInv'
  BY OpenBlockIInv DEF VInv
<1>2. /\ CanOpen /\ scopes' = scopes \o Scope(TRUE)
      /\ open' = Append(Taken, NewFrame("block", TRUE, 0, 0))
      /\ code' = code /\ cur' = cur /\ cleanups' = cleanups
  BY DEF OpenBlock
<1>3. open # <<>> /\ Top.kind # "dispatch" /\ SameFrames(open, Taken) /\ Len(code) \in Nat
  BY <1>2, OpenFacts
<1>4. PICK f, d, X, y, b : /\ f = NewFrame("block", TRUE, 0, 0) /\ d = code' /\ y = Here.fn
                           /\ X = {cur} \cup (Len(code) + 1)..Len(d) /\ b = cur'
  OBVIOUS
<1>5. /\ f \in Frame /\ f.kind = "block" /\ f.scoped = TRUE
      /\ f.brk = breakTarget /\ f.cont = continueTarget /\ f.objs = Len(cleanups)
  <2>1. "block" \in Kinds /\ 0 \in Nat
    BY DEF Kinds
  <2>2. PICK scoped \in BOOLEAN : scoped = TRUE
    OBVIOUS
  <2>3. f = NewFrame("block", scoped, 0, 0) /\ open # <<>>
    BY <1>3, <1>4, <2>2
  <2>4. f \in Frame /\ f.kind = "block" /\ f.scoped = scoped
        /\ f.brk = breakTarget /\ f.cont = continueTarget /\ f.objs = Len(cleanups)
    BY <2>1, <2>3, NewOnTop
  <2> QED BY <2>2, <2>4
<1>6. Pushes(Taken, f)
  BY <1>2, <1>3, <1>4, <1>5 DEF Pushes
<1>7. Pend(f) = {} /\ Mine(f) = {} /\ Apart(f)
  BY <1>5 DEF Pend, Mine, Apart
<1>8. PICK e, n : e = <<>> /\ n = <<>>
  OBVIOUS
<1>9. GrowsWell(d, e, n)
  <2>1. Grown(code, d, cur, e, n)
    BY <1>2, <1>3, <1>4, <1>8, Start, NothingGrows
  <2>2. SeqOK(e, d, Here.fn) /\ Len(n) = 0
    BY <1>8, PlainEmpty
  <2> QED BY <1>8, <2>1, <2>2 DEF GrowsWell
<1>10. y \in Nat
  BY <1>3, <1>4, Start
<1>11. FitsFns(f, Top, Here.fn, y, d)
  BY <1>3, <1>4, <1>5, <1>7, <1>10, Fits
<1>12. Deals(f, d, X, b) /\ d[b].fn = y
  <2>1. X = {cur} /\ b = cur /\ d = code
    BY <1>2, <1>3, <1>4
  <2>2. d[b].fn = y
    BY <1>3, <1>4, <2>1, Start
  <2> QED BY <1>7, <2>1, <2>2 DEF Deals
<1> QED BY <1>1, <1>3, <1>4, <1>6, <1>9, <1>11, <1>12, OpenV

(* generateIf. *)
LEMMA OpenIfV ==
  ASSUME VInv, ~Uses("DeadCode"), OpenIf
  PROVE  VInv'
<1>1. IInv'
  BY OpenIfIInv DEF VInv
<1>2. CanOpen /\ cleanups' = cleanups
  BY DEF OpenIf
<1>3. PICK hasElse \in BOOLEAN, scoped \in BOOLEAN :
        LET then == Len(code) + 1
            merge == Len(code) + 2
            else == IF hasElse THEN Len(code) + 3 ELSE 0
        IN  /\ code' = Emit(<<Branch("condbr", 0, then, IF hasElse THEN else ELSE merge)>>)
                       \o NB(IF hasElse THEN 3 ELSE 2)
            /\ cur' = then
            /\ scopes' = scopes \o Scope(scoped)
            /\ open' = Append(Taken, NewFrame("then", scoped, merge, else))
  BY DEF OpenIf, BodyScoping
<1>4. /\ open # <<>> /\ ~Ends(Here.is) /\ Top.kind # "dispatch" /\ SameFrames(open, Taken)
      /\ Len(code) \in Nat /\ Here.fn \in Nat
  BY <1>2, OpenFacts
<1>5. PICK n, k, alt, no : /\ n = Len(code) /\ k = (IF hasElse THEN 3 ELSE 2)
                           /\ alt = (IF hasElse THEN Len(code) + 3 ELSE 0)
                           /\ no = (IF hasElse THEN alt ELSE n + 2)
  OBVIOUS
<1>6. PICK x, is, new, d, f : /\ x = Branch("condbr", 0, n + 1, no) /\ is = <<x>> /\ new = NB(k)
                              /\ d = code' /\ f = NewFrame("then", scoped, n + 2, alt)
  OBVIOUS
<1>7. n \in Nat /\ k \in {2, 3} /\ k \in Nat /\ alt \in Nat /\ no \in {n + 2, n + k} /\ no \in Nat
      /\ alt \in {0, n + k} /\ (k = 2 => alt = 0) /\ (k = 3 => alt = n + 3)
      /\ n + 1 \in Nat /\ n + 2 \in Nat
  BY <1>4, <1>5
<1>8. /\ Emits(is, new, d) /\ cur' = n + 1 /\ scopes' = scopes \o Scope(scoped)
      /\ open' = Append(Taken, f)
  BY <1>3, <1>5, <1>6 DEF Emits
<1>9. /\ f \in Frame /\ f.kind = "then" /\ f.scoped = scoped /\ f.next = n + 2 /\ f.alt = alt
      /\ f.brk = breakTarget /\ f.cont = continueTarget /\ f.objs = Len(cleanups)
  <2>1. "then" \in Kinds
    BY DEF Kinds
  <2>2. PICK m : m = n + 2 /\ m \in Nat
    BY <1>7
  <2>3. f = NewFrame("then", scoped, m, alt) /\ alt \in Nat /\ open # <<>>
    BY <1>4, <1>6, <1>7, <2>2
  <2> QED BY <2>1, <2>2, <2>3, NewOnTop
<1>10. Pushes(Taken, f)
  BY <1>2, <1>4, <1>8, <1>9 DEF Pushes
<1>11. /\ new \in Seq(Block) /\ Len(new) = k
       /\ \A a \in 1..k : new[a].fn = Here.fn /\ new[a].is = <<>>
  BY <1>4, <1>6, <1>7, EmptyBlocks
<1>12. x \in Instr /\ is \in Seq(Instr)
  <2>1. "condbr" \in Ops /\ 0 \in Nat
    BY DEF Ops, Terminators
  <2> QED BY <1>6, <1>7, <2>1, BranchType
<1>13. \A a \in 1..k : In(d, n + a, Here.fn)
  BY <1>4, <1>5, <1>8, <1>11, <1>12, FreshIn
<1>14. InstrOK(x, d, Here.fn) /\ x.op \in Terminators
  <2>1. In(d, n + 1, Here.fn) /\ In(d, no, Here.fn)
    BY <1>7, <1>13
  <2>2. 0 \in Nat /\ "condbr" \in {"br", "condbr", "try", "match"}
    OBVIOUS
  <2> QED BY <1>6, <1>7, <2>1, <2>2, BranchOK
<1>15. Branches(is, new, d)
  <2>1. TidySeq(is) /\ SeqOK(is, d, Here.fn) /\ Ends(is)
    BY <1>6, <1>12, <1>14, OneOK
  <2> QED BY <1>8, <1>11, <1>12, <2>1, PlainEmpty DEF Branches
<1>16. DealsNew(f, new, cur')
  <2>1. Pend(f) = {n + 2, alt} \ {0} /\ Mine(f) = {n + 2, alt} \ {0} /\ Apart(f)
    BY <1>7, <1>9 DEF Pend, Mine, Apart
  <2>2. \A a \in 1..k : ~Ends(new[a].is)
    BY <1>11, PlainEmpty
  <2>3. Mine(f) \subseteq (n + 1)..(n + k) /\ n + 1 \in (n + 1)..(n + k) /\ n + 1 \notin Pend(f)
    BY <1>7, <2>1
  <2>4. \A a \in 1..k : n + a = n + 1 \/ n + a \in Pend(f)
    BY <1>7, <2>1
  <2> QED BY <1>5, <1>8, <1>11, <2>1, <2>2, <2>3, <2>4 DEF DealsNew
<1> QED BY <1>1, <1>4, <1>6, <1>9, <1>10, <1>15, <1>16, OpenHereV

(* A block that has its code, or its place in a try, and two empty ones. *)
LEMMA OneAndTwo ==
  ASSUME VInv, open # <<>>, NEW B \in Block, B.fn = Here.fn, NEW new, new = <<B>> \o NB(2)
  PROVE  /\ new \in Seq(Block) /\ Len(new) = 3
         /\ new[1] = B /\ new[2] = BlockHere /\ new[3] = BlockHere
         /\ \A a \in 1..3 : new[a].fn = Here.fn
         /\ BlockHere.is = <<>>
<1>1. /\ NB(2) \in Seq(Block) /\ Len(NB(2)) = 2 /\ NB(2)[1] = BlockHere /\ NB(2)[2] = BlockHere
      /\ BlockHere.fn = Here.fn /\ BlockHere.is = <<>>
  <2>1. PICK k \in Nat : k = 2
    OBVIOUS
  <2>2. /\ NB(k) \in Seq(Block) /\ Len(NB(k)) = k
        /\ \A a \in 1..k : NB(k)[a] = BlockHere
        /\ BlockHere.fn = Here.fn /\ BlockHere.is = <<>>
    BY EmptyBlocks
  <2> QED BY <2>1, <2>2
<1>2. PICK s, t : s = <<B>> /\ t = NB(2)
  OBVIOUS
<1>3. s \in Seq(Block) /\ Len(s) = 1 /\ s[1] = B
  BY <1>2
<1>4. /\ s \o t \in Seq(Block) /\ Len(s \o t) = 3
      /\ (s \o t)[1] = B /\ (s \o t)[2] = t[1] /\ (s \o t)[3] = t[2]
  BY <1>1, <1>2, <1>3
<1>5. /\ new \in Seq(Block) /\ Len(new) = 3
      /\ new[1] = B /\ new[2] = BlockHere /\ new[3] = BlockHere
  BY <1>1, <1>2, <1>4
<1>6. \A a \in 1..3 : a = 1 \/ a = 2 \/ a = 3
  OBVIOUS
<1> QED BY <1>1, <1>5, <1>6

(* generateWhile, generateDoWhile. *)
LEMMA OpenLoopV ==
  ASSUME VInv, ~Uses("DeadCode"), NEW feature, NEW test, OpenLoop(feature, test)
  PROVE  VInv'
<1>1. IInv'
  BY OpenLoopIInv DEF VInv
<1>2. CanOpen /\ cleanups' = cleanups
  BY DEF OpenLoop
<1>3. PICK scoped \in BOOLEAN :
        LET cond == Len(code) + 1
            body == Len(code) + 2
            exit == Len(code) + 3
        IN  /\ code' = Emit(<<Br(IF test = "first" THEN cond ELSE body)>>)
                       \o <<[BlockHere EXCEPT !.is = <<Branch("condbr", 0, body, exit)>>]>>
                       \o NB(2)
            /\ cur' = body
            /\ scopes' = scopes \o Scope(scoped)
            /\ open' = Append(Taken, NewFrame("loop", scoped, cond, exit))
  BY DEF OpenLoop, BodyScoping
<1>4. /\ open # <<>> /\ ~Ends(Here.is) /\ Top.kind # "dispatch" /\ SameFrames(open, Taken)
      /\ Len(code) \in Nat /\ Here.fn \in Nat
  BY <1>2, OpenFacts
<1>5. PICK n, n1, n2, n3, to : /\ n = Len(code) /\ n1 = n + 1 /\ n2 = n + 2 /\ n3 = n + 3
                               /\ to = (IF test = "first" THEN n1 ELSE n2)
  OBVIOUS
<1>6. n \in Nat /\ n1 \in Nat /\ n2 \in Nat /\ n3 \in Nat /\ to \in Nat /\ to \in {n1, n2}
  BY <1>4, <1>5
<1>7. PICK x, is, z, B, new, d, f :
        /\ x = Br(to) /\ is = <<x>> /\ z = Branch("condbr", 0, n2, n3)
        /\ B = [BlockHere EXCEPT !.is = <<z>>] /\ new = <<B>> \o NB(2)
        /\ d = code' /\ f = NewFrame("loop", scoped, n1, n3)
  OBVIOUS
<1>8. z \in Instr /\ x \in Instr /\ is \in Seq(Instr) /\ <<z>> \in Seq(Instr)
  <2>1. "condbr" \in Ops /\ 0 \in Nat
    BY DEF Ops, Terminators
  <2> QED BY <1>6, <1>7, <2>1, BranchType, BrType
<1>9. B \in Block /\ B.fn = Here.fn /\ B.is = <<z>>
  <2>1. BlockHere \in Block /\ BlockHere.fn = Here.fn
    BY <1>4, EmptyBlocks
  <2> QED BY <1>7, <1>8, <2>1 DEF Block
<1>10. /\ new \in Seq(Block) /\ Len(new) = 3
       /\ new[1] = B /\ new[2] = BlockHere /\ new[3] = BlockHere
       /\ \A a \in 1..3 : new[a].fn = Here.fn
       /\ BlockHere.is = <<>>
  <2>1. new = <<B>> \o NB(2)
    BY <1>7
  <2> QED BY <1>4, <1>9, <2>1, OneAndTwo
<1>11. Emits(is, new, d)
  <2>1. PICK e, s, t : e = Emit(is) /\ s = <<B>> /\ t = NB(2)
    OBVIOUS
  <2>2. e \in Seq(Block) /\ s \in Seq(Block) /\ t \in Seq(Block)
    <3>1. TypeOK /\ 2 \in Nat
      BY <1>4, Start
    <3> QED BY <1>4, <1>8, <1>9, <2>1, <3>1, EmitType, EmptyBlocks
  <2>3. d = (e \o s) \o t
    BY <1>3, <1>5, <1>7, <2>1
  <2>4. d = e \o (s \o t)
    <3>1. (e \o s) \o t = e \o (s \o t)
      BY <2>2, ThreeInARow
    <3> QED BY <2>3, <3>1
  <2> QED BY <1>7, <2>1, <2>4 DEF Emits
<1>12. cur' = n2 /\ scopes' = scopes \o Scope(scoped) /\ open' = Append(Taken, f)
  BY <1>3, <1>5, <1>7
<1>13. /\ f \in Frame /\ f.kind = "loop" /\ f.scoped = scoped /\ f.next = n1 /\ f.alt = n3
       /\ f.brk = breakTarget /\ f.cont = continueTarget /\ f.objs = Len(cleanups)
  <2>1. "loop" \in Kinds
    BY DEF Kinds
  <2> QED BY <1>4, <1>6, <1>7, <2>1, NewOnTop
<1>14. Pushes(Taken, f)
  BY <1>2, <1>4, <1>12, <1>13 DEF Pushes
<1>15. In(d, n1, Here.fn) /\ In(d, n2, Here.fn) /\ In(d, n3, Here.fn)
  <2>1. \A a \in 1..3 : In(d, n + a, Here.fn)
    BY <1>4, <1>5, <1>8, <1>10, <1>11, FreshIn
  <2> QED BY <1>5, <2>1
<1>16. /\ InstrOK(x, d, Here.fn) /\ x.op \in Terminators
       /\ InstrOK(z, d, Here.fn) /\ z.op \in Terminators
  <2>1. InstrOK(x, d, Here.fn) /\ x.op \in Terminators
    BY <1>6, <1>7, <1>15, BrOK
  <2>2. 0 \in Nat /\ "condbr" \in {"br", "condbr", "try", "match"}
    OBVIOUS
  <2>3. PICK fn, op : fn = Here.fn /\ op = "condbr"
    OBVIOUS
  <2>4. z = Branch(op, 0, n2, n3) /\ op \in {"br", "condbr", "try", "match"}
    BY <1>7, <2>3
  <2>5. In(d, n2, fn) /\ In(d, n3, fn) /\ n2 \in Nat /\ n3 \in Nat /\ 0 \in Nat
    BY <1>6, <1>15, <2>3
  <2>6. InstrOK(z, d, fn) /\ z.op = op /\ op \in Terminators
    BY <2>4, <2>5, BranchOK
  <2> QED BY <2>1, <2>3, <2>6
<1>17. TidySeq(<<z>>) /\ SeqOK(<<z>>, d, Here.fn) /\ Ends(<<z>>)
  BY <1>8, <1>16, OneOK
<1>18. Branches(is, new, d)
  <2>1. TidySeq(is) /\ SeqOK(is, d, Here.fn) /\ Ends(is)
    BY <1>7, <1>8, <1>16, OneOK
  <2>2. ASSUME NEW a \in 1..3
        PROVE  TidySeq(new[a].is) /\ SeqOK(new[a].is, d, Here.fn)
    <3>1. CASE a = 1
      BY <1>9, <1>10, <1>17, <3>1
    <3>2. CASE a \in {2, 3}
      BY <1>10, <3>2, PlainEmpty
    <3> QED BY <3>1, <3>2
  <2> QED BY <1>8, <1>10, <1>11, <2>1, <2>2 DEF Branches
<1>19. DealsNew(f, new, cur')
  <2>1. Pend(f) = {n3} /\ Mine(f) = {n1, n3} /\ Apart(f)
    BY <1>13 DEF Pend, Mine, Apart
  <2>2. ~Ends(new[2].is) /\ ~Ends(new[3].is) /\ Ends(new[1].is)
    BY <1>9, <1>10, <1>17, PlainEmpty
  <2>3. ASSUME NEW a \in 1..3
        PROVE  /\ n + a \in Pend(f) => ~Ends(new[a].is)
               /\ n + a = n2 \/ n + a \in Pend(f) \/ Ends(new[a].is)
    <3>1. CASE a = 1
      BY <1>5, <1>6, <2>1, <2>2, <3>1
    <3>2. CASE a = 2
      BY <1>5, <1>6, <2>1, <2>2, <3>2
    <3>3. CASE a = 3
      BY <1>5, <1>6, <2>1, <2>2, <3>3
    <3> QED BY <3>1, <3>2, <3>3
  <2>4. /\ Mine(f) \subseteq (n + 1)..(n + 3) /\ Pend(f) \subseteq (n + 1)..(n + 3)
        /\ n2 \in (n + 1)..(n + 3) /\ n2 \notin Pend(f)
    BY <1>5, <1>6, <2>1
  <2> QED BY <1>5, <1>10, <1>12, <2>1, <2>3, <2>4 DEF DealsNew
<1>20. f.kind \notin {"function", "lambda"}
  BY <1>13
<1> QED BY <1>1, <1>4, <1>7, <1>13, <1>14, <1>18, <1>19, <1>20, OpenHereV

(* generateTry. *)
LEMMA OpenTryV ==
  ASSUME VInv, ~Uses("DeadCode"), OpenTry
  PROVE  VInv'
<1>1. IInv'
  BY OpenTryIInv DEF VInv
<1>2. CanOpen /\ cleanups' = cleanups /\ scopes' = scopes
  BY DEF OpenTry
<1>3. PICK fin \in {0, Place} :
        LET body == Len(code) + 1
            dispatch == Len(code) + 2
            exit == Len(code) + 3
        IN  /\ code' = Emit((IF fin # 0 THEN <<Op("arm", fin)>> ELSE <<>>)
                            \o <<Branch("try", 0, body, dispatch)>>)
                       \o <<[BlockHere EXCEPT !.within = Append(@, dispatch)]>> \o NB(2)
            /\ cur' = body
            /\ open' = Append(Taken, [NewFrame("try", FALSE, exit, dispatch)
                                        EXCEPT !.fin = fin, !.within = Append(@, dispatch)])
  BY DEF OpenTry
<1>4. /\ open # <<>> /\ ~Ends(Here.is) /\ Top.kind # "dispatch" /\ SameFrames(open, Taken)
      /\ Len(code) \in Nat /\ Here.fn \in Nat /\ fin \in Nat
  BY <1>2, OpenFacts
<1>5. PICK n, n1, n2, n3 : n = Len(code) /\ n1 = n + 1 /\ n2 = n + 2 /\ n3 = n + 3
  OBVIOUS
<1>6. n \in Nat /\ n1 \in Nat /\ n2 \in Nat /\ n3 \in Nat
  BY <1>4, <1>5
<1>7. PICK x, u, w, is, B, new, d, g, f :
        /\ x = Branch("try", 0, n1, n2) /\ w = <<x>>
        /\ u = (IF fin # 0 THEN <<Op("arm", fin)>> ELSE <<>>) /\ is = u \o w
        /\ B = [BlockHere EXCEPT !.within = Append(@, n2)] /\ new = <<B>> \o NB(2)
        /\ d = code' /\ g = NewFrame("try", FALSE, n3, n2)
        /\ f = [g EXCEPT !.fin = fin, !.within = Append(@, n2)]
  OBVIOUS
<1>8. x \in Instr /\ w \in Seq(Instr)
  <2>1. "try" \in Ops /\ 0 \in Nat
    BY DEF Ops, Terminators
  <2> QED BY <1>6, <1>7, <2>1, BranchType
<1>9. u \in Seq(Instr) /\ Plain(u) /\ \A c, fn : SeqOK(u, c, fn)
  <2>1. CASE fin = 0
    BY <1>7, <2>1, EmptyType, PlainEmpty
  <2>2. CASE fin # 0
    <3>1. "arm" \in Ops /\ "arm" \notin Terminators /\ "arm" \notin {"destroy", "move"}
      BY DEF Ops, Terminators
    <3>2. PICK i : i = Op("arm", fin)
      OBVIOUS
    <3>3. i \in Instr /\ i.op = "arm" /\ \A c, fn : InstrOK(i, c, fn)
      BY <1>4, <3>1, <3>2, OpOK
    <3> QED BY <1>7, <2>2, <3>1, <3>2, <3>3, OneOK
  <2> QED BY <2>1, <2>2
<1>10. is \in Seq(Instr)
  BY <1>7, <1>8, <1>9, ConcatType
<1>11. B \in Block /\ B.fn = Here.fn /\ B.is = <<>>
  <2>1. BlockHere \in Block /\ BlockHere.fn = Here.fn /\ BlockHere.is = <<>>
    BY <1>4, EmptyBlocks
  <2>2. PICK C : C = BlockHere
    OBVIOUS
  <2>3. C.within \in Seq(Nat)
    BY <2>1, <2>2 DEF Block
  <2>4. PICK v : v = Append(C.within, n2)
    OBVIOUS
  <2>5. v \in Seq(Nat)
    BY <1>6, <2>3, <2>4, StackPush
  <2>6. B = [C EXCEPT !.within = v]
    BY <1>7, <2>2, <2>4
  <2> QED BY <2>1, <2>2, <2>5, <2>6 DEF Block
<1>12. /\ new \in Seq(Block) /\ Len(new) = 3
       /\ new[1] = B /\ new[2] = BlockHere /\ new[3] = BlockHere
       /\ \A a \in 1..3 : new[a].fn = Here.fn
       /\ BlockHere.is = <<>>
  <2>1. new = <<B>> \o NB(2)
    BY <1>7
  <2> QED BY <1>4, <1>11, <2>1, OneAndTwo
<1>13. \A a \in 1..3 : new[a].is = <<>>
  <2>1. \A a \in 1..3 : a = 1 \/ a = 2 \/ a = 3
    OBVIOUS
  <2> QED BY <1>11, <1>12, <2>1
<1>14. Emits(is, new, d)
  <2>1. PICK e, s, t : e = Emit(is) /\ s = <<B>> /\ t = NB(2)
    OBVIOUS
  <2>2. e \in Seq(Block) /\ s \in Seq(Block) /\ t \in Seq(Block)
    <3>1. TypeOK /\ 2 \in Nat
      BY <1>4, Start
    <3> QED BY <1>4, <1>10, <1>11, <2>1, <3>1, EmitType, EmptyBlocks
  <2>3. d = (e \o s) \o t
    BY <1>3, <1>5, <1>7, <2>1
  <2>4. d = e \o (s \o t)
    <3>1. (e \o s) \o t = e \o (s \o t)
      BY <2>2, ThreeInARow
    <3> QED BY <2>3, <3>1
  <2> QED BY <1>7, <2>1, <2>4 DEF Emits
<1>15. cur' = n1 /\ open' = Append(Taken, f)
  BY <1>3, <1>5, <1>7
<1>16. /\ g \in Frame /\ g.kind = "try" /\ g.scoped = FALSE /\ g.next = n3 /\ g.alt = n2
       /\ g.brk = breakTarget /\ g.cont = continueTarget /\ g.objs = Len(cleanups)
  <2>1. "try" \in Kinds
    BY DEF Kinds
  <2>2. PICK scoped \in BOOLEAN : scoped = FALSE
    OBVIOUS
  <2>3. g = NewFrame("try", scoped, n3, n2)
    BY <1>7, <2>2
  <2>4. /\ g \in Frame /\ g.kind = "try" /\ g.scoped = scoped /\ g.next = n3 /\ g.alt = n2
        /\ g.brk = breakTarget /\ g.cont = continueTarget /\ g.objs = Len(cleanups)
    BY <1>4, <1>6, <2>1, <2>3, NewOnTop
  <2> QED BY <2>2, <2>4
<1>17. /\ f \in Frame /\ f.kind = "try" /\ f.scoped = FALSE /\ f.next = n3 /\ f.alt = n2
       /\ f.brk = breakTarget /\ f.cont = continueTarget /\ f.objs = Len(cleanups)
  <2>1. g.within \in Seq(Nat)
    BY <1>16 DEF Frame
  <2>2. PICK v : v = Append(g.within, n2)
    OBVIOUS
  <2>3. v \in Seq(Nat)
    BY <1>6, <2>1, <2>2, StackPush
  <2>4. f = [g EXCEPT !.fin = fin, !.within = v]
    BY <1>7, <2>2
  <2> QED BY <1>4, <1>16, <2>3, <2>4 DEF Frame
<1>18. Pushes(Taken, f)
  <2>1. scopes' = scopes \o Scope(f.scoped)
    <3>1. scopes \in Seq(Mark)
      BY <1>4, Start
    <3> QED BY <1>2, <1>17, <3>1 DEF Scope
  <2> QED BY <1>2, <1>4, <1>15, <1>17, <2>1 DEF Pushes
<1>19. \A a \in 1..3 : In(d, n + a, Here.fn)
  BY <1>4, <1>5, <1>10, <1>12, <1>14, FreshIn
<1>20. InstrOK(x, d, Here.fn) /\ x.op \in Terminators
  <2>1. In(d, n1, Here.fn) /\ In(d, n2, Here.fn)
    BY <1>5, <1>19
  <2>2. PICK fn, op : fn = Here.fn /\ op = "try"
    OBVIOUS
  <2>3. x = Branch(op, 0, n1, n2) /\ op \in {"br", "condbr", "try", "match"}
    BY <1>7, <2>2
  <2>4. In(d, n1, fn) /\ In(d, n2, fn) /\ n1 \in Nat /\ n2 \in Nat /\ 0 \in Nat
    BY <1>6, <2>1, <2>2
  <2>5. InstrOK(x, d, fn) /\ x.op = op /\ op \in Terminators
    BY <2>3, <2>4, BranchOK
  <2> QED BY <2>2, <2>5
<1>21. Branches(is, new, d)
  <2>1. TidySeq(w) /\ SeqOK(w, d, Here.fn) /\ Ends(w)
    BY <1>7, <1>8, <1>20, OneOK
  <2>2. PICK fn : fn = Here.fn
    OBVIOUS
  <2>3. TidySeq(is) /\ SeqOK(is, d, fn) /\ Ends(is)
    BY <1>7, <1>8, <1>9, <2>1, <2>2, TidyConcat, SeqOKConcat, EndsConcat
  <2> QED BY <1>10, <1>12, <1>13, <1>14, <2>2, <2>3, PlainEmpty DEF Branches
<1>22. DealsNew(f, new, cur')
  <2>1. Pend(f) = {n2, n3} /\ Mine(f) = {n2, n3} /\ Apart(f)
    BY <1>5, <1>6, <1>17 DEF Pend, Mine, Apart
  <2>2. \A a \in 1..3 : ~Ends(new[a].is)
    BY <1>13, PlainEmpty
  <2>3. \A a \in 1..3 : n + a = n1 \/ n + a \in Pend(f)
    BY <1>5, <1>6, <2>1
  <2>4. /\ Mine(f) \subseteq (n + 1)..(n + 3) /\ Pend(f) \subseteq (n + 1)..(n + 3)
        /\ n1 \in (n + 1)..(n + 3) /\ n1 \notin Pend(f)
    BY <1>5, <1>6, <2>1
  <2> QED BY <1>5, <1>12, <1>15, <2>1, <2>2, <2>3, <2>4 DEF DealsNew
<1>23. f.kind \notin {"function", "lambda"}
  BY <1>17
<1> QED BY <1>1, <1>4, <1>7, <1>17, <1>18, <1>21, <1>22, <1>23, OpenHereV

(* generateSwitch. *)
LEMMA OpenSwitchV ==
  ASSUME VInv, ~Uses("DeadCode"), OpenSwitch
  PROVE  VInv'
<1>1. IInv'
  BY OpenSwitchIInv DEF VInv
<1>2. CanOpen /\ cleanups' = cleanups /\ scopes' = scopes
  BY DEF OpenSwitch
<1>3. PICK k \in 1..MaxCases, default \in BOOLEAN :
        LET exit == Len(code) + 1
            first == Len(code) + 2
        IN  /\ code' = Emit(<<Branch("switch", k, first, IF default THEN first ELSE exit)>>)
                       \o NB(k + 1)
            /\ cur' = first
            /\ open' = Append(Taken, [NewFrame("case", FALSE, exit, first)
                                        EXCEPT !.fin = Len(code) + 1 + k])
  BY DEF OpenSwitch
<1>4. /\ open # <<>> /\ ~Ends(Here.is) /\ Top.kind # "dispatch" /\ SameFrames(open, Taken)
      /\ Len(code) \in Nat /\ Here.fn \in Nat
  BY <1>2, OpenFacts
<1>5. PICK n, n1, n2, last, m, no :
        /\ n = Len(code) /\ n1 = n + 1 /\ n2 = n + 2 /\ last = n + 1 + k /\ m = k + 1
        /\ no = (IF default THEN n2 ELSE n1)
  OBVIOUS
<1>6. /\ n \in Nat /\ n1 \in Nat /\ n2 \in Nat /\ last \in Nat /\ m \in Nat /\ k \in Nat
      /\ k >= 1 /\ no \in Nat /\ no \in {n1, n2}
  BY <1>4, <1>5, BoundsAssumption
<1>7. PICK x, is, new, d, g, f :
        /\ x = Branch("switch", k, n2, no) /\ is = <<x>> /\ new = NB(m)
        /\ d = code' /\ g = NewFrame("case", FALSE, n1, n2) /\ f = [g EXCEPT !.fin = last]
  OBVIOUS
<1>8. x \in Instr /\ is \in Seq(Instr)
  <2>1. "switch" \in Ops
    BY DEF Ops, Terminators
  <2> QED BY <1>6, <1>7, <2>1, BranchType
<1>9. /\ new \in Seq(Block) /\ Len(new) = m
      /\ \A a \in 1..m : new[a].fn = Here.fn /\ new[a].is = <<>>
  BY <1>4, <1>6, <1>7, EmptyBlocks
<1>10. Emits(is, new, d) /\ cur' = n2 /\ open' = Append(Taken, f)
  BY <1>3, <1>5, <1>7 DEF Emits
<1>11. /\ g \in Frame /\ g.kind = "case" /\ g.scoped = FALSE /\ g.next = n1 /\ g.alt = n2
       /\ g.brk = breakTarget /\ g.cont = continueTarget /\ g.objs = Len(cleanups)
  <2>1. "case" \in Kinds
    BY DEF Kinds
  <2>2. PICK scoped \in BOOLEAN : scoped = FALSE
    OBVIOUS
  <2>3. g = NewFrame("case", scoped, n1, n2)
    BY <1>7, <2>2
  <2>4. /\ g \in Frame /\ g.kind = "case" /\ g.scoped = scoped /\ g.next = n1 /\ g.alt = n2
        /\ g.brk = breakTarget /\ g.cont = continueTarget /\ g.objs = Len(cleanups)
    BY <1>4, <1>6, <2>1, <2>3, NewOnTop
  <2> QED BY <2>2, <2>4
<1>12. /\ f \in Frame /\ f.kind = "case" /\ f.scoped = FALSE /\ f.next = n1 /\ f.alt = n2
       /\ f.fin = last
       /\ f.brk = breakTarget /\ f.cont = continueTarget /\ f.objs = Len(cleanups)
  BY <1>6, <1>7, <1>11 DEF Frame
<1>13. Pushes(Taken, f)
  <2>1. scopes' = scopes \o Scope(f.scoped)
    <3>1. scopes \in Seq(Mark)
      BY <1>4, Start
    <3> QED BY <1>2, <1>12, <3>1 DEF Scope
  <2> QED BY <1>2, <1>4, <1>10, <1>12, <2>1 DEF Pushes
<1>14. \A a \in 1..m : In(d, n + a, Here.fn)
  BY <1>4, <1>5, <1>8, <1>9, <1>10, FreshIn
<1>15. InstrOK(x, d, Here.fn) /\ x.op \in Terminators
  <2>1. PICK fn : fn = Here.fn
    OBVIOUS
  <2>2. ASSUME NEW b \in (n + 1)..(n + m)
        PROVE  In(d, b, fn)
    <3>1. b - n \in 1..m /\ n + (b - n) = b
      BY <1>6
    <3> QED BY <1>14, <2>1, <3>1
  <2>3. \A b \in n2..(n2 + k - 1) : In(d, b, fn)
    <3>1. \A b \in n2..(n2 + k - 1) : b \in (n + 1)..(n + m)
      BY <1>5, <1>6
    <3> QED BY <2>2, <3>1
  <2>4. In(d, no, fn)
    <3>1. no \in (n + 1)..(n + m)
      BY <1>5, <1>6
    <3> QED BY <2>2, <3>1
  <2>5. x = Branch("switch", k, n2, no)
    BY <1>7
  <2> QED BY <1>6, <2>1, <2>3, <2>4, <2>5, SwitchOK
<1>16. Branches(is, new, d)
  <2>1. TidySeq(is) /\ SeqOK(is, d, Here.fn) /\ Ends(is)
    BY <1>7, <1>8, <1>15, OneOK
  <2> QED BY <1>8, <1>9, <1>10, <2>1, PlainEmpty DEF Branches
<1>17. DealsNew(f, new, cur')
  <2>1. Pend(f) = {n1} \cup (n2 + 1)..last /\ Mine(f) = {n1} \cup n2..last /\ n1 < n2
    BY <1>5, <1>6, <1>12 DEF Pend, Mine
  <2>2. Apart(f)
    BY <1>12, <2>1 DEF Apart
  <2>3. \A a \in 1..m : ~Ends(new[a].is)
    BY <1>9, PlainEmpty
  <2>4. \A a \in 1..m : n + a = n2 \/ n + a \in Pend(f)
    BY <1>5, <1>6, <2>1
  <2>5. /\ Mine(f) \subseteq (n + 1)..(n + m) /\ Pend(f) \subseteq (n + 1)..(n + m)
        /\ n2 \in (n + 1)..(n + m) /\ n2 \notin Pend(f)
    BY <1>5, <1>6, <2>1
  <2> QED BY <1>5, <1>9, <1>10, <2>2, <2>3, <2>4, <2>5 DEF DealsNew
<1>18. f.kind \notin {"function", "lambda"}
  BY <1>12
<1> QED BY <1>1, <1>4, <1>7, <1>12, <1>13, <1>16, <1>17, <1>18, OpenHereV

(* The blocks of the handler on top are in its own function. *)
LEMMA TopBlocks ==
  ASSUME VInv, open # <<>>, NEW b \in Mine(Top)
  PROVE  In(code, b, Here.fn)
<1>1. PICK F, D : /\ Held(open, F, D, code, {cur}, cleanups, scopes)
                  /\ Here.fn = F[Len(open)]
  BY Start
<1>2. Len(open) \in 1..Len(open) /\ Top = open[Len(open)]
  BY Start
<1>3. FnsOK(open, F, code)
  BY <1>1 DEF Held
<1> QED BY <1>1, <1>2, <1>3 DEF FnsOK

(* A catch clause. *)
LEMMA OpenCatchV ==
  ASSUME VInv, OpenCatch
  PROVE  VInv'
<1>1. IInv'
  BY OpenCatchIInv DEF VInv
<1>2. open # <<>> /\ Top.kind = "dispatch" /\ cleanups' = cleanups
  BY DEF OpenCatch
<1>3. PICK all \in BOOLEAN :
        LET body == Len(code) + 1
            next == Len(code) + 2
        IN  /\ code' = Emit(<<Branch("match", IF all THEN 1 ELSE 0, body, next)>>) \o NB(2)
            /\ cur' = body
            /\ scopes' = scopes \o Scope(TRUE)
            /\ open' = Append([open EXCEPT ![Len(open)].all = all],
                              NewFrame("catch", TRUE, Top.next, next))
  BY DEF OpenCatch
<1>4. ~Ends(Here.is) /\ Len(code) \in Nat /\ Here.fn \in Nat /\ Top \in Frame /\ Top.next \in Nat
  <2>1. ~Ends(Here.is) /\ Len(code) \in Nat /\ Here.fn \in Nat /\ Top \in Frame
    BY <1>2, Start
  <2> QED BY <2>1 DEF Frame
<1>5. PICK n, n1, n2, arg, next : /\ n = Len(code) /\ n1 = n + 1 /\ n2 = n + 2
                                  /\ arg = (IF all THEN 1 ELSE 0) /\ next = Top.next
  OBVIOUS
<1>6. n \in Nat /\ n1 \in Nat /\ n2 \in Nat /\ arg \in Nat /\ next \in Nat
  BY <1>4, <1>5
<1>7. PICK x, is, new, d, f, q :
        /\ x = Branch("match", arg, n1, n2) /\ is = <<x>> /\ new = NB(2)
        /\ d = code' /\ f = NewFrame("catch", TRUE, next, n2)
        /\ q = [open EXCEPT ![Len(open)].all = all]
  OBVIOUS
<1>8. x \in Instr /\ is \in Seq(Instr)
  <2>1. "match" \in Ops
    BY DEF Ops, Terminators
  <2> QED BY <1>6, <1>7, <2>1, BranchType
<1>9. /\ new \in Seq(Block) /\ Len(new) = 2
      /\ \A a \in 1..2 : new[a].fn = Here.fn /\ new[a].is = <<>>
  <2>1. PICK k \in Nat : k = 2
    OBVIOUS
  <2>2. new = NB(k)
    BY <1>7, <2>1
  <2>3. /\ new \in Seq(Block) /\ Len(new) = k
        /\ \A a \in 1..k : new[a].fn = Here.fn /\ new[a].is = <<>>
    BY <1>2, <2>2, EmptyBlocks
  <2> QED BY <2>1, <2>3
<1>10. Emits(is, new, d) /\ cur' = n1 /\ open' = Append(q, f) /\ scopes' = scopes \o Scope(TRUE)
  BY <1>3, <1>5, <1>7 DEF Emits
<1>11. SameFrames(open, q)
  <2>1. PICK g : g = [Top EXCEPT !.all = all]
    OBVIOUS
  <2>2. g \in Frame /\ Alike(g, Top) /\ g.objs = Top.objs
    BY <1>4, <2>1 DEF Alike, Frame
  <2>3. q = [open EXCEPT ![Len(open)] = g]
    BY <1>7, <2>1 DEF Top
  <2>4. open \in Seq(Frame) /\ Top = open[Len(open)] /\ Len(open) \in Nat /\ Len(open) >= 1
    BY <1>2, Start
  <2>5. q \in Seq(Frame) /\ Len(q) = Len(open) /\ q[Len(open)] = g
        /\ \A k \in 1..(Len(open) - 1) : q[k] = open[k]
    BY <1>2, <2>2, <2>3, <2>4, StackReplace
  <2>6. ASSUME NEW k \in 1..Len(open)
        PROVE  Alike(q[k], open[k]) /\ q[k].objs = open[k].objs
    <3>1. CASE k = Len(open)
      BY <2>2, <2>4, <2>5, <3>1
    <3>2. CASE k # Len(open)
      <4>1. q[k] = open[k]
        BY <2>4, <2>5, <3>2
      <4> QED BY <4>1 DEF Alike
    <3> QED BY <3>1, <3>2
  <2> QED BY <2>4, <2>5, <2>6 DEF SameFrames
<1>12. /\ f \in Frame /\ f.kind = "catch" /\ f.scoped = TRUE /\ f.next = next /\ f.alt = n2
       /\ f.brk = breakTarget /\ f.cont = continueTarget /\ f.objs = Len(cleanups)
  <2>1. "catch" \in Kinds
    BY DEF Kinds
  <2>2. PICK scoped \in BOOLEAN : scoped = TRUE
    OBVIOUS
  <2>3. f = NewFrame("catch", scoped, next, n2)
    BY <1>7, <2>2
  <2>4. /\ f \in Frame /\ f.kind = "catch" /\ f.scoped = scoped /\ f.next = next /\ f.alt = n2
        /\ f.brk = breakTarget /\ f.cont = continueTarget /\ f.objs = Len(cleanups)
    BY <1>2, <1>6, <2>1, <2>3, NewOnTop
  <2> QED BY <2>2, <2>4
<1>13. Pushes(q, f)
  <2>1. f.kind # "dispatch"
    BY <1>12
  <2> QED BY <1>2, <1>10, <1>11, <1>12, <2>1 DEF Pushes
<1>14. \A a \in 1..2 : In(d, n + a, Here.fn)
  BY <1>2, <1>5, <1>8, <1>9, <1>10, FreshIn
<1>15. InstrOK(x, d, Here.fn) /\ x.op \in Terminators
  <2>1. PICK fn, op : fn = Here.fn /\ op = "match"
    OBVIOUS
  <2>2. x = Branch(op, arg, n1, n2) /\ op \in {"br", "condbr", "try", "match"}
    BY <1>7, <2>1
  <2>3. In(d, n1, fn) /\ In(d, n2, fn)
    BY <1>5, <1>6, <1>14, <2>1
  <2>4. InstrOK(x, d, fn) /\ x.op = op /\ op \in Terminators
    BY <1>6, <2>2, <2>3, BranchOK
  <2> QED BY <2>1, <2>4
<1>16. Branches(is, new, d)
  <2>1. TidySeq(is) /\ SeqOK(is, d, Here.fn) /\ Ends(is)
    BY <1>7, <1>8, <1>15, OneOK
  <2> QED BY <1>8, <1>9, <1>10, <2>1, PlainEmpty DEF Branches
<1>17. DealsNew(f, new, cur')
  <2>1. Pend(f) = {n2} /\ Mine(f) = {next, n2} /\ Apart(f)
    BY <1>12 DEF Pend, Mine, Apart
  <2>2. In(code, next, Here.fn)
    <3>1. next \in Mine(Top)
      BY <1>2, <1>5 DEF Mine
    <3> QED BY <1>2, <3>1, TopBlocks
  <2>3. \A a \in 1..2 : ~Ends(new[a].is)
    BY <1>9, PlainEmpty
  <2>4. \A a \in 1..2 : n + a = n1 \/ n + a \in Pend(f)
    BY <1>5, <1>6, <2>1
  <2>5. /\ n2 \in (n + 1)..(n + 2) /\ Pend(f) \subseteq (n + 1)..(n + 2)
        /\ n1 \in (n + 1)..(n + 2) /\ n1 \notin Pend(f)
    BY <1>5, <1>6, <2>1
  <2> QED BY <1>5, <1>9, <1>10, <2>1, <2>2, <2>3, <2>4, <2>5 DEF DealsNew
<1>18. f.kind \notin {"function", "lambda"}
  BY <1>12
<1> QED BY <1>1, <1>2, <1>4, <1>7, <1>12, <1>13, <1>16, <1>17, <1>18, OpenHereV

(* A lambda: a function of its own. *)
LEMMA OpenLambdaV ==
  ASSUME VInv, ~Uses("DeadCode"), OpenLambda
  PROVE  VInv'
<1>1. IInv'
  BY OpenLambdaIInv DEF VInv
<1>2. CanOpen /\ cleanups' = cleanups /\ scopes' = scopes \o Scope(TRUE)
  BY DEF OpenLambda
<1>3. /\ open # <<>> /\ ~Ends(Here.is) /\ Top.kind # "dispatch" /\ SameFrames(open, Taken)
      /\ Len(code) \in Nat /\ code \in Seq(Block) /\ cur \in 1..Len(code) /\ Here = code[cur]
      /\ TypeOK
  BY <1>2, OpenFacts, Start
<1>4. PICK n1, h, nf, nb, new, g, f, d, X, b, fn :
        /\ n1 = Len(code) + 1 /\ h = cur /\ nb = NewBlock(n1, <<>>) /\ new = <<nb>>
        /\ g = NewFrame("lambda", TRUE, h, 0) /\ f = [g EXCEPT !.within = <<>>]
        /\ d = code' /\ X = {cur} \cup (Len(code) + 1)..Len(d) /\ b = cur' /\ fn = Here.fn
  OBVIOUS
<1>5. d = Append(code, nb) /\ b = n1 /\ open' = Append(Taken, f)
  BY <1>4 DEF OpenLambda
<1>6. n1 \in Nat /\ h \in Nat /\ nb \in Block /\ nb.is = <<>> /\ nb.fn = n1
      /\ new \in Seq(Block) /\ Len(new) = 1 /\ new[1] = nb
  <2>1. n1 \in Nat /\ h \in Nat
    BY <1>3, <1>4
  <2>2. <<>> \in Seq(Instr) /\ <<>> \in Seq(Nat)
    BY EmptyType
  <2>3. nb \in Block /\ nb.is = <<>> /\ nb.fn = n1
    BY <1>4, <2>1, <2>2 DEF NewBlock, Block
  <2>4. new \in Seq(Block) /\ Len(new) = 1 /\ new[1] = nb
    BY <1>4, <2>3
  <2> QED BY <2>1, <2>3, <2>4
<1>7. /\ g \in Frame /\ g.kind = "lambda" /\ g.scoped = TRUE /\ g.next = h
      /\ g.brk = breakTarget /\ g.cont = continueTarget /\ g.objs = Len(cleanups)
  <2>1. "lambda" \in Kinds /\ 0 \in Nat
    BY DEF Kinds
  <2>2. PICK scoped \in BOOLEAN : scoped = TRUE
    OBVIOUS
  <2>3. g = NewFrame("lambda", scoped, h, 0)
    BY <1>4, <2>2
  <2>4. /\ g \in Frame /\ g.kind = "lambda" /\ g.scoped = scoped /\ g.next = h
        /\ g.brk = breakTarget /\ g.cont = continueTarget /\ g.objs = Len(cleanups)
    BY <1>3, <1>6, <2>1, <2>3, NewOnTop
  <2> QED BY <2>2, <2>4
<1>8. /\ f \in Frame /\ f.kind = "lambda" /\ f.scoped = TRUE /\ f.next = h
      /\ f.objs = Len(cleanups)
  <2>1. <<>> \in Seq(Nat)
    BY EmptyType
  <2> QED BY <1>4, <1>7, <2>1 DEF Frame
<1>9. Pushes(Taken, f)
  BY <1>2, <1>3, <1>5, <1>8 DEF Pushes
<1>10. Grown(code, d, cur, <<>>, new)
  <2>1. Grown(code, code, cur, <<>>, <<>>)
    BY <1>3, NothingGrows
  <2>2. Grown(code, code \o new, cur, <<>>, new)
    BY <1>6, <2>1, AppendGrows
  <2>3. code \o new = Append(code, nb)
    BY <1>3, <1>4, <1>6
  <2> QED BY <1>5, <2>2, <2>3
<1>11. PICK e : e = <<>>
  OBVIOUS
<1>12. GrowsWell(d, e, new)
  <2>1. ASSUME NEW a \in 1..Len(new)
        PROVE  TidySeq(new[a].is) /\ SeqOK(new[a].is, d, new[a].fn)
    <3>1. new[a].is = <<>>
      BY <1>6
    <3> QED BY <3>1, PlainEmpty
  <2> QED BY <1>10, <1>11, <2>1, PlainEmpty DEF GrowsWell
<1>13. /\ Len(d) = n1 /\ d[n1] = nb /\ h # n1 /\ h \in 1..Len(code) /\ d[h].fn = fn
       /\ d[h].is = code[h].is
  <2>1. Len(d) = n1 /\ d[n1] = nb /\ \A a \in 1..Len(code) : d[a] = code[a]
    BY <1>3, <1>4, <1>5, <1>6, StackPush
  <2> QED BY <1>3, <1>4, <2>1
<1>14. FitsFns(f, Top, Here.fn, n1, d)
  <2>1. Mine(f) = {}
    BY <1>8 DEF Mine
  <2>2. In(d, h, fn)
    <3>1. h \in 1..Len(d)
      BY <1>3, <1>4, <1>13
    <3> QED BY <1>13, <3>1 DEF In
  <2>3. In(d, f.next, Here.fn)
    BY <1>4, <1>8, <2>2
  <2> QED BY <1>6, <1>8, <2>1, <2>3 DEF FitsFns
<1>15. Deals(f, d, X, b)
  <2>1. Pend(f) = {h} /\ Apart(f)
    BY <1>8 DEF Pend, Apart
  <2>2. X = {h, n1}
    BY <1>3, <1>4, <1>13
  <2>3. ~Ends(d[h].is)
    BY <1>3, <1>4, <1>13
  <2> QED BY <1>5, <1>13, <2>1, <2>2, <2>3 DEF Deals
<1>16. d[b].fn = n1
  BY <1>5, <1>6, <1>13
<1> QED BY <1>1, <1>3, <1>4, <1>9, <1>12, <1>14, <1>15, <1>16, OpenV

(* What is known once the code has grown, before a body is opened. *)
LEMMA BeforeOpening ==
  ASSUME VInv, open # <<>>, NEW d, NEW is, NEW new, GrowsWell(d, is, new),
         NEW q, SameFrames(open, q), NEW X, X = {cur} \cup (Len(code) + 1)..Len(d)
  PROVE  /\ \E F, D : Held(q, F, D, d, X, cleanups, scopes) /\ F[Len(q)] = Here.fn
         /\ q \in Seq(Frame) /\ Len(q) = Len(open) /\ q # <<>>
         /\ q[Len(q)].kind = Top.kind /\ BreakIn(q[Len(q)]) = BreakIn(Top)
         /\ ContinueIn(q[Len(q)]) = ContinueIn(Top)
<1>1. PICK F, D : /\ Held(open, F, D, code, {cur}, cleanups, scopes)
                  /\ Here.fn = F[Len(open)]
  BY Start
<1>2. Held(q, F, D, code, {cur}, cleanups, scopes)
  BY <1>1, HeldSame
<1>3. Held(q, F, D, d, X, cleanups, scopes)
  <2>1. Here = code[cur]
    BY Start
  <2>2. PICK Y : Y = {cur} /\ cur \in Y
    OBVIOUS
  <2>3. Held(q, F, D, code, Y, cleanups, scopes)
    BY <1>2, <2>2
  <2>4. /\ Grown(code, d, cur, is, new)
        /\ is = <<>> \/ (~Ends(code[cur].is) /\ TidySeq(is))
        /\ SeqOK(is, d, code[cur].fn)
        /\ \A a \in 1..Len(new) : TidySeq(new[a].is) /\ SeqOK(new[a].is, d, new[a].fn)
    BY <2>1 DEF GrowsWell
  <2>5. Held(q, F, D, d, Y \cup (Len(code) + 1)..Len(d), cleanups, scopes)
    BY <2>2, <2>3, <2>4, HeldGrow
  <2> QED BY <2>2, <2>5
<1>4. /\ q \in Seq(Frame) /\ Len(q) = Len(open) /\ q # <<>>
      /\ q[Len(q)].kind = Top.kind /\ BreakIn(q[Len(q)]) = BreakIn(Top)
      /\ ContinueIn(q[Len(q)]) = ContinueIn(Top)
  <2>1. q \in Seq(Frame) /\ Len(q) = Len(open) /\ Len(open) \in 1..Len(open)
        /\ open \in Seq(Frame) /\ Top = open[Len(open)]
    BY Start DEF SameFrames
  <2>2. Alike(q[Len(q)], Top)
    BY <2>1 DEF SameFrames
  <2> QED BY <2>1, <2>2 DEF Alike, BreakIn, ContinueIn
<1> QED BY <1>1, <1>3, <1>4

(* The frames of a for loop: its scope f, which holds what the loop declares, *)
(* and its body g; m and w are the marks of the two.                          *)
TwoBodies(q, f, g, m, w, d) ==
  /\ SameFrames(open, q) /\ open' = Append(Append(q, f), g)
  /\ f \in Frame /\ f.kind = "forscope" /\ f.scoped /\ f.objs = Len(cleanups)
  /\ FitsFns(f, Top, Here.fn, Here.fn, d)
  /\ g \in Frame /\ g.kind = "loop" /\ g.objs = Len(cleanups')
  /\ FitsFns(g, f, Here.fn, Here.fn, d)
  /\ m \in Mark /\ m.objs = Len(cleanups) /\ w \in Mark /\ w.objs = Len(cleanups')
  /\ scopes' = IF g.scoped THEN Append(Append(scopes, m), w) ELSE Append(scopes, m)

(* Nothing is registered, or an object that the code d declares. *)
Registers(d) ==
  \/ cleanups' = cleanups
  \/ \E e \in Entry : cleanups' = Append(cleanups, e) /\ DeclaredIn(d, e.obj, Here.fn)

(* The two are opened at once. *)
LEMMA OpenTwo ==
  ASSUME VInv, open # <<>>, IInv', NEW d, d = code', NEW is, NEW new, GrowsWell(d, is, new),
         Top.kind # "dispatch", NEW q, NEW f, NEW g, NEW m, NEW w, TwoBodies(q, f, g, m, w, d),
         Registers(d), NEW X, X = {cur} \cup (Len(code) + 1)..Len(d),
         NEW b, b = cur', Deals(g, d, X, b), d[b].fn = Here.fn
  PROVE  VInv'
<1> USE DEF TwoBodies, Registers
<1>1. PICK F, D : Held(q, F, D, d, X, cleanups, scopes) /\ F[Len(q)] = Here.fn
  BY BeforeOpening
<1>2. /\ q \in Seq(Frame) /\ Len(q) = Len(open) /\ q # <<>>
      /\ q[Len(q)].kind = Top.kind /\ BreakIn(q[Len(q)]) = BreakIn(Top)
      /\ ContinueIn(q[Len(q)]) = ContinueIn(Top)
  BY BeforeOpening
<1>3. PICK e, fn, t, top : e = cleanups' /\ fn = Here.fn /\ t = Append(scopes, m) /\ top = q[Len(q)]
  OBVIOUS
<1>4. /\ cleanups \in Seq(Entry) /\ Len(cleanups) \in Nat /\ scopes \in Seq(Mark)
      /\ e \in Seq(Entry) /\ Len(e) \in Nat /\ fn \in Nat
  <2>1. cleanups' \in Seq(Entry)
    BY DEF IInv, TypeOK
  <2> QED BY <1>3, <2>1, Start
<1>5. Held(q, F, D, d, X, e, scopes) /\ Len(cleanups) <= Len(e)
  <2>1. CASE cleanups' = cleanups
    BY <1>1, <1>3, <1>4, <2>1
  <2>2. CASE \E x \in Entry : cleanups' = Append(cleanups, x) /\ DeclaredIn(d, x.obj, Here.fn)
    <3>1. PICK x \in Entry : e = Append(cleanups, x) /\ DeclaredIn(d, x.obj, F[Len(q)])
      BY <1>1, <1>3, <2>2
    <3>2. Held(q, F, D, d, X, e, scopes)
      BY <1>1, <1>2, <3>1, HeldMore
    <3>3. Len(e) = Len(cleanups) + 1
      BY <1>4, <3>1, StackPush
    <3> QED BY <1>4, <3>2, <3>3
  <2> QED BY <2>1, <2>2
<1>6. top.objs <= f.objs /\ f.objs <= Len(e)
  <2>1. PICK n : n = Len(cleanups)
    OBVIOUS
  <2>2. MarksOK(q, D, scopes, n)
    BY <1>1, <2>1 DEF Held
  <2>3. top.objs \in 0..n
    BY <1>2, <1>3, <2>2, MarksTop
  <2> QED BY <1>4, <1>5, <2>1, <2>3
<1>7. PICK p, G, E : p = Append(q, f) /\ G = Append(F, fn) /\ E = Append(D, Len(t))
  OBVIOUS
<1>8. Pend(f) = {} /\ Apart(f)
  BY DEF Pend, Apart
<1>9. FitsFns(f, top, fn, fn, d)
  BY <1>2, <1>3 DEF FitsFns
<1>10. t \in Seq(Mark)
  BY <1>3, <1>4, StackPush
<1>11. Held(p, G, E, d, X, e, t)
  <2>1. FitsFns(f, q[Len(q)], F[Len(q)], fn, d)
    BY <1>1, <1>3, <1>9
  <2>2. Pend(f) \subseteq X /\ \A a \in Pend(f) : ~Ends(d[a].is)
    BY <1>8
  <2>3. /\ q[Len(q)].kind = "dispatch" => f.kind = "catch"
        /\ q[Len(q)].objs <= f.objs /\ f.objs <= Len(e)
        /\ f.kind = "lambda" => f.objs = Len(e)
    BY <1>2, <1>3, <1>6
  <2>4. IF f.scoped THEN \E x \in Mark : x.objs = f.objs /\ t = Append(scopes, x) ELSE t = scopes
    BY <1>3
  <2>5. Held(Append(q, f), Append(F, fn), Append(D, Len(t)), d, X \ Pend(f), e, t)
    BY <1>2, <1>5, <1>8, <1>10, <2>1, <2>2, <2>3, <2>4, HeldPush
  <2> QED BY <1>7, <1>8, <2>5
<1>12. /\ p # <<>> /\ p[Len(p)] = f /\ G[Len(p)] = fn
  <2>1. Len(p) = Len(q) + 1 /\ p # <<>> /\ p[Len(q) + 1] = f
    <3>1. q \in Seq(Frame) /\ p = Append(q, f) /\ f \in Frame
      BY <1>2, <1>7
    <3> QED BY <3>1, StackPush, SMTT(40)
  <2>2. F \in Seq(Nat) /\ Len(F) = Len(q)
    BY <1>1 DEF Held, FnsOK
  <2>3. G[Len(F) + 1] = fn
    BY <1>4, <1>7, <2>2, StackPush
  <2> QED BY <2>1, <2>2, <2>3
<1>13. PICK u : u = IF g.scoped THEN Append(t, w) ELSE t
  OBVIOUS
<1>14. FitsFns(g, p[Len(p)], G[Len(p)], fn, d)
  BY <1>3, <1>12
<1>15. /\ Pend(g) \subseteq X /\ Apart(g) /\ \A a \in Pend(g) : ~Ends(d[a].is)
       /\ b \in X /\ b \notin Pend(g) /\ d[b].fn = fn
       /\ \A a \in X : a = b \/ a \in Pend(g) \/ Ends(d[a].is)
  BY <1>3 DEF Deals
<1>16. /\ p[Len(p)].kind = "dispatch" => g.kind = "catch"
       /\ g.kind # "dispatch" /\ g.objs = Len(e) /\ w.objs = Len(e)
  BY <1>3, <1>12
<1>17. Settled(Append(p, g), d, b, e, u)
  BY <1>10, <1>11, <1>12, <1>13, <1>14, <1>15, <1>16, SettledOpen
<1>18. Settled(open', code', cur', cleanups', scopes')
  BY <1>3, <1>7, <1>13, <1>17
<1> QED BY <1>18 DEF VInv

LEMMA ConcatElements ==
  ASSUME NEW S, NEW s \in Seq(S), NEW t \in Seq(S)
  PROVE  /\ \A i \in 1..Len(s) : (s \o t)[i] = s[i]
         /\ \A i \in 1..Len(t) : (s \o t)[Len(s) + i] = t[i]
  OBVIOUS

LEMMA ThreeAndOne ==
  ASSUME NEW S, NEW s \in Seq(S), NEW t \in Seq(S)
  PROVE  Len(s) = 3 /\ Len(t) = 1 =>
           /\ s \o t \in Seq(S) /\ Len(s \o t) = 4
           /\ (s \o t)[1] = s[1] /\ (s \o t)[2] = s[2] /\ (s \o t)[3] = s[3]
           /\ (s \o t)[4] = t[1]
<1>1. Len(s) \in Nat /\ Len(t) \in Nat
  OBVIOUS
<1>2. s \o t \in Seq(S) /\ Len(s \o t) = Len(s) + Len(t)
  BY ConcatType
<1>3. /\ \A i \in 1..Len(s) : (s \o t)[i] = s[i]
      /\ \A i \in 1..Len(t) : (s \o t)[Len(s) + i] = t[i]
  BY ConcatElements
<1>4. PICK u : u = s \o t
  OBVIOUS
<1>5. ASSUME Len(s) = 3, Len(t) = 1
      PROVE  Len(u) = 4 /\ u[1] = s[1] /\ u[2] = s[2] /\ u[3] = s[3] /\ u[4] = t[1]
  <2>1. /\ \A i \in 1..Len(s) : u[i] = s[i]
        /\ \A i \in 1..Len(t) : u[Len(s) + i] = t[i]
        /\ Len(u) = Len(s) + Len(t)
    BY <1>2, <1>3, <1>4
  <2> QED BY <1>5, <2>1
<1> QED BY <1>2, <1>4, <1>5

(* Four blocks: the condition, two empty ones, the increment. *)
Four(B, C) == (<<B>> \o NB(2)) \o <<C>>

LEMMA OneTwoOne ==
  ASSUME VInv, open # <<>>, NEW B \in Block, B.fn = Here.fn, NEW C \in Block, C.fn = Here.fn
  PROVE  /\ Four(B, C) \in Seq(Block) /\ Len(Four(B, C)) = 4
         /\ Four(B, C)[1] = B /\ Four(B, C)[2] = BlockHere
         /\ Four(B, C)[3] = BlockHere /\ Four(B, C)[4] = C
         /\ BlockHere.fn = Here.fn /\ BlockHere.is = <<>>
<1>1. PICK s, t : s = <<B>> \o NB(2) /\ t = <<C>>
  OBVIOUS
<1>2. /\ s \in Seq(Block) /\ Len(s) = 3
      /\ s[1] = B /\ s[2] = BlockHere /\ s[3] = BlockHere
      /\ \A a \in 1..3 : s[a].fn = Here.fn
      /\ BlockHere.is = <<>>
  BY <1>1, OneAndTwo
<1>3. t \in Seq(Block) /\ Len(t) = 1 /\ t[1] = C
  BY <1>1
<1>4. /\ s \o t \in Seq(Block) /\ Len(s \o t) = 4
      /\ (s \o t)[1] = s[1] /\ (s \o t)[2] = s[2] /\ (s \o t)[3] = s[3] /\ (s \o t)[4] = t[1]
  BY <1>2, <1>3, ThreeAndOne
<1>5. Four(B, C) = s \o t
  BY <1>1 DEF Four
<1>6. BlockHere.fn = Here.fn
  BY <1>2
<1> QED BY <1>2, <1>3, <1>4, <1>5, <1>6

(* The entry for what a loop's init clause declares is a right one. *)
LEMMA ForV ==
  ASSUME VInv, ~Uses("DeadCode"), CanOpen, IInv', NEW init \in BOOLEAN, NEW scoped \in BOOLEAN,
         ForLoop(init, scoped)
  PROVE  VInv'
<1>1. /\ open # <<>> /\ ~Ends(Here.is) /\ Top.kind # "dispatch" /\ SameFrames(open, Taken)
      /\ Len(code) \in Nat /\ Here.fn \in Nat /\ Place \in Nat
  BY OpenFacts
<1>2. /\ cleanups \in Seq(Entry) /\ Len(cleanups) \in Nat /\ scopes \in Seq(Mark)
      /\ Len(defers) \in Nat /\ TypeOK /\ Here = code[cur] /\ cur \in 1..Len(code)
  <2>1. cleanups \in Seq(Entry) /\ Len(cleanups) \in Nat /\ scopes \in Seq(Mark) /\ TypeOK
        /\ Here = code[cur] /\ cur \in 1..Len(code)
    BY <1>1, Start
  <2> QED BY <2>1 DEF TypeOK
<1>3. PICK n, n1, n2, n3, n4, e, declared, inner, entry :
        /\ n = Len(code) /\ n1 = n + 1 /\ n2 = n + 2 /\ n3 = n + 3 /\ n4 = n + 4
        /\ e = [obj |-> Place, moved |-> FALSE]
        /\ declared = (IF init THEN <<e>> ELSE <<>>)
        /\ inner = [objs |-> Len(cleanups) + Len(declared), defs |-> Len(defers)]
        /\ entry = (IF init THEN <<Op("new", Place)>> ELSE <<>>)
  OBVIOUS
<1>4. n \in Nat /\ n1 \in Nat /\ n2 \in Nat /\ n3 \in Nat /\ n4 \in Nat
  BY <1>1, <1>3
<1>5. PICK x, y, z, w, is, B, C, new, d, f, h, g :
        /\ x = Br(n1) /\ y = <<x>> /\ is = entry \o y
        /\ z = Branch("condbr", 0, n2, n3) /\ w = <<z>>
        /\ B = [BlockHere EXCEPT !.is = w] /\ C = [BlockHere EXCEPT !.is = y]
        /\ new = (<<B>> \o NB(2)) \o <<C>> /\ d = code'
        /\ f = NewFrame("forscope", TRUE, 0, 0)
        /\ h = NewFrame("loop", scoped, n4, n3) /\ g = [h EXCEPT !.objs = inner.objs]
  OBVIOUS
<1>6. /\ d = Emit(is) \o <<B>> \o NB(2) \o <<C>>
      /\ cur' = n2 /\ cleanups' = cleanups \o declared
      /\ scopes' = scopes \o Scope(TRUE) \o (IF scoped THEN <<inner>> ELSE <<>>)
      /\ open' = Taken \o <<f, g>>
  BY <1>3, <1>5 DEF ForLoop
<1>7. x \in Instr /\ z \in Instr /\ y \in Seq(Instr) /\ w \in Seq(Instr)
  <2>1. "condbr" \in Ops /\ 0 \in Nat
    BY DEF Ops, Terminators
  <2> QED BY <1>4, <1>5, <2>1, BranchType, BrType
<1>8. entry \in Seq(Instr) /\ Plain(entry) /\ \A c, fn : SeqOK(entry, c, fn)
  <2>1. CASE ~init
    BY <1>3, <2>1, EmptyType, PlainEmpty
  <2>2. CASE init
    <3>1. "new" \in Ops /\ "new" \notin Terminators /\ "new" \notin {"destroy", "move"}
      BY DEF Ops, Terminators
    <3>2. PICK i : i = Op("new", Place)
      OBVIOUS
    <3>3. i \in Instr /\ i.op = "new" /\ \A c, fn : InstrOK(i, c, fn)
      BY <1>1, <3>1, <3>2, OpOK
    <3> QED BY <1>3, <2>2, <3>1, <3>2, <3>3, OneOK
  <2> QED BY <2>1, <2>2
<1>9. is \in Seq(Instr)
  BY <1>5, <1>7, <1>8, ConcatType
<1>10. B \in Block /\ B.fn = Here.fn /\ B.is = w /\ C \in Block /\ C.fn = Here.fn /\ C.is = y
  <2>1. BlockHere \in Block /\ BlockHere.fn = Here.fn
    BY <1>1, EmptyBlocks
  <2>2. B \in Block /\ B.fn = Here.fn /\ B.is = w
    BY <1>5, <1>7, <2>1 DEF Block
  <2>3. C \in Block /\ C.fn = Here.fn /\ C.is = y
    BY <1>5, <1>7, <2>1 DEF Block
  <2> QED BY <2>2, <2>3
<1>11. /\ new \in Seq(Block) /\ Len(new) = 4
       /\ new[1] = B /\ new[2] = BlockHere /\ new[3] = BlockHere /\ new[4] = C
       /\ \A a \in 1..4 : new[a].fn = Here.fn
       /\ BlockHere.is = <<>>
  <2>1. new = Four(B, C)
    BY <1>5 DEF Four
  <2>2. B \in Block /\ B.fn = Here.fn /\ C \in Block /\ C.fn = Here.fn /\ open # <<>>
    BY <1>1, <1>10
  <2>3. /\ Four(B, C) \in Seq(Block) /\ Len(Four(B, C)) = 4
        /\ Four(B, C)[1] = B /\ Four(B, C)[2] = BlockHere
        /\ Four(B, C)[3] = BlockHere /\ Four(B, C)[4] = C
        /\ BlockHere.fn = Here.fn /\ BlockHere.is = <<>>
    BY <2>2, OneTwoOne
  <2>4. \A a \in 1..4 : a = 1 \/ a = 2 \/ a = 3 \/ a = 4
    OBVIOUS
  <2> QED BY <2>1, <2>2, <2>3, <2>4
<1>12. Emits(is, new, d)
  <2>1. PICK m, s, t, u, v : /\ m = Emit(is) /\ s = <<B>> /\ t = NB(2) /\ u = <<C>>
                             /\ v = s \o t
    OBVIOUS
  <2>2. /\ m \in Seq(Block) /\ s \in Seq(Block) /\ t \in Seq(Block) /\ u \in Seq(Block)
        /\ v \in Seq(Block)
    <3>1. m \in Seq(Block)
      BY <1>2, <1>9, <2>1, EmitType
    <3>2. t \in Seq(Block)
      <4>1. 2 \in Nat
        OBVIOUS
      <4> QED BY <1>1, <2>1, <4>1, EmptyBlocks
    <3>3. s \in Seq(Block) /\ u \in Seq(Block)
      BY <1>10, <2>1, OneType
    <3> QED BY <2>1, <3>1, <3>2, <3>3, ConcatType
  <2>3. d = ((m \o s) \o t) \o u
    BY <1>6, <2>1
  <2>4. (m \o s) \o t = m \o (s \o t)
    <3>1. m \in Seq(Block) /\ s \in Seq(Block) /\ t \in Seq(Block)
      BY <2>2
    <3> QED BY <3>1, ThreeInARow
  <2>5. (m \o v) \o u = m \o (v \o u)
    <3>1. m \in Seq(Block) /\ v \in Seq(Block) /\ u \in Seq(Block)
      BY <2>2
    <3> QED BY <3>1, ThreeInARow
  <2>6. d = m \o (v \o u)
    BY <2>1, <2>3, <2>4, <2>5
  <2> QED BY <1>5, <2>1, <2>6 DEF Emits
<1>13. \A a \in 1..4 : In(d, n + a, Here.fn)
  BY <1>1, <1>3, <1>9, <1>11, <1>12, FreshIn
<1>14. In(d, n1, Here.fn) /\ In(d, n2, Here.fn) /\ In(d, n3, Here.fn) /\ In(d, n4, Here.fn)
  BY <1>3, <1>13
<1>15. /\ TidySeq(y) /\ SeqOK(y, d, Here.fn) /\ Ends(y)
       /\ TidySeq(w) /\ SeqOK(w, d, Here.fn) /\ Ends(w)
  <2>1. InstrOK(x, d, Here.fn) /\ x.op \in Terminators
    BY <1>4, <1>5, <1>14, BrOK
  <2>2. PICK fn, op : fn = Here.fn /\ op = "condbr"
    OBVIOUS
  <2>3. z = Branch(op, 0, n2, n3) /\ op \in {"br", "condbr", "try", "match"}
    BY <1>5, <2>2
  <2>4. In(d, n2, fn) /\ In(d, n3, fn) /\ 0 \in Nat
    BY <1>14, <2>2
  <2>5. InstrOK(z, d, fn) /\ z.op = op /\ op \in Terminators
    BY <1>4, <2>3, <2>4, BranchOK
  <2>6. y = <<x>> /\ w = <<z>>
    BY <1>5
  <2> QED BY <1>7, <2>1, <2>2, <2>5, <2>6, OneOK
<1>16. TidySeq(is) /\ SeqOK(is, d, Here.fn) /\ Ends(is)
  <2>1. PICK fn : fn = Here.fn
    OBVIOUS
  <2>2. SeqOK(entry, d, fn) /\ SeqOK(y, d, fn) /\ is = entry \o y
    BY <1>5, <1>8, <1>15, <2>1
  <2>3. TidySeq(is) /\ SeqOK(is, d, fn) /\ Ends(is)
    BY <1>7, <1>8, <1>15, <2>2, TidyConcat, SeqOKConcat, EndsConcat
  <2> QED BY <2>1, <2>3
<1>17. /\ Grown(code, d, cur, is, new)
       /\ Len(d) = n + 4 /\ Ends(d[cur].is) /\ cur # n1 /\ cur # n2 /\ cur # n3 /\ cur # n4
       /\ d[n1].is = w /\ d[n2].is = <<>> /\ d[n3].is = <<>> /\ d[n4].is = y
  <2>1. /\ Grown(code, d, cur, is, new)
        /\ Len(code) \in Nat /\ Len(new) \in Nat /\ Len(d) = Len(code) + Len(new)
        /\ \A a \in 1..Len(new) : /\ Len(code) + a \in 1..Len(d) /\ d[Len(code) + a] = new[a]
                                  /\ Len(code) + a # cur
        /\ Ends(d[cur].is)
    BY <1>1, <1>9, <1>11, <1>12, <1>16, CodeAndNew
  <2> QED BY <1>3, <1>10, <1>11, <2>1
<1>18. GrowsWell(d, is, new)
  <2>1. ASSUME NEW a \in 1..4
        PROVE  TidySeq(new[a].is) /\ SeqOK(new[a].is, d, new[a].fn)
    <3>1. CASE a = 1
      BY <1>10, <1>11, <1>15, <3>1
    <3>2. CASE a \in {2, 3}
      BY <1>11, <3>2, PlainEmpty
    <3>3. CASE a = 4
      BY <1>10, <1>11, <1>15, <3>3
    <3> QED BY <3>1, <3>2, <3>3
  <2> QED BY <1>1, <1>11, <1>16, <1>17, <2>1 DEF GrowsWell
<1>19. /\ f \in Frame /\ f.kind = "forscope" /\ f.scoped = TRUE
       /\ f.brk = breakTarget /\ f.cont = continueTarget /\ f.objs = Len(cleanups)
  <2>1. "forscope" \in Kinds /\ 0 \in Nat
    BY DEF Kinds
  <2>2. PICK sc \in BOOLEAN : sc = TRUE
    OBVIOUS
  <2>3. f = NewFrame("forscope", sc, 0, 0)
    BY <1>5, <2>2
  <2>4. /\ f \in Frame /\ f.kind = "forscope" /\ f.scoped = sc
        /\ f.brk = breakTarget /\ f.cont = continueTarget /\ f.objs = Len(cleanups)
    BY <1>1, <2>1, <2>3, NewOnTop
  <2> QED BY <2>2, <2>4
<1>20. /\ h \in Frame /\ h.kind = "loop" /\ h.scoped = scoped /\ h.next = n4 /\ h.alt = n3
  <2>1. "loop" \in Kinds
    BY DEF Kinds
  <2>2. h = NewFrame("loop", scoped, n4, n3)
    BY <1>5
  <2> QED BY <1>1, <1>4, <2>1, <2>2, NewOnTop
<1>21. /\ e \in Entry /\ e.obj = Place /\ Len(declared) \in {0, 1}
       /\ inner \in Mark /\ inner.objs = Len(cleanups) + Len(declared) /\ inner.objs \in Nat
       /\ Len(cleanups') = inner.objs
       /\ ~init => cleanups' = cleanups
       /\ init => cleanups' = Append(cleanups, e)
  <2>1. e \in Entry /\ e.obj = Place
    BY <1>1, <1>3 DEF Entry
  <2>2. declared \in Seq(Entry) /\ Len(declared) \in {0, 1}
    BY <1>3, <2>1
  <2>3. inner \in Mark /\ inner.objs = Len(cleanups) + Len(declared) /\ inner.objs \in Nat
    BY <1>2, <1>3, <2>2 DEF Mark
  <2>4. Len(cleanups') = inner.objs
    BY <1>2, <1>6, <2>2, <2>3, ConcatType
  <2>5. ~init => cleanups' = cleanups
    BY <1>2, <1>3, <1>6
  <2>6. init => cleanups' = Append(cleanups, e)
    BY <1>2, <1>3, <1>6, <2>1
  <2> QED BY <2>1, <2>2, <2>3, <2>4, <2>5, <2>6
<1>22. /\ g \in Frame /\ g.kind = "loop" /\ g.scoped = scoped /\ g.next = n4 /\ g.alt = n3
       /\ g.objs = Len(cleanups')
  BY <1>5, <1>20, <1>21 DEF Frame
<1>23. FitsFns(f, Top, Here.fn, Here.fn, d)
  <2>1. Mine(f) = {} /\ f.kind \notin {"function", "lambda"}
    BY <1>19 DEF Mine
  <2>2. PICK fn \in Nat : fn = Here.fn
    BY <1>1
  <2>3. FitsFns(f, Top, fn, fn, d)
    BY <1>1, <1>19, <2>1, Fits
  <2> QED BY <2>2, <2>3
<1>24. FitsFns(g, f, Here.fn, Here.fn, d)
  <2>1. Mine(g) = {n4, n3} /\ BreakIn(g) = n3 /\ ContinueIn(g) = n4
    BY <1>22 DEF Mine, BreakIn, ContinueIn
  <2> QED BY <1>1, <1>14, <1>22, <2>1 DEF FitsFns
<1>25. open' = Append(Append(Taken, f), g)
  <2>1. Taken \in Seq(Frame)
    BY <1>1 DEF SameFrames
  <2>2. Taken \o <<f, g>> = Append(Append(Taken, f), g)
    BY <1>19, <1>22, <2>1
  <2> QED BY <1>6, <2>2
<1>26. \/ cleanups' = cleanups
       \/ \E i \in Entry : cleanups' = Append(cleanups, i) /\ DeclaredIn(d, i.obj, Here.fn)
  <2>1. CASE ~init
    BY <1>21, <2>1
  <2>2. CASE init
    <3>1. entry = <<Op("new", Place)>>
      BY <1>3, <2>2
    <3>2. 1 \in 1..Len(is) /\ is[1] = Op("new", Place)
      BY <1>5, <1>7, <1>8, <3>1
    <3>3. PICK i, o : i = 1 /\ o = Place
      OBVIOUS
    <3>4. i \in 1..Len(is) /\ is[i] = Op("new", o)
      BY <3>2, <3>3
    <3>5. DeclaredIn(d, o, code[cur].fn)
      BY <1>17, <3>4, NewDeclares
    <3>6. DeclaredIn(d, e.obj, Here.fn)
      BY <1>2, <1>21, <3>3, <3>5
    <3> QED BY <1>21, <2>2, <3>6
  <2> QED BY <2>1, <2>2
<1>27. PICK m \in Mark : m.objs = Len(cleanups) /\ m = EmptyMark
  <2>1. EmptyMark \in Mark /\ EmptyMark.objs = Len(cleanups)
    BY <1>2 DEF EmptyMark, Mark
  <2> QED BY <2>1
<1>28. scopes' = IF g.scoped THEN Append(Append(scopes, m), inner) ELSE Append(scopes, m)
  <2>1. scopes \o <<m>> = Append(scopes, m) /\ Append(scopes, m) \in Seq(Mark)
    BY <1>2, <1>27
  <2>2. PICK t : t = Append(scopes, m) /\ t \in Seq(Mark)
    BY <2>1
  <2>3. t \o <<inner>> = Append(t, inner) /\ t \o <<>> = t
    BY <1>21, <2>2
  <2>4. scopes' = t \o (IF scoped THEN <<inner>> ELSE <<>>)
    BY <1>6, <1>27, <2>1, <2>2 DEF Scope
  <2> QED BY <1>22, <2>2, <2>3, <2>4
<1>29. PICK X, b : X = {cur} \cup (Len(code) + 1)..Len(d) /\ b = cur'
  OBVIOUS
<1>30. Deals(g, d, X, b) /\ d[b].fn = Here.fn
  <2>1. Pend(g) = {n3} /\ Apart(g)
    BY <1>22 DEF Pend, Apart
  <2>2. X = {cur, n1, n2, n3, n4} /\ b = n2
    <3>1. Len(code) = n /\ Len(d) = n + 4 /\ n1 = n + 1 /\ n2 = n + 2 /\ n3 = n + 3 /\ n4 = n + 4
      BY <1>3, <1>17
    <3>2. (Len(code) + 1)..Len(d) = {n1, n2, n3, n4}
      BY <1>4, <3>1
    <3> QED BY <1>6, <1>29, <3>2
  <2>3. Ends(d[n1].is) /\ ~Ends(d[n3].is) /\ Ends(d[n4].is) /\ Ends(d[cur].is)
    BY <1>15, <1>17, PlainEmpty
  <2>4. n2 # n3
    BY <1>3, <1>4
  <2>5. d[b].fn = Here.fn
    BY <1>14, <2>2 DEF In
  <2> QED BY <2>1, <2>2, <2>3, <2>4, <2>5 DEF Deals
<1>31. TwoBodies(Taken, f, g, m, inner, d)
  BY <1>1, <1>19, <1>21, <1>22, <1>23, <1>24, <1>25, <1>27, <1>28 DEF TwoBodies
<1>32. Registers(d)
  BY <1>26 DEF Registers
<1>33. d = code' /\ X = {cur} \cup (Len(code) + 1)..Len(d) /\ b = cur'
  BY <1>5, <1>29
<1> QED BY <1>1, <1>18, <1>30, <1>31, <1>32, <1>33, OpenTwo
-----------------------------------------------------------------------------
(* Where bodies end. *)

(* The code when the body in hand has got its end. *)
LEMMA BodyEnded ==
  ASSUME VInv, open # <<>>, NEW tail \in Seq(Instr), TidySeq(tail), SeqOK(tail, code, Here.fn),
         NEW d, d = Emit(BodyEnd(tail))
  PROVE  \E F, D : /\ Held(open, F, D, d, {cur}, cleanups, scopes)
                   /\ d[cur].fn = F[Len(open)]
                   /\ Ends(tail) => Ends(d[cur].is)
<1>1. PICK F, D : /\ Held(open, F, D, code, {cur}, cleanups, scopes)
                  /\ Here.fn = F[Len(open)]
  BY Start
<1>2. PICK is : /\ Grown(code, d, cur, is, <<>>)
                /\ is = <<>> \/ (~Ends(Here.is) /\ TidySeq(is))
                /\ SeqOK(is, d, Here.fn)
                /\ Ends(tail) => Ends(d[cur].is)
  BY BodyEndGrows
<1>3. Here = code[cur]
  BY DEF Here
<1>4. PICK new \in Seq(Block) : new = <<>>
  BY EmptyType
<1>5. Len(new) = 0 /\ Grown(code, d, cur, is, new)
  BY <1>2, <1>4
<1>6. \A a \in 1..Len(new) : TidySeq(new[a].is) /\ SeqOK(new[a].is, d, new[a].fn)
  BY <1>5
<1>7. cur \in {cur} /\ (is = <<>> \/ (~Ends(code[cur].is) /\ TidySeq(is))) /\ SeqOK(is, d, code[cur].fn)
  BY <1>2, <1>3
<1>8. Held(open, F, D, d, {cur} \cup (Len(code) + 1)..Len(d), cleanups, scopes)
  BY <1>1, <1>5, <1>6, <1>7, HeldGrow
<1>9. Len(code) \in Nat /\ Len(d) = Len(code) /\ d[cur].fn = code[cur].fn
  BY <1>5, GrownHere
<1>10. {cur} \cup (Len(code) + 1)..Len(d) = {cur}
  BY <1>9
<1>11. Held(open, F, D, d, {cur}, cleanups, scopes)
  BY <1>8, <1>10
<1> QED BY <1>1, <1>2, <1>3, <1>9, <1>11

(* The block in hand is none of those that wait. *)
LEMMA HandIsNotPending ==
  ASSUME NEW o, NEW F, NEW D, NEW c, NEW X, NEW cl, NEW sc, Held(o, F, D, c, X, cl, sc),
         o # <<>>, NEW b \in Pend(o[Len(o)])
  PROVE  b \notin X /\ b \in 1..Len(c) /\ ~Ends(c[b].is) /\ Apart(o[Len(o)])
<1>1. Len(o) \in 1..Len(o)
  BY DEF Held
<1>2. BlocksOK(o, c, X)
  BY DEF Held
<1>3. /\ Pend(o[Len(o)]) \subseteq 1..Len(c) /\ Pend(o[Len(o)]) \cap X = {}
      /\ \A a \in Pend(o[Len(o)]) : ~Ends(c[a].is)
      /\ Apart(o[Len(o)])
  BY <1>1, <1>2 DEF BlocksOK
<1> QED BY <1>3

(* What the top frame's scope drops. *)
LEMMA PopIsKept ==
  ASSUME PopScope(Top.scoped)
  PROVE  cleanups' = Kept(Top, cleanups, scopes) /\ scopes' = Around(Top, scopes)
  BY DEF PopScope, Kept, Around

(* A body goes on, after its end, in the block that its handler had kept   *)
(* for it.                                                                 *)
LEMMA CloseV ==
  ASSUME VInv, open # <<>>, IInv', Top.kind # "function", Top.kind = "lambda" => Top.scoped,
         NEW tail \in Seq(Instr), TidySeq(tail), SeqOK(tail, code, Here.fn),
         code' = Emit(BodyEnd(tail)), open' = Front(open),
         cleanups' = Kept(Top, cleanups, scopes), scopes' = Around(Top, scopes),
         \/ cur' = cur /\ Pend(Top) = {} /\ Top.kind # "lambda"
         \/ /\ Ends(tail) /\ Pend(Top) = {cur'}
            /\ IF Top.kind = "lambda" THEN cur' = Top.next ELSE cur' \in Mine(Top)
  PROVE  VInv'
<1>1. PICK d, b, f : d = code' /\ b = cur' /\ f = Top
  OBVIOUS
<1>2. PICK F, D : /\ Held(open, F, D, d, {cur}, cleanups, scopes)
                  /\ d[cur].fn = F[Len(open)]
                  /\ Ends(tail) => Ends(d[cur].is)
  <2>1. d = Emit(BodyEnd(tail))
    BY <1>1
  <2> QED BY <2>1, BodyEnded
<1>3. f = open[Len(open)]
  BY <1>1 DEF Top
<1>4. \/ b = cur /\ Pend(f) = {} /\ f.kind # "lambda"
      \/ /\ Ends(tail) /\ Pend(f) = {b}
         /\ IF f.kind = "lambda" THEN b = f.next ELSE b \in Mine(f)
  BY <1>1
<1>5. b \in {cur} \cup Pend(f) /\ (f.kind = "lambda" => b = f.next)
      /\ (f.kind # "lambda" => b \in {cur} \cup Mine(f))
      /\ \A a \in {cur} \cup Pend(f) : a = b \/ Ends(d[a].is)
  BY <1>2, <1>4
<1>6. f.kind = "catch" => b # cur
  <2> SUFFICES ASSUME f.kind = "catch" PROVE b # cur
    OBVIOUS
  <2>1. Pend(f) # {}
    BY DEF Pend
  <2>2. b \in Pend(open[Len(open)])
    BY <1>3, <1>4, <2>1
  <2>3. b \notin {cur}
    BY <1>2, <2>2, HandIsNotPending
  <2> QED BY <2>3
<1>7. f.kind # "function" /\ (f.kind = "lambda" => f.scoped)
  BY <1>1
<1>8. Settled(Front(open), d, b, Kept(f, cleanups, scopes), Around(f, scopes))
  BY <1>2, <1>3, <1>5, <1>6, <1>7, SettledClose
<1>9. Settled(open', code', cur', cleanups', scopes')
  BY <1>1, <1>8
<1> QED BY <1>9 DEF VInv

(* The branch to a block of the handler. *)
LEMMA BranchOn ==
  ASSUME VInv, open # <<>>, NEW b \in Mine(Top)
  PROVE  <<Br(b)>> \in Seq(Instr) /\ TidySeq(<<Br(b)>>) /\ SeqOK(<<Br(b)>>, code, Here.fn)
         /\ Ends(<<Br(b)>>)
<1>1. In(code, b, Here.fn)
  BY TopBlocks
<1>2. b \in Nat
  <2>1. Len(code) \in Nat
    BY Start
  <2> QED BY <1>1, <2>1 DEF In
<1>3. PICK fn : fn = Here.fn
  OBVIOUS
<1>4. In(code, b, fn)
  BY <1>1, <1>3
<1>5. PICK x : x = Br(b)
  OBVIOUS
<1>6. x \in Instr /\ x.op = "br" /\ "br" \in Terminators /\ InstrOK(x, code, fn)
  BY <1>2, <1>4, <1>5, BrOK
<1>7. <<x>> \in Seq(Instr) /\ TidySeq(<<x>>) /\ SeqOK(<<x>>, code, fn) /\ Ends(<<x>>)
  BY <1>6, OneOK
<1> QED BY <1>3, <1>5, <1>7

(* The same after an instruction that is no branch and has no object. *)
LEMMA ThenBranchOn ==
  ASSUME VInv, open # <<>>, NEW b \in Mine(Top), NEW op \in {"tryleave", "clear"}
  PROVE  /\ <<Op(op, 0), Br(b)>> \in Seq(Instr) /\ TidySeq(<<Op(op, 0), Br(b)>>)
         /\ SeqOK(<<Op(op, 0), Br(b)>>, code, Here.fn) /\ Ends(<<Op(op, 0), Br(b)>>)
<1>1. In(code, b, Here.fn)
  BY TopBlocks
<1>2. b \in Nat
  <2>1. Len(code) \in Nat
    BY Start
  <2> QED BY <1>1, <2>1 DEF In
<1>3. PICK fn, n : fn = Here.fn /\ n = 0
  OBVIOUS
<1>4. In(code, b, fn) /\ n \in Nat
  BY <1>1, <1>3
<1>5. PICK x, z : x = Br(b) /\ z = Op(op, n)
  OBVIOUS
<1>6. x \in Instr /\ x.op = "br" /\ "br" \in Terminators /\ InstrOK(x, code, fn)
  BY <1>2, <1>4, <1>5, BrOK
<1>7. z \in Instr /\ z.op = op /\ InstrOK(z, code, fn)
  <2>1. op \in Ops /\ op \notin Terminators /\ op \notin {"destroy", "move"}
    BY DEF Ops, Terminators
  <2> QED BY <1>4, <1>5, <2>1, OpOK
<1>8. z.op \notin Terminators /\ x.op \in Terminators
  BY <1>6, <1>7 DEF Terminators
<1>9. <<z, x>> \in Seq(Instr) /\ TidySeq(<<z, x>>) /\ SeqOK(<<z, x>>, code, fn) /\ Ends(<<z, x>>)
  BY <1>6, <1>7, <1>8, TwoOK
<1> QED BY <1>3, <1>5, <1>9

(* An operation ends a function that has no other way on. *)
LEMMA ReturnOn ==
  ASSUME VInv, open # <<>>
  PROVE  /\ <<Op("ret", 0)>> \in Seq(Instr) /\ TidySeq(<<Op("ret", 0)>>)
         /\ SeqOK(<<Op("ret", 0)>>, code, Here.fn) /\ Ends(<<Op("ret", 0)>>)
<1>1. PICK fn, n, op : fn = Here.fn /\ n = 0 /\ op = "ret"
  OBVIOUS
<1>2. PICK z : z = Op(op, n)
  OBVIOUS
<1>3. z \in Instr /\ z.op = op /\ InstrOK(z, code, fn)
  <2>1. op \in Ops /\ op \in {"ret", "unreachable"} /\ op \notin {"destroy", "move"} /\ n \in Nat
    BY <1>1 DEF Ops, Terminators
  <2> QED BY <1>2, <2>1, OpOK
<1>4. z.op \in Terminators
  BY <1>1, <1>3 DEF Terminators
<1>5. <<z>> \in Seq(Instr) /\ TidySeq(<<z>>) /\ SeqOK(<<z>>, code, fn) /\ Ends(<<z>>)
  BY <1>3, <1>4, OneOK
<1> QED BY <1>1, <1>2, <1>5

(* The end of a block, and of the scope around a for loop. *)
LEMMA CloseBlockV ==
  ASSUME VInv, CloseBlock
  PROVE  VInv'
<1>1. IInv' /\ IInv
  BY CloseBlockIInv DEF VInv
<1>2. open # <<>> /\ Top.kind \in {"block", "forscope"}
  BY DEF CloseBlock, CanClose
<1>3. Top.scoped
  BY <1>1, <1>2, TopFacts DEF FrameOK
<1>4. PICK tail \in Seq(Instr) : tail = <<>>
  BY EmptyType
<1>5. TidySeq(tail) /\ SeqOK(tail, code, Here.fn)
  BY <1>4 DEF TidySeq, SeqOK
<1>6. /\ code' = Emit(BodyEnd(tail)) /\ open' = Front(open) /\ cur' = cur /\ PopScope(TRUE)
  BY <1>4 DEF CloseBlock
<1>7. cleanups' = Kept(Top, cleanups, scopes) /\ scopes' = Around(Top, scopes)
  BY <1>3, <1>6 DEF PopScope, Kept, Around
<1>8. Pend(Top) = {} /\ Top.kind # "function" /\ Top.kind # "lambda"
  BY <1>2 DEF Pend
<1> QED BY <1>1, <1>2, <1>5, <1>6, <1>7, <1>8, CloseV

(* The end of a loop. *)
LEMMA CloseLoopV ==
  ASSUME VInv, CloseLoop
  PROVE  VInv'
<1>1. IInv' /\ IInv
  BY CloseLoopIInv DEF VInv
<1>2. open # <<>> /\ Top.kind = "loop"
  BY DEF CloseLoop, CanClose
<1>3. Top.next \in Mine(Top) /\ Top.alt \in Mine(Top) /\ Pend(Top) = {Top.alt}
  BY <1>2 DEF Mine, Pend
<1>4. PICK tail : tail = <<Br(Top.next)>>
  OBVIOUS
<1>5. tail \in Seq(Instr) /\ TidySeq(tail) /\ SeqOK(tail, code, Here.fn) /\ Ends(tail)
  BY <1>2, <1>3, <1>4, BranchOn
<1>6. code' = Emit(BodyEnd(tail)) /\ open' = Front(open) /\ cur' = Top.alt /\ PopScope(Top.scoped)
  BY <1>4 DEF CloseLoop
<1>7. cleanups' = Kept(Top, cleanups, scopes) /\ scopes' = Around(Top, scopes)
  BY <1>6, PopIsKept
<1>8. Top.kind # "function" /\ Top.kind # "lambda"
  BY <1>2
<1> QED BY <1>1, <1>2, <1>3, <1>5, <1>6, <1>7, <1>8, CloseV

(* The end of a catch clause. *)
LEMMA CloseCatchV ==
  ASSUME VInv, CloseCatch
  PROVE  VInv'
<1>1. IInv' /\ IInv
  BY CloseCatchIInv DEF VInv
<1>2. open # <<>> /\ Top.kind = "catch"
  BY DEF CloseCatch, CanClose
<1>3. Top.next \in Mine(Top) /\ Top.alt \in Mine(Top) /\ Pend(Top) = {Top.alt}
  BY <1>2 DEF Mine, Pend
<1>4. PICK op, tail : op = "clear" /\ tail = <<Op(op, 0), Br(Top.next)>>
  OBVIOUS
<1>5. tail \in Seq(Instr) /\ TidySeq(tail) /\ SeqOK(tail, code, Here.fn) /\ Ends(tail)
  BY <1>2, <1>3, <1>4, ThenBranchOn
<1>6. code' = Emit(BodyEnd(tail)) /\ open' = Front(open) /\ cur' = Top.alt /\ PopScope(TRUE)
  BY <1>4 DEF CloseCatch
<1>7. Top.scoped
  BY <1>1, <1>2, TopFacts DEF FrameOK
<1>8. cleanups' = Kept(Top, cleanups, scopes) /\ scopes' = Around(Top, scopes)
  BY <1>6, <1>7 DEF PopScope, Kept, Around
<1>9. Top.kind # "function" /\ Top.kind # "lambda"
  BY <1>2
<1> QED BY <1>1, <1>2, <1>3, <1>5, <1>6, <1>8, <1>9, CloseV

(* The end of a lambda. *)
LEMMA CloseLambdaV ==
  ASSUME VInv, CloseLambda
  PROVE  VInv'
<1>1. IInv' /\ IInv
  BY CloseLambdaIInv DEF VInv
<1>2. open # <<>> /\ Top.kind = "lambda"
  BY DEF CloseLambda, CanClose
<1>3. Pend(Top) = {Top.next}
  BY <1>2 DEF Pend
<1>4. PICK tail : tail = <<Op("ret", 0)>>
  OBVIOUS
<1>5. tail \in Seq(Instr) /\ TidySeq(tail) /\ SeqOK(tail, code, Here.fn) /\ Ends(tail)
  BY <1>2, <1>4, ReturnOn
<1>6. code' = Emit(BodyEnd(tail)) /\ open' = Front(open) /\ cur' = Top.next /\ PopScope(TRUE)
  BY <1>4 DEF CloseLambda
<1>7. Top.scoped
  BY <1>1, <1>2, TopFacts DEF FrameOK
<1>8. cleanups' = Kept(Top, cleanups, scopes) /\ scopes' = Around(Top, scopes)
  BY <1>6, <1>7 DEF PopScope, Kept, Around
<1>9. Top.kind # "function"
  BY <1>2
<1> QED BY <1>1, <1>2, <1>3, <1>5, <1>6, <1>7, <1>8, <1>9, CloseV

(* The objects of a body's scope are those from its first on. *)
LEMMA KeptReaches ==
  ASSUME NEW o, NEW F, NEW D, NEW c, NEW X, NEW cl, NEW sc, Held(o, F, D, c, X, cl, sc),
         o # <<>>, NEW f, f = o[Len(o)]
  PROVE  f.objs <= Len(Kept(f, cl, sc))
<1>1. PICK n, k : n = Len(cl) /\ k = Len(o)
  OBVIOUS
<1>2. o \in Seq(Frame) /\ k \in 1..Len(o) /\ k \in Nat /\ n \in Nat /\ cl \in Seq(Entry) /\ f \in Frame
  BY <1>1 DEF Held
<1>3. MarksOK(o, D, sc, n)
  BY <1>1 DEF Held
<1>4. f.objs \in Nat /\ f.objs <= n
  BY <1>1, <1>2, <1>3 DEF MarksOK, Frame
<1>5. f.scoped => sc[Len(sc)].objs = f.objs
  BY <1>1, <1>2, <1>3 DEF MarksOK
<1>6. CASE f.scoped
  <2>1. Kept(f, cl, sc) = SubSeq(cl, 1, f.objs)
    BY <1>5, <1>6 DEF Kept
  <2>2. Len(SubSeq(cl, 1, f.objs)) = f.objs
    BY <1>1, <1>2, <1>4
  <2> QED BY <1>4, <2>1, <2>2
<1>7. CASE ~f.scoped
  BY <1>1, <1>4, <1>7 DEF Kept
<1> QED BY <1>6, <1>7

(* The jump targets that a handler has saved are those of the body below.  *)
LEMMA SavedBelow ==
  ASSUME IInv, open # <<>>, Top.kind # "function"
  PROVE  Top.brk = BreakIn(open[Len(open) - 1]) /\ Top.cont = ContinueIn(open[Len(open) - 1])
<1>1. Len(open) \in Nat /\ Len(open) # 1 /\ open \in Seq(Frame)
  BY TopFacts
<1>2. Len(open) - 1 \in 1..(Len(open) - 1) /\ (Len(open) - 1) + 1 = Len(open)
  <2>1. PICK n : n = Len(open)
    OBVIOUS
  <2>2. n \in Nat /\ n # 0 /\ n # 1
    BY <1>1, <2>1
  <2>3. n - 1 \in 1..(n - 1) /\ (n - 1) + 1 = n
    BY <2>2
  <2> QED BY <2>1, <2>3
<1> QED BY <1>2 DEF IInv, JumpsOK, Top

(* A handler goes on to its next body, whose frame is g. *)
LEMMA NextV ==
  ASSUME VInv, open # <<>>, IInv', Top.kind \in {"then", "case", "try"},
         NEW tail \in Seq(Instr), TidySeq(tail), SeqOK(tail, code, Here.fn), Ends(tail),
         code' = Emit(BodyEnd(tail)),
         cleanups' = Kept(Top, cleanups, scopes), scopes' = Around(Top, scopes),
         NEW g \in Frame, open' = [open EXCEPT ![Len(open)] = g],
         g.kind \in {"elsehead", "case", "dispatch"}, ~g.scoped,
         Mine(g) \subseteq Mine(Top), Pend(g) \subseteq Pend(Top), Apart(g),
         IF g.kind = "case" THEN g.next \in Mine(Top) ELSE g.brk = Top.brk,
         g.next = Top.next, g.cont = Top.cont, g.objs = Top.objs \/ g.objs = Len(cleanups'),
         cur' \in Pend(Top), cur' \notin Pend(g), cur' \in Mine(Top),
         \A a \in Pend(Top) : a = cur' \/ a \in Pend(g)
  PROVE  VInv'
<1>1. PICK d, b, f, e, t : /\ d = code' /\ b = cur' /\ f = Top
                           /\ e = cleanups' /\ t = scopes'
  OBVIOUS
<1>2. PICK F, D : /\ Held(open, F, D, d, {cur}, cleanups, scopes)
                  /\ d[cur].fn = F[Len(open)]
                  /\ Ends(d[cur].is)
  <2>1. d = Emit(BodyEnd(tail))
    BY <1>1
  <2> QED BY <2>1, BodyEnded
<1>3. f = open[Len(open)] /\ f \in Frame
  BY <1>1, Start DEF Top
<1>4. e = Kept(f, cleanups, scopes) /\ t = Around(f, scopes) /\ t \in Seq(Mark) /\ Len(e) \in Nat
  <2>1. t \in Seq(Mark) /\ e \in Seq(Entry)
    BY <1>1 DEF IInv, TypeOK
  <2> QED BY <1>1, <2>1
<1>5. f.objs <= Len(Kept(f, cleanups, scopes))
  BY <1>2, <1>3, KeptReaches
<1>6. f.objs <= g.objs /\ g.objs <= Len(Kept(f, cleanups, scopes))
  <2>1. f.objs \in Nat /\ Len(Kept(f, cleanups, scopes)) \in Nat
    BY <1>3, <1>4 DEF Frame
  <2>2. g.objs = f.objs \/ g.objs = Len(Kept(f, cleanups, scopes))
    BY <1>1, <1>4
  <2> QED BY <1>5, <2>1, <2>2
<1>7. f.kind \notin {"function", "lambda", "catch"} /\ f.kind \in {"then", "case", "try"}
      /\ g.kind \notin {"function", "lambda", "catch", "loop"}
  BY <1>1
<1>8. f.brk = BreakIn(open[Len(open) - 1]) /\ f.cont = ContinueIn(open[Len(open) - 1])
  BY <1>1, <1>7, SavedBelow DEF VInv
<1>9. /\ g.kind = "case" => BreakIn(g) \in Mine(g)
      /\ g.kind # "case" => BreakIn(g) = BreakIn(open[Len(open) - 1])
      /\ ContinueIn(g) = ContinueIn(open[Len(open) - 1])
  <2>1. g.kind = "case" => BreakIn(g) \in Mine(g)
    BY DEF BreakIn, Mine
  <2>2. g.kind # "case" => BreakIn(g) = g.brk
    BY <1>7 DEF BreakIn
  <2>3. ContinueIn(g) = g.cont
    BY <1>7 DEF ContinueIn
  <2> QED BY <1>1, <1>8, <2>1, <2>2, <2>3
<1>10. Mine(g) \subseteq Mine(f) /\ Pend(g) \subseteq Pend(f)
  BY <1>1
<1>11. IF g.scoped THEN \E x \in Mark : x.objs = g.objs /\ t = Append(Around(f, scopes), x)
                   ELSE t = Around(f, scopes)
  BY <1>4
<1>12. b \in {cur} \cup Pend(f) /\ b \notin Pend(g) /\ b \in {cur} \cup Mine(f)
       /\ \A a \in {cur} \cup Pend(f) : a = b \/ a \in Pend(g) \/ Ends(d[a].is)
  BY <1>1, <1>2
<1>13. b # cur
  <2>1. b \in Pend(open[Len(open)])
    BY <1>1, <1>3
  <2>2. b \notin {cur}
    BY <1>2, <2>1, HandIsNotPending
  <2> QED BY <2>2
<1>14. Settled([open EXCEPT ![Len(open)] = g], d, b, Kept(f, cleanups, scopes), t)
  BY <1>2, <1>3, <1>4, <1>6, <1>7, <1>9, <1>10, <1>11, <1>12, <1>13, SettledNext
<1>15. Settled(open', code', cur', cleanups', scopes')
  BY <1>1, <1>4, <1>14
<1> QED BY <1>15 DEF VInv

(* The end of a branch: with an else branch to come, or without. *)
LEMMA CloseBranchV ==
  ASSUME VInv, CloseBranch
  PROVE  VInv'
<1>1. IInv' /\ IInv
  BY CloseBranchIInv DEF VInv
<1>2. open # <<>> /\ Top.kind \in {"then", "else"}
  BY DEF CloseBranch, CanClose
<1>3. /\ Top.next \in 1..Len(code) /\ (Top.kind = "then" => Top.alt \in 0..Len(code))
      /\ Len(code) \in Nat /\ Top \in Frame
  <2>1. FrameOK(Top, Len(code)) /\ Len(code) \in Nat
    BY <1>1, <1>2, TopFacts
  <2>2. Top \in Frame
    BY <1>2, Start
  <2> QED BY <1>2, <2>1, <2>2 DEF FrameOK
<1>4. Top.next # 0 /\ Top.next \in Mine(Top)
  <2>1. Top.next # 0
    BY <1>3
  <2> QED BY <1>2, <2>1 DEF Mine
<1>5. PICK tail : tail = <<Br(Top.next)>>
  OBVIOUS
<1>6. tail \in Seq(Instr) /\ TidySeq(tail) /\ SeqOK(tail, code, Here.fn) /\ Ends(tail)
  BY <1>2, <1>4, <1>5, BranchOn
<1>7. code' = Emit(BodyEnd(tail)) /\ PopScope(Top.scoped)
  BY <1>5 DEF CloseBranch
<1>8. cleanups' = Kept(Top, cleanups, scopes) /\ scopes' = Around(Top, scopes)
  BY <1>7, PopIsKept
<1>9. CASE Top.kind = "then" /\ Top.alt # 0
  <2>1. PICK g : g = [Top EXCEPT !.kind = "elsehead", !.scoped = FALSE, !.begun = FALSE]
    OBVIOUS
  <2>2. /\ g \in Frame /\ g.kind = "elsehead" /\ ~g.scoped /\ g.next = Top.next
        /\ g.alt = Top.alt /\ g.brk = Top.brk /\ g.cont = Top.cont /\ g.objs = Top.objs
    BY <1>3, <2>1 DEF Frame, Kinds
  <2>3. cur' = Top.alt /\ open' = [open EXCEPT ![Len(open)] = g]
    BY <1>9, <2>1 DEF CloseBranch, WithTop
  <2>4. Pend(Top) = {Top.next, Top.alt} /\ Mine(Top) = {Top.next, Top.alt}
    BY <1>4, <1>9 DEF Pend, Mine
  <2>5. Pend(g) = {Top.next} /\ Mine(g) = {Top.next, Top.alt}
    BY <1>4, <1>9, <2>2 DEF Pend, Mine
  <2>6. Top.next # Top.alt
    <3>1. PICK F, D : Held(open, F, D, code, {cur}, cleanups, scopes)
      BY <1>2, Start
    <3>2. Top.next \in Pend(open[Len(open)])
      BY <2>4 DEF Top
    <3>3. Apart(Top)
      BY <1>2, <3>1, <3>2, HandIsNotPending DEF Top
    <3> QED BY <1>9, <3>3 DEF Apart
  <2>7. Apart(g)
    BY <2>2 DEF Apart
  <2> QED BY <1>1, <1>2, <1>6, <1>7, <1>8, <1>9, <2>2, <2>3, <2>4, <2>5, <2>6, <2>7, NextV
<1>10. CASE ~(Top.kind = "then" /\ Top.alt # 0)
  <2>1. cur' = Top.next /\ open' = Front(open)
    BY <1>10 DEF CloseBranch
  <2>2. Pend(Top) = {cur'}
    BY <1>2, <1>4, <1>10, <2>1 DEF Pend
  <2>3. Top.kind # "function" /\ Top.kind # "lambda" /\ cur' \in Mine(Top)
    BY <1>2, <1>4, <2>1
  <2> QED BY <1>1, <1>2, <1>6, <1>7, <1>8, <2>1, <2>2, <2>3, CloseV
<1> QED BY <1>9, <1>10

(* The end of a try body: the clauses come next. *)
LEMMA CloseTryBodyV ==
  ASSUME VInv, CloseTryBody
  PROVE  VInv'
<1>1. IInv' /\ IInv
  BY CloseTryBodyIInv DEF VInv
<1>2. open # <<>> /\ Top.kind = "try" /\ Top \in Frame
  <2>1. open # <<>> /\ Top.kind = "try"
    BY DEF CloseTryBody, CanClose
  <2> QED BY <2>1, Start
<1>3. Top.next \in Mine(Top) /\ Mine(Top) = {Top.next, Top.alt} /\ Pend(Top) = {Top.next, Top.alt}
  BY <1>2 DEF Mine, Pend
<1>4. PICK op, tail : op = "tryleave" /\ tail = <<Op(op, 0), Br(Top.next)>>
  OBVIOUS
<1>5. tail \in Seq(Instr) /\ TidySeq(tail) /\ SeqOK(tail, code, Here.fn) /\ Ends(tail)
  BY <1>2, <1>3, <1>4, ThenBranchOn
<1>6. PICK g : g = [Top EXCEPT !.kind = "dispatch", !.within = Front(Top.within)]
  OBVIOUS
<1>7. code' = Emit(BodyEnd(tail)) /\ cur' = Top.alt /\ open' = [open EXCEPT ![Len(open)] = g]
      /\ cleanups' = cleanups /\ scopes' = scopes
  BY <1>4, <1>6 DEF CloseTryBody, WithTop
<1>8. ~Top.scoped
  BY <1>1, <1>2, TopFacts DEF FrameOK
<1>9. cleanups' = Kept(Top, cleanups, scopes) /\ scopes' = Around(Top, scopes)
  BY <1>7, <1>8 DEF Kept, Around
<1>10. /\ g \in Frame /\ g.kind = "dispatch" /\ ~g.scoped /\ g.next = Top.next
       /\ g.alt = Top.alt /\ g.brk = Top.brk /\ g.cont = Top.cont /\ g.objs = Top.objs
  <2>1. /\ g.kind = "dispatch" /\ ~g.scoped /\ g.next = Top.next
        /\ g.alt = Top.alt /\ g.brk = Top.brk /\ g.cont = Top.cont /\ g.objs = Top.objs
    BY <1>2, <1>6, <1>8 DEF Frame
  <2>2. Front(Top.within) \in Seq(Nat)
    BY <1>2, FrontType DEF Frame
  <2>3. g \in Frame
    BY <1>2, <1>6, <2>2 DEF Frame, Kinds
  <2> QED BY <2>1, <2>3
<1>11. Pend(g) = {Top.next} /\ Mine(g) = {Top.next, Top.alt} /\ Apart(g)
  BY <1>10 DEF Pend, Mine, Apart
<1>12. Top.next # Top.alt
  <2>1. PICK F, D : Held(open, F, D, code, {cur}, cleanups, scopes)
    BY <1>2, Start
  <2>2. Top.next \in Pend(open[Len(open)])
    BY <1>3 DEF Top
  <2>3. Apart(Top)
    BY <1>2, <2>1, <2>2, HandIsNotPending DEF Top
  <2> QED BY <1>2, <2>3 DEF Apart
<1> QED BY <1>1, <1>2, <1>3, <1>5, <1>7, <1>9, <1>10, <1>11, <1>12, NextV

(* The end of a finally body. *)
LEMMA CloseFinallyV ==
  ASSUME VInv, CloseFinally
  PROVE  VInv'
<1>1. IInv' /\ IInv
  BY CloseFinallyIInv DEF VInv
<1>2. open # <<>> /\ Top.kind = "finally"
  BY DEF CloseFinally, CanClose
<1>3. code' = code /\ cur' = cur /\ open' = Front(open) /\ cleanups' = cleanups /\ scopes' = scopes
  BY DEF CloseFinally
<1>4. ~Top.scoped
  BY <1>1, <1>2, TopFacts DEF FrameOK
<1>5. PICK f : f = Top
  OBVIOUS
<1>6. f = open[Len(open)] /\ f.kind = "finally" /\ Pend(f) = {} /\ ~f.scoped
  BY <1>2, <1>4, <1>5 DEF Top, Pend
<1>7. PICK F, D : /\ Held(open, F, D, code, {cur}, cleanups, scopes)
                  /\ code[cur].fn = F[Len(open)]
  BY <1>2, Start DEF Here
<1>8. f.kind # "function" /\ (f.kind = "lambda" => f.scoped) /\ (f.kind = "lambda" => cur = f.next)
      /\ (f.kind = "catch" => cur # cur)
      /\ cur \in {cur} \cup Pend(f) /\ (f.kind # "lambda" => cur \in {cur} \cup Mine(f))
      /\ \A a \in {cur} \cup Pend(f) : a = cur \/ Ends(code[a].is)
  BY <1>6
<1>9. Settled(Front(open), code, cur, Kept(f, cleanups, scopes), Around(f, scopes))
  BY <1>2, <1>6, <1>7, <1>8, SettledClose
<1>10. Settled(open', code', cur', cleanups', scopes')
  BY <1>3, <1>6, <1>9 DEF Kept, Around
<1> QED BY <1>1, <1>10 DEF VInv

(* The end of a case: of the last one, or with the next to come. *)
LEMMA CloseCaseV ==
  ASSUME VInv, CloseCase
  PROVE  VInv'
<1>1. IInv' /\ IInv
  BY CloseCaseIInv DEF VInv
<1>2. open # <<>> /\ Top.kind = "case" /\ Top \in Frame
  <2>1. open # <<>> /\ Top.kind = "case"
    BY DEF CloseCase, CanClose
  <2> QED BY <2>1, Start
<1>3. /\ Top.alt \in Nat /\ Top.fin \in Nat /\ Top.next \in Nat /\ Top.alt <= Top.fin
      /\ ~Top.scoped /\ Len(cleanups) \in Nat /\ Len(defers) \in Nat
  <2>1. FrameOK(Top, Len(code))
    BY <1>1, <1>2, TopFacts
  <2>2. Top.alt <= Top.fin /\ ~Top.scoped
    BY <1>2, <2>1 DEF FrameOK
  <2>3. Top.alt \in Nat /\ Top.fin \in Nat /\ Top.next \in Nat
    BY <1>2 DEF Frame
  <2> QED BY <1>1, <1>2, <2>2, <2>3, TopFacts
<1>4. Pend(Top) = {Top.next} \cup (Top.alt + 1)..Top.fin /\ Mine(Top) = {Top.next} \cup Top.alt..Top.fin
  BY <1>2 DEF Pend, Mine
<1>5. Top.next < Top.alt
  <2>1. PICK F, D : Held(open, F, D, code, {cur}, cleanups, scopes)
    BY <1>2, Start
  <2>2. Top.next \in Pend(open[Len(open)])
    BY <1>4 DEF Top
  <2>3. Apart(Top)
    BY <1>2, <2>1, <2>2, HandIsNotPending DEF Top
  <2> QED BY <1>2, <2>3 DEF Apart
<1>6. cleanups' = cleanups /\ scopes' = scopes
  BY DEF CloseCase
<1>7. cleanups' = Kept(Top, cleanups, scopes) /\ scopes' = Around(Top, scopes)
  BY <1>3, <1>6 DEF Kept, Around
<1>8. CASE Top.alt = Top.fin
  <2>1. PICK tail : tail = <<Br(Top.next)>>
    OBVIOUS
  <2>2. Top.next \in Mine(Top) /\ Pend(Top) = {Top.next}
    BY <1>3, <1>4, <1>8
  <2>3. tail \in Seq(Instr) /\ TidySeq(tail) /\ SeqOK(tail, code, Here.fn) /\ Ends(tail)
    BY <1>2, <2>1, <2>2, BranchOn
  <2>4. code' = Emit(BodyEnd(tail)) /\ cur' = Top.next /\ open' = Front(open)
    BY <1>8, <2>1 DEF CloseCase
  <2>5. Top.kind # "function" /\ Top.kind # "lambda"
    BY <1>2
  <2> QED BY <1>1, <1>2, <1>7, <2>2, <2>3, <2>4, <2>5, CloseV
<1>9. CASE Top.alt # Top.fin
  <2>1. Top.alt + 1 \in (Top.alt + 1)..Top.fin /\ Top.alt + 1 \in Top.alt..Top.fin
    BY <1>3, <1>9
  <2>2. PICK b : b \in {Top.alt + 1, Top.next} /\ code' = Emit(BodyEnd(<<Br(b)>>))
    <3>1. PICK fallthrough \in (IF Top.begun THEN BOOLEAN ELSE {TRUE}) :
            code' = Emit(BodyEnd(<<Br(IF fallthrough THEN Top.alt + 1 ELSE Top.next)>>))
      BY <1>9 DEF CloseCase
    <3> QED BY <3>1
  <2>3. b \in Mine(Top)
    BY <1>4, <2>1, <2>2
  <2>4. PICK tail : tail = <<Br(b)>>
    OBVIOUS
  <2>5. tail \in Seq(Instr) /\ TidySeq(tail) /\ SeqOK(tail, code, Here.fn) /\ Ends(tail)
    BY <1>2, <2>3, <2>4, BranchOn
  <2>6. code' = Emit(BodyEnd(tail))
    BY <2>2, <2>4
  <2>7. PICK g : g = [Top EXCEPT !.alt = Top.alt + 1, !.begun = FALSE,
                                 !.objs = Len(cleanups), !.defs = Len(defers)]
    OBVIOUS
  <2>8. cur' = Top.alt + 1 /\ open' = [open EXCEPT ![Len(open)] = g]
    BY <1>9, <2>7 DEF CloseCase, WithTop
  <2>9. /\ g.kind = "case" /\ ~g.scoped /\ g.next = Top.next /\ g.alt = Top.alt + 1 /\ g.fin = Top.fin
        /\ g.brk = Top.brk /\ g.cont = Top.cont /\ g.objs = Len(cleanups)
    BY <1>2, <1>3, <2>7 DEF Frame
  <2>10. g \in Frame
    <3>1. Top.alt + 1 \in Nat
      BY <1>3
    <3> QED BY <1>2, <1>3, <2>7, <3>1 DEF Frame
  <2>11. Pend(g) = {Top.next} \cup ((Top.alt + 1) + 1)..Top.fin
         /\ Mine(g) = {Top.next} \cup (Top.alt + 1)..Top.fin
    BY <2>9 DEF Pend, Mine
  <2>12. Apart(g)
    <3>1. Top.next < Top.alt + 1
      BY <1>3, <1>5
    <3> QED BY <2>9, <3>1 DEF Apart
  <2>13. Mine(g) \subseteq Mine(Top) /\ Pend(g) \subseteq Pend(Top)
    <3>1. (Top.alt + 1)..Top.fin \subseteq Top.alt..Top.fin
          /\ ((Top.alt + 1) + 1)..Top.fin \subseteq (Top.alt + 1)..Top.fin
      BY <1>3
    <3> QED BY <1>4, <2>11, <3>1
  <2>14. cur' \in Pend(Top) /\ cur' \in Mine(Top)
    BY <1>4, <2>1, <2>8
  <2>15. cur' \notin Pend(g)
    <3>1. Top.alt + 1 # Top.next /\ Top.alt + 1 \notin ((Top.alt + 1) + 1)..Top.fin
      BY <1>3, <1>5
    <3> QED BY <2>8, <2>11, <3>1
  <2>16. \A a \in Pend(Top) : a = cur' \/ a \in Pend(g)
    <3>1. \A a \in (Top.alt + 1)..Top.fin : a = Top.alt + 1 \/ a \in ((Top.alt + 1) + 1)..Top.fin
      BY <1>3
    <3> QED BY <1>4, <2>8, <2>11, <3>1
  <2>17. g.next \in Mine(Top) /\ g.objs = Len(cleanups')
    BY <1>4, <1>6, <2>9
  <2>18. IF g.kind = "case" THEN g.next \in Mine(Top) ELSE g.brk = Top.brk
    BY <2>9, <2>17
  <2>19. g.kind \in {"elsehead", "case", "dispatch"} /\ Top.kind \in {"then", "case", "try"}
    BY <1>2, <2>9
  <2> QED BY <1>1, <1>2, <1>7, <2>5, <2>6, <2>8, <2>9, <2>10, <2>12, <2>13, <2>14, <2>15,
             <2>16, <2>17, <2>18, <2>19, NextV
<1> QED BY <1>8, <1>9

(* The start of an else branch. *)
LEMMA OpenElseV ==
  ASSUME VInv, OpenElse
  PROVE  VInv'
<1>1. IInv' /\ IInv
  BY OpenElseIInv DEF VInv
<1>2. open # <<>> /\ Top.kind = "elsehead" /\ Top \in Frame /\ Len(cleanups) \in Nat /\ Len(defers) \in Nat
  <2>1. open # <<>> /\ Top.kind = "elsehead"
    BY DEF OpenElse
  <2> QED BY <1>1, <2>1, Start, TopFacts
<1>3. PICK scoped \in BOOLEAN :
        /\ scopes' = scopes \o Scope(scoped)
        /\ open' = WithTop([Top EXCEPT !.kind = "else", !.scoped = scoped,
                                      !.objs = Len(cleanups), !.defs = Len(defers)])
  BY DEF OpenElse, BodyScoping
<1>4. PICK g, f, t : /\ g = [Top EXCEPT !.kind = "else", !.scoped = scoped,
                                        !.objs = Len(cleanups), !.defs = Len(defers)]
                     /\ f = Top /\ t = scopes'
  OBVIOUS
<1>5. /\ code' = code /\ cur' = cur /\ cleanups' = cleanups
      /\ open' = [open EXCEPT ![Len(open)] = g]
  BY <1>3, <1>4 DEF OpenElse, WithTop
<1>6. /\ g.kind = "else" /\ g.scoped = scoped /\ g.next = f.next /\ g.alt = f.alt
      /\ g.brk = f.brk /\ g.cont = f.cont /\ g.objs = Len(cleanups)
  BY <1>2, <1>4 DEF Frame
<1>7. g \in Frame
  BY <1>2, <1>4 DEF Frame, Kinds
<1>8. f = open[Len(open)] /\ f \in Frame /\ f.kind = "elsehead" /\ ~f.scoped
  <2>1. ~Top.scoped
    BY <1>1, <1>2, TopFacts DEF FrameOK
  <2> QED BY <1>2, <1>4, <2>1 DEF Top
<1>9. PICK F, D : /\ Held(open, F, D, code, {cur}, cleanups, scopes)
                  /\ code[cur].fn = F[Len(open)]
  BY <1>2, Start DEF Here
<1>10. Pend(g) = Pend(f) /\ Mine(g) = Mine(f) /\ Apart(g)
  BY <1>6, <1>8 DEF Pend, Mine, Apart
<1>11. cur \notin Pend(g)
  BY <1>2, <1>8, <1>9, <1>10, HandIsNotPending
<1>12. f.brk = BreakIn(open[Len(open) - 1]) /\ f.cont = ContinueIn(open[Len(open) - 1])
  <2>1. Top.kind # "function"
    BY <1>2
  <2> QED BY <1>1, <1>2, <1>4, <2>1, SavedBelow
<1>13. BreakIn(g) = BreakIn(open[Len(open) - 1]) /\ ContinueIn(g) = ContinueIn(open[Len(open) - 1])
  <2>1. BreakIn(g) = g.brk /\ ContinueIn(g) = g.cont
    BY <1>6 DEF BreakIn, ContinueIn
  <2> QED BY <1>6, <1>12, <2>1
<1>14. Kept(f, cleanups, scopes) = cleanups /\ Around(f, scopes) = scopes
  BY <1>8 DEF Kept, Around
<1>15. f.objs <= g.objs /\ g.objs <= Len(Kept(f, cleanups, scopes))
  <2>1. f.objs <= Len(Kept(f, cleanups, scopes))
    BY <1>2, <1>8, <1>9, KeptReaches
  <2> QED BY <1>2, <1>6, <1>14, <2>1
<1>16. t \in Seq(Mark)
  BY <1>1, <1>4 DEF IInv, TypeOK
<1>17. IF g.scoped THEN \E x \in Mark : x.objs = g.objs /\ t = Append(Around(f, scopes), x)
                   ELSE t = Around(f, scopes)
  <2>1. EmptyMark \in Mark /\ EmptyMark.objs = Len(cleanups) /\ scopes \in Seq(Mark)
    BY <1>1, <1>2, TopFacts DEF EmptyMark, Mark
  <2>2. CASE scoped
    <3>1. t = Append(scopes, EmptyMark)
      <4>1. t = scopes \o <<EmptyMark>>
        BY <1>3, <1>4, <2>2 DEF Scope
      <4> QED BY <2>1, <4>1
    <3> QED BY <1>6, <1>14, <2>1, <2>2, <3>1
  <2>3. CASE ~scoped
    <3>1. t = scopes \o <<>>
      BY <1>3, <1>4, <2>3 DEF Scope
    <3> QED BY <1>6, <1>14, <2>1, <2>3, <3>1
  <2> QED BY <2>2, <2>3
<1>18. f.kind \notin {"function", "lambda", "catch"}
       /\ g.kind \notin {"function", "lambda", "catch", "loop"}
       /\ g.kind # "case" /\ g.kind # "dispatch"
  BY <1>6, <1>8
<1>19. Mine(g) \subseteq Mine(f) /\ Pend(g) \subseteq Pend(f)
       /\ cur \in {cur} \cup Pend(f) /\ cur \in {cur} \cup Mine(f)
       /\ \A a \in {cur} \cup Pend(f) : a = cur \/ a \in Pend(g) \/ Ends(code[a].is)
  BY <1>10
<1>20. Settled([open EXCEPT ![Len(open)] = g], code, cur, Kept(f, cleanups, scopes), t)
  BY <1>2, <1>7, <1>8, <1>9, <1>10, <1>11, <1>13, <1>15, <1>16, <1>17, <1>18, <1>19, SettledNext
<1>21. Settled(open', code', cur', cleanups', scopes')
  BY <1>4, <1>5, <1>14, <1>20
<1> QED BY <1>1, <1>21 DEF VInv

(* A for loop of either kind. *)
LEMMA OpenForV ==
  ASSUME VInv, ~Uses("DeadCode"), OpenFor \/ OpenForEach
  PROVE  VInv'
<1>1. IInv' /\ CanOpen
  BY OpenForIInv DEF VInv, OpenFor, OpenForEach
<1>2. PICK init \in BOOLEAN, scoped \in BOOLEAN : ForLoop(init, scoped)
  <2>1. CASE OpenFor
    BY <2>1 DEF OpenFor, BodyScoping
  <2>2. CASE OpenForEach
    BY <2>2 DEF OpenForEach, BodyScoping
  <2> QED BY <2>1, <2>2
<1> QED BY <1>1, <1>2, ForV

(* The end of a function: nothing is open any more. *)
LEMMA CloseFunctionV ==
  ASSUME VInv, CloseFunction
  PROVE  VInv'
<1>1. IInv' /\ IInv
  BY CloseFunctionIInv DEF VInv
<1>2. open # <<>> /\ Top.kind = "function"
  BY DEF CloseFunction, CanClose
<1>3. Len(open) = 1 /\ Top.scoped /\ open \in Seq(Frame)
  <2>1. Len(open) = 1 /\ open \in Seq(Frame) /\ FrameOK(Top, Len(code))
    BY <1>1, <1>2, TopFacts
  <2> QED BY <1>2, <2>1 DEF FrameOK
<1>4. PICK tail : tail = <<Op("ret", 0)>>
  OBVIOUS
<1>5. tail \in Seq(Instr) /\ TidySeq(tail) /\ SeqOK(tail, code, Here.fn) /\ Ends(tail)
  BY <1>2, <1>4, ReturnOn
<1>6. PICK d, f, p, e, t : /\ d = code' /\ f = Top /\ p = Front(open) /\ e = cleanups' /\ t = scopes'
  OBVIOUS
<1>7. d = Emit(BodyEnd(tail)) /\ PopScope(TRUE) /\ open' = <<>>
  BY <1>4, <1>6 DEF CloseFunction
<1>8. e = Kept(f, cleanups, scopes) /\ t = Around(f, scopes)
  BY <1>3, <1>6, <1>7 DEF PopScope, Kept, Around
<1>9. PICK F, D : Held(open, F, D, d, {cur}, cleanups, scopes) /\ Ends(d[cur].is)
  BY <1>2, <1>5, <1>7, BodyEnded
<1>10. f = open[Len(open)] /\ f.kind = "function" /\ (f.kind = "lambda" => f.scoped)
  BY <1>2, <1>6 DEF Top
<1>11. Held(p, Front(F), Front(D), d, {cur} \cup Pend(f), e, t)
  BY <1>2, <1>6, <1>8, <1>9, <1>10, HeldOff, SMTT(40)
<1>12. {cur} \cup Pend(f) = {cur}
  BY <1>10 DEF Pend
<1>13. Held(p, Front(F), Front(D), d, {}, e, t)
  <2>1. {} \subseteq {cur} /\ \A a \in {cur} : a \in {} \/ Ends(d[a].is)
    BY <1>9
  <2>2. Held(p, Front(F), Front(D), d, {cur}, e, t)
    BY <1>11, <1>12
  <2> QED BY <2>1, <2>2, HeldDrop
<1>14. p = <<>>
  BY <1>3, <1>6 DEF Front
<1>15. Settled(p, d, cur', e, t)
  <2>1. Held(p, Front(F), Front(D), d, IF p = <<>> THEN {} ELSE {cur'}, e, t)
    BY <1>13, <1>14
  <2> QED BY <1>14, <2>1, Zenon DEF Settled
<1>16. Settled(open', code', cur', cleanups', scopes')
  BY <1>6, <1>7, <1>14, <1>15
<1> QED BY <1>1, <1>16 DEF VInv

(* Code is added to the block in hand. *)
LEMMA SettledGrow ==
  ASSUME NEW o, NEW c, NEW b, NEW cl, NEW sc, Settled(o, c, b, cl, sc),
         o # <<>>, o[Len(o)].kind # "dispatch", ~Ends(c[b].is),
         NEW d, NEW is, Grown(c, d, b, is, <<>>), TidySeq(is), SeqOK(is, d, c[b].fn)
  PROVE  Settled(o, d, b, cl, sc)
<1>1. PICK F, D : Held(o, F, D, c, {b}, cl, sc) /\ c[b].fn = F[Len(o)]
  BY DEF Settled
<1>2. PICK new \in Seq(Block) : new = <<>>
  BY EmptyType
<1>3. Grown(c, d, b, is, new) /\ Len(new) = 0
  BY <1>2
<1>4. \A a \in 1..Len(new) : TidySeq(new[a].is) /\ SeqOK(new[a].is, d, new[a].fn)
  BY <1>3
<1>5. b \in {b} /\ (is = <<>> \/ (~Ends(c[b].is) /\ TidySeq(is))) /\ SeqOK(is, d, c[b].fn)
  OBVIOUS
<1>6. Held(o, F, D, d, {b} \cup (Len(c) + 1)..Len(d), cl, sc)
  BY <1>1, <1>3, <1>4, <1>5, HeldGrow
<1>7. Len(c) \in Nat /\ Len(d) = Len(c) /\ d[b].fn = c[b].fn
  BY <1>3, GrownHere
<1>8. {b} \cup (Len(c) + 1)..Len(d) = {b}
  BY <1>7
<1>9. Held(o, F, D, d, {b}, cl, sc) /\ d[b].fn = F[Len(o)]
  BY <1>1, <1>6, <1>7, <1>8
<1> QED BY <1>9, SettledStay

(* The exception that no clause takes is thrown again. *)
LEMMA Rethrown ==
  ASSUME VInv, open # <<>>, Top.kind = "dispatch",
         NEW e, e = Emit(<<Op("throw", 0), Op("unreachable", 0)>>)
  PROVE  \E F, D : /\ Held(open, F, D, e, {cur}, cleanups, scopes)
                   /\ e[cur].fn = F[Len(open)] /\ Ends(e[cur].is)
<1>1. PICK F, D : /\ Held(open, F, D, code, {cur}, cleanups, scopes)
                  /\ Here.fn = F[Len(open)]
  BY Start
<1>2. PICK fn, n, op, end, c : /\ fn = Here.fn /\ n = 0 /\ op = "throw" /\ end = "unreachable"
                               /\ c = code
  OBVIOUS
<1>3. PICK x, z, is, new : /\ x = Op(op, n) /\ z = Op(end, n) /\ is = <<x, z>> /\ new = <<>>
  OBVIOUS
<1>4. x \in Instr /\ x.op = op /\ InstrOK(x, e, fn)
  <2>1. op \in Ops /\ op \notin Terminators /\ op \notin {"destroy", "move"} /\ n \in Nat
    BY <1>2 DEF Ops, Terminators
  <2> QED BY <1>3, <2>1, OpOK
<1>5. z \in Instr /\ z.op = end /\ InstrOK(z, e, fn)
  <2>1. end \in Ops /\ end \in {"ret", "unreachable"} /\ end \notin {"destroy", "move"} /\ n \in Nat
    BY <1>2 DEF Ops, Terminators
  <2> QED BY <1>3, <2>1, OpOK
<1>6. x.op \notin Terminators /\ z.op \in Terminators
  BY <1>2, <1>4, <1>5 DEF Terminators
<1>7. is \in Seq(Instr) /\ TidySeq(is) /\ SeqOK(is, e, fn) /\ Ends(is)
  <2>1. <<x, z>> \in Seq(Instr) /\ TidySeq(<<x, z>>) /\ SeqOK(<<x, z>>, e, fn) /\ Ends(<<x, z>>)
    BY <1>4, <1>5, <1>6, TwoOK
  <2> QED BY <1>3, <2>1
<1>8. e = Emit(is)
  BY <1>2, <1>3
<1>9. Grown(code, e, cur, is, <<>>)
  BY <1>7, <1>8, EmitHere
<1>10. Grown(code, e, cur, is, new) /\ Len(new) = 0
  BY <1>3, <1>9
<1>11. \A a \in 1..Len(new) : TidySeq(new[a].is) /\ SeqOK(new[a].is, e, new[a].fn)
  BY <1>10
<1>12. cur \in {cur} /\ (is = <<>> \/ (~Ends(code[cur].is) /\ TidySeq(is))) /\ SeqOK(is, e, code[cur].fn)
  <2>1. ~Ends(Here.is)
    BY Start
  <2> QED BY <1>2, <1>7, <2>1 DEF Here
<1>13. Held(open, F, D, e, {cur} \cup (Len(code) + 1)..Len(e), cleanups, scopes)
  BY <1>1, <1>10, <1>11, <1>12, HeldGrow
<1>14. Len(code) \in Nat /\ Len(e) = Len(code) /\ e[cur].fn = code[cur].fn /\ Ends(e[cur].is)
  BY <1>7, <1>10, GrownHere
<1>15. {cur} \cup (Len(code) + 1)..Len(e) = {cur}
  BY <1>14
<1>16. Held(open, F, D, e, {cur}, cleanups, scopes) /\ e[cur].fn = F[Len(open)]
  BY <1>1, <1>13, <1>14, <1>15 DEF Here
<1> QED BY <1>14, <1>16

(* The end of the clauses: without a finally the text goes on behind the   *)
(* statement; with one its body does.                                      *)
LEMMA CloseCatchesV ==
  ASSUME VInv, ~Uses("FinallyOnly"), CloseCatches
  PROVE  VInv'
<1>1. IInv' /\ IInv
  BY CloseCatchesIInv DEF VInv
<1>2. open # <<>> /\ Top.kind = "dispatch" /\ cur # Top.alt
  BY DEF CloseCatches
<1>3. PICK e, d, f, b : /\ e = Emit(<<Op("throw", 0), Op("unreachable", 0)>>) /\ d = code'
                        /\ f = Top /\ b = Top.next
  OBVIOUS
<1>4. PICK final : final = IF f.fin = 0 THEN <<>> ELSE <<Op("run", f.fin)>>
  OBVIOUS
<1>5. /\ d = [e EXCEPT ![b].is = @ \o final] /\ cur' = b
      /\ cleanups' = cleanups /\ scopes' = scopes
  BY <1>2, <1>3, <1>4 DEF CloseCatches
<1>6. f = open[Len(open)] /\ f \in Frame /\ f.kind = "dispatch" /\ ~f.scoped
      /\ open \in Seq(Frame) /\ scopes \in Seq(Mark) /\ Len(cleanups) \in Nat
  <2>1. ~Top.scoped
    BY <1>1, <1>2, TopFacts DEF FrameOK
  <2> QED BY <1>2, <1>3, <2>1, Start
<1>7. PICK F, D : /\ Held(open, F, D, e, {cur}, cleanups, scopes)
                  /\ e[cur].fn = F[Len(open)] /\ Ends(e[cur].is)
  BY <1>2, <1>3, Rethrown
<1>8. Pend(f) = {b} /\ b \in Mine(f)
  BY <1>3, <1>6 DEF Pend, Mine
<1>9. b \notin {cur} /\ b \in 1..Len(e) /\ ~Ends(e[b].is)
  BY <1>2, <1>6, <1>7, <1>8, HandIsNotPending
<1>10. Kept(f, cleanups, scopes) = cleanups /\ Around(f, scopes) = scopes
  BY <1>6 DEF Kept, Around
<1>11. /\ Len(open) \in Nat /\ Len(open) >= 2 /\ Front(open) # <<>>
       /\ Len(Front(open)) = Len(open) - 1
       /\ Front(open)[Len(open) - 1] = open[Len(open) - 1]
       /\ open[Len(open) - 1].kind # "dispatch"
  BY <1>2, <1>6, <1>7, BelowTop
<1>12. final \in Seq(Instr) /\ TidySeq(final) /\ SeqOK(final, d, e[b].fn)
  <2>1. CASE f.fin = 0
    BY <1>4, <2>1, EmptyType DEF TidySeq, SeqOK
  <2>2. CASE f.fin # 0
    <3>1. PICK op, n, fn : op = "run" /\ n = f.fin /\ fn = e[b].fn
      OBVIOUS
    <3>2. n \in Nat /\ op \in Ops /\ op \notin Terminators /\ op \notin {"destroy", "move"}
      BY <1>6, <3>1 DEF Ops, Terminators, Frame
    <3>3. PICK z : z = Op(op, n)
      OBVIOUS
    <3>4. z \in Instr /\ InstrOK(z, d, fn)
      BY <3>2, <3>3, OpOK
    <3>5. <<z>> \in Seq(Instr) /\ TidySeq(<<z>>) /\ SeqOK(<<z>>, d, fn)
      BY <3>4, OneOK
    <3> QED BY <1>4, <2>2, <3>1, <3>3, <3>5
  <2> QED BY <2>1, <2>2
<1>13. Grown(e, d, b, final, <<>>)
  <2>1. e \in Seq(Block)
    BY <1>7 DEF Held
  <2> QED BY <1>5, <1>9, <1>12, <2>1, EmitGrows
<1>14. PICK p : p = open'
  OBVIOUS
<1>15. Settled(p, e, b, cleanups, scopes) /\ p # <<>> /\ p[Len(p)].kind # "dispatch"
  <2>1. CASE f.fin = 0
    <3>1. p = Front(open)
      BY <1>3, <1>14, <2>1 DEF CloseCatches
    <3>2. b \in {cur} \cup Pend(f) /\ (f.kind = "lambda" => b = f.next)
          /\ (f.kind # "lambda" => b \in {cur} \cup Mine(f)) /\ (f.kind = "catch" => b # cur)
          /\ f.kind # "function" /\ (f.kind = "lambda" => f.scoped)
          /\ \A a \in {cur} \cup Pend(f) : a = b \/ Ends(e[a].is)
      BY <1>6, <1>7, <1>8
    <3>3. Settled(Front(open), e, b, Kept(f, cleanups, scopes), Around(f, scopes))
      BY <1>2, <1>6, <1>7, <3>2, SettledClose
    <3> QED BY <1>10, <1>11, <3>1, <3>3
  <2>2. CASE f.fin # 0
    <3>1. PICK g : g = [f EXCEPT !.kind = "finally"]
      OBVIOUS
    <3>2. p = [open EXCEPT ![Len(open)] = g]
      BY <1>3, <1>6, <1>14, <2>2, <3>1 DEF CloseCatches
    <3>3. /\ g \in Frame /\ g.kind = "finally" /\ ~g.scoped /\ g.brk = f.brk /\ g.cont = f.cont
          /\ g.objs = f.objs /\ g.objs \in Nat
      BY <1>6, <3>1 DEF Frame, Kinds
    <3>4. Pend(g) = {} /\ Mine(g) = {} /\ Apart(g)
      BY <3>3 DEF Pend, Mine, Apart
    <3>5. f.brk = BreakIn(open[Len(open) - 1]) /\ f.cont = ContinueIn(open[Len(open) - 1])
      <4>1. Top.kind # "function"
        BY <1>2
      <4> QED BY <1>1, <1>2, <1>3, <4>1, SavedBelow
    <3>6. BreakIn(g) = BreakIn(open[Len(open) - 1]) /\ ContinueIn(g) = ContinueIn(open[Len(open) - 1])
      <4>1. BreakIn(g) = g.brk /\ ContinueIn(g) = g.cont
        BY <3>3 DEF BreakIn, ContinueIn
      <4> QED BY <3>3, <3>5, <4>1
    <3>7. f.objs <= g.objs /\ g.objs <= Len(Kept(f, cleanups, scopes))
      <4>1. f.objs <= Len(Kept(f, cleanups, scopes))
        BY <1>2, <1>6, <1>7, KeptReaches
      <4> QED BY <3>3, <4>1
    <3>8. IF g.scoped THEN \E x \in Mark : x.objs = g.objs /\ scopes = Append(Around(f, scopes), x)
                      ELSE scopes = Around(f, scopes)
      BY <1>10, <3>3
    <3>9. f.kind \notin {"function", "lambda", "catch"}
          /\ g.kind \notin {"function", "lambda", "catch", "loop"}
          /\ g.kind # "case" /\ g.kind # "dispatch"
      BY <1>6, <3>3
    <3>10. Mine(g) \subseteq Mine(f) /\ Pend(g) \subseteq Pend(f)
           /\ b \in {cur} \cup Pend(f) /\ b \notin Pend(g) /\ b \in {cur} \cup Mine(f)
           /\ \A a \in {cur} \cup Pend(f) : a = b \/ a \in Pend(g) \/ Ends(e[a].is)
      BY <1>7, <1>8, <3>4
    <3>11. Settled([open EXCEPT ![Len(open)] = g], e, b, Kept(f, cleanups, scopes), scopes)
      BY <1>2, <1>6, <1>7, <3>3, <3>4, <3>6, <3>7, <3>8, <3>9, <3>10, SettledNext
    <3>12. p # <<>> /\ p[Len(p)] = g
      BY <1>2, <1>6, <3>2, <3>3, StackReplace
    <3> QED BY <1>10, <3>2, <3>3, <3>11, <3>12
  <2> QED BY <2>1, <2>2
<1>16. Settled(p, d, b, cleanups, scopes)
  BY <1>9, <1>12, <1>13, <1>15, SettledGrow
<1>17. Settled(open', code', cur', cleanups', scopes')
  BY <1>3, <1>5, <1>14, <1>16
<1> QED BY <1>1, <1>17 DEF VInv

-----------------------------------------------------------------------------
(* The theorem. *)

(* The entry block waits for the body of the function. *)
LEMMA InitV == GenInit => VInv
<1> SUFFICES ASSUME GenInit PROVE VInv
  OBVIOUS
<1>1. IInv
  BY InitIInv
<1>2. PICK o, c, F, D, cl, sc, m, e :
        /\ o = open /\ c = code /\ F = <<1>> /\ D = <<1>> /\ cl = cleanups /\ sc = scopes
        /\ m = [objs |-> 0, defs |-> 0] /\ e = NewBlock(1, <<>>)
  OBVIOUS
<1>3. c = <<e>> /\ cur = 1 /\ cl = <<>> /\ sc = <<m>> /\ o = <<FunctionFrame>>
  BY <1>2 DEF GenInit
<1>4. /\ o \in Seq(Frame) /\ c \in Seq(Block) /\ cl \in Seq(Entry) /\ sc \in Seq(Mark)
      /\ F \in Seq(Nat) /\ D \in Seq(Nat)
  BY <1>1, <1>2 DEF IInv, TypeOK
<1>5. e.is = <<>> /\ e.fn = 1
  BY <1>2 DEF NewBlock
<1>6. /\ FunctionFrame.kind = "function" /\ FunctionFrame.scoped /\ FunctionFrame.objs = 0
      /\ Pend(FunctionFrame) = {} /\ Mine(FunctionFrame) = {} /\ Apart(FunctionFrame)
  BY DEF FunctionFrame, Pend, Mine, Apart
<1>7. PICK f : f = FunctionFrame
  OBVIOUS
<1>8. /\ Len(o) = 1 /\ o[1] = f /\ Len(c) = 1 /\ c[1] = e /\ Len(F) = 1 /\ F[1] = 1
      /\ Len(D) = 1 /\ D[1] = 1 /\ Len(sc) = 1 /\ sc[1] = m /\ m.objs = 0 /\ Len(cl) = 0
      /\ o # <<>>
  BY <1>2, <1>3, <1>7
<1>9. f.kind = "function" /\ f.scoped /\ f.objs = 0 /\ Pend(f) = {} /\ Mine(f) = {} /\ Apart(f)
  BY <1>6, <1>7
<1>10. Rooted(o)
  BY <1>8, <1>9 DEF Rooted
<1>11. Tidy(c) /\ CodeOK(c)
  <2>1. \A b \in 1..Len(c) : c[b].is = <<>>
    BY <1>5, <1>8
  <2>2. Tidy(c)
    BY <2>1 DEF Tidy, TidySeq
  <2>3. CodeOK(c)
    BY <2>1 DEF CodeOK, SeqOK
  <2> QED BY <2>2, <2>3
<1>12. BlocksOK(o, c, {1})
  BY <1>8, <1>9 DEF BlocksOK
<1>13. FnsOK(o, F, c)
  BY <1>4, <1>8, <1>9 DEF FnsOK
<1>14. MarksOK(o, D, sc, Len(cl))
  BY <1>4, <1>8, <1>9 DEF MarksOK
<1>15. EntriesOK(o, F, cl, c)
  BY <1>8, <1>9 DEF EntriesOK
<1>16. Held(o, F, D, c, {1}, cl, sc)
  BY <1>4, <1>10, <1>11, <1>12, <1>13, <1>14, <1>15 DEF Held
<1>17. Settled(o, c, 1, cl, sc)
  <2>1. c[1].fn = F[Len(o)] /\ o[Len(o)].kind # "dispatch"
    BY <1>5, <1>8, <1>9
  <2> QED BY <1>8, <1>16, <2>1, SettledStay
<1>18. Settled(open, code, cur, cleanups, scopes)
  BY <1>2, <1>3, <1>17
<1> QED BY <1>1, <1>18 DEF VInv

(* Every step of the generator keeps the invariant. *)
LEMMA StepV ==
  ASSUME ~Uses("DeadCode"), ~Uses("FinallyOnly"), ~Uses("LambdaPast"), VInv, [Generate]_genVars
  PROVE  VInv'
<1>1. CASE Simple
  BY <1>1, SimpleVInv
<1>2. CASE Opening
  <2>1. CASE OpenBlock
    BY <2>1, OpenBlockV
  <2>2. CASE OpenIf
    BY <2>2, OpenIfV
  <2>3. CASE OpenElse
    BY <2>3, OpenElseV
  <2>4. CASE OpenWhile
    BY <2>4, OpenLoopV DEF OpenWhile
  <2>5. CASE OpenDoWhile
    BY <2>5, OpenLoopV DEF OpenDoWhile
  <2>6. CASE OpenFor \/ OpenForEach
    BY <2>6, OpenForV
  <2>7. CASE OpenSwitch
    BY <2>7, OpenSwitchV
  <2>8. CASE OpenTry
    BY <2>8, OpenTryV
  <2>9. CASE OpenCatch
    BY <2>9, OpenCatchV
  <2>10. CASE OpenLambda
    BY <2>10, OpenLambdaV
  <2> QED BY <1>2, <2>1, <2>2, <2>3, <2>4, <2>5, <2>6, <2>7, <2>8, <2>9, <2>10 DEF Opening
<1>3. CASE Closing
  BY <1>3, CloseBlockV, CloseBranchV, CloseLoopV, CloseCaseV, CloseTryBodyV, CloseCatchV,
     CloseCatchesV, CloseFinallyV, CloseLambdaV, CloseFunctionV DEF Closing
<1>4. CASE UNCHANGED genVars
  <2>1. IInv'
    BY <1>4, NextIInv DEF VInv
  <2>2. Settled(open', code', cur', cleanups', scopes')
    BY <1>4 DEF VInv, genVars
  <2> QED BY <2>1, <2>2 DEF VInv
<1> QED BY <1>1, <1>2, <1>3, <1>4 DEF Generate

(* When nothing is open the invariant is what the verifier asks.  Tidy and *)
(* the ends give the terminators, CodeOK the targets and the objects.      *)
LEMMA AcceptedWhenDone == VInv => AcceptedByVerifier
<1> SUFFICES ASSUME VInv, open = <<>>, NEW b \in 1..Len(code) PROVE WellFormed(code, b)
  BY DEF AcceptedByVerifier, Verified
<1>1. PICK F, D : Held(open, F, D, code, {}, cleanups, scopes)
  BY DEF VInv, Settled
<1>2. PICK s, fn : s = code[b].is /\ fn = code[b].fn
  OBVIOUS
<1>3. TidySeq(s) /\ SeqOK(s, code, fn)
  BY <1>1, <1>2 DEF Held, Tidy, CodeOK
<1>4. Ends(s)
  <2>1. BlocksOK(open, code, {}) /\ Len(open) = 0
    BY <1>1 DEF Held
  <2> QED BY <1>2, <2>1 DEF BlocksOK
<1>5. Len(s) \in Nat
  <2>1. code[b] \in Block
    BY <1>1 DEF Held
  <2> QED BY <1>2, <2>1 DEF Block
<1>6. ASSUME NEW i \in 1..Len(s)
      PROVE  /\ s[i].op \in Terminators <=> i = Len(s)
             /\ \A t \in Targets(s[i]) : code[t].fn = fn
             /\ s[i].op \in {"destroy", "move"} =>
                  \E d \in 1..Len(code) : code[d].fn = fn /\ Declares(code[d], s[i].arg)
  <2>1. i = Len(s) \/ i \in 1..(Len(s) - 1)
    BY <1>5
  <2>2. s[i].op \in Terminators <=> i = Len(s)
    <3>1. i = Len(s) => s[i].op \in Terminators
      BY <1>4 DEF Ends
    <3>2. i \in 1..(Len(s) - 1) => i # Len(s) /\ s[i].op \notin Terminators
      BY <1>3, <1>5 DEF TidySeq
    <3> QED BY <2>1, <3>1, <3>2
  <2>3. InstrOK(s[i], code, fn)
    BY <1>3 DEF SeqOK
  <2> QED BY <2>2, <2>3 DEF InstrOK, DeclaredIn
<1>7. s # <<>>
  BY <1>4 DEF Ends
<1> QED BY <1>2, <1>6, <1>7 DEF WellFormed

LEMMA VInvariance ==
  ASSUME ~Uses("DeadCode"), ~Uses("FinallyOnly"), ~Uses("LambdaPast")
  PROVE  GenSpec => []VInv
<1>1. GenInit => VInv
  BY InitV
<1>2. VInv /\ [Generate]_genVars => VInv'
  BY StepV
<1> QED BY <1>1, <1>2, PTL DEF GenSpec

(* Every function the generator makes passes the IR verifier, if its text  *)
(* has no statement after a return of its body, no try with only a finally *)
(* and no lambda that reaches into the function around it: then each block *)
(* ends once, at its end, and branches and objects stay in their function  *)
(* (generateStmt and all it calls, generate).                              *)
THEOREM CodeIsAccepted ==
  ASSUME ~Uses("DeadCode"), ~Uses("FinallyOnly"), ~Uses("LambdaPast")
  PROVE  GenSpec => []AcceptedByVerifier
<1>1. GenSpec => []VInv
  BY VInvariance
<1>2. VInv => AcceptedByVerifier
  BY AcceptedWhenDone
<1> QED BY <1>1, <1>2, PTL
=============================================================================
