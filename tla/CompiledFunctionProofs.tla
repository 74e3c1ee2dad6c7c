------------------------ MODULE CompiledFunctionProofs ------------------------
(***************************************************************************)
(* While the code of a function runs, the handlers installed are those of  *)
(* the try bodies control is in: HandlersMatchNesting of CompiledFunction, *)
(* for texts of every length and depth.  The texts are those without jumps *)
(* and returns out of a try (JumpPast, ReturnPast), for which the code is  *)
(* known to leave a handler behind, and without lambdas that reach into    *)
(* the function around them (LambdaPast), whose code is rejected.          *)
(*                                                                         *)
(* Half of the work is about the generator.  Each open body has the try    *)
(* bodies it lies in (within), and whatever it branches to or goes on with *)
(* lies in the same ones, but for the ways into and out of a try           *)
(* (NestOK); each instruction that is emitted goes where the handlers fit  *)
(* (SeqNests).  The other half follows the code's steps.                   *)
(***************************************************************************)
EXTENDS CompiledFunction, ScopeCodeGenProofs

-----------------------------------------------------------------------------
(* The try bodies around a place of the code. *)

At(c, b, w) == b \in 1..Len(c) /\ c[b].within = w

(* An instruction that leaves control where it is, or nowhere. *)
Calm(s) == \A i \in 1..Len(s) : s[i].op \notin Terminators \cup {"tryleave"}

AfterLeave(s, i) == i > 1 /\ s[i - 1].op = "tryleave"

(* The instructions s, in a block inside the try bodies w, go only where   *)
(* the handlers they leave installed are the right ones.                   *)
SeqNests(s, c, w) ==
  \A i \in 1..Len(s) :
    /\ s[i].op = "tryleave" => i < Len(s) /\ s[i + 1].op = "br" /\ w # <<>>
    /\ s[i].op = "br" => s[i].no = s[i].yes /\ At(c, s[i].yes, IF AfterLeave(s, i) THEN Front(w) ELSE w)
    /\ s[i].op \in {"condbr", "switch", "match"} => \A t \in Targets(s[i]) : At(c, t, w)
    /\ s[i].op = "try" => At(c, s[i].yes, Append(w, s[i].no))
    /\ s[i].op = "ret" => w = <<>>

(* The innermost handler's block lies where its try statement does; an     *)
(* entry block lies in no try body.                                        *)
PlaceOK(x, b, c) ==
  /\ x.fn \in 1..Len(c) /\ (x.fn = b => x.within = <<>>)
  /\ x.within # <<>> => At(c, x.within[Len(x.within)], Front(x.within))

PathsOK(c) ==
  \A b \in 1..Len(c) : PlaceOK(c[b], b, c) /\ SeqNests(c[b].is, c, c[b].within)

(* Where the handler of a body stands. *)
Base(f) == IF f.kind = "try" THEN Front(f.within) ELSE f.within

Inward == Nested \cup {"try"}

(* Bodies lie in the same try bodies as those around them, but for those   *)
(* of functions and of try statements; and so do the blocks they go to.    *)
NestOK(o, c) ==
  /\ \A k \in 1..Len(o) : \A l \in k..Len(o) :
       (\A j \in (k + 1)..l : o[j].kind \notin Inward) => o[l].within = o[k].within
  /\ \A k \in 1..Len(o) :
       /\ \A b \in Mine(o[k]) : At(c, b, Base(o[k]))
       /\ o[k].kind \in Nested => o[k].within = <<>>
       /\ o[k].kind = "lambda" => k > 1 /\ At(c, o[k].next, o[k - 1].within)
       /\ o[k].kind = "try" => k > 1 /\ o[k].within # <<>> /\ Base(o[k]) = o[k - 1].within
       /\ \A j \in 1..k :
            (\A i \in (j + 1)..k : o[i].kind \notin Inward) =>
              /\ o[j].kind \in {"loop", "case"} => At(c, BreakIn(o[k]), o[k].within)
              /\ o[j].kind = "loop" => At(c, ContinueIn(o[k]), o[k].within)

NInv ==
  /\ IInv
  /\ NestOK(open, code)
  /\ PathsOK(code)
  /\ open # <<>> => At(code, cur, Top.within)

-----------------------------------------------------------------------------
(* The run. *)

(* The handlers installed before the instruction i of the block x. *)
Installed(x, i) == IF AfterLeave(x.is, i) THEN Front(x.within) ELSE x.within

(* Control is before an instruction, with the right handlers. *)
Standing(c, a, h) ==
  /\ a \in (1..Len(c)) \X Nat
  /\ a[2] \in 1..Len(c[a[1]].is)
  /\ h = Installed(c[a[1]], a[2])

RInv ==
  /\ NInv
  /\ phase = "generating" => handlers = <<>>
  /\ phase = "running" => Verified /\ Standing(code, at, handlers)
  /\ phase = "done" => handlers = <<>>

-----------------------------------------------------------------------------
(* Code that grows. *)

LEMMA AtGrows ==
  ASSUME NEW c, NEW d, NEW b, NEW is, NEW new, Grown(c, d, b, is, new),
         NEW a, NEW w, At(c, a, w)
  PROVE  At(d, a, w)
<1>1. a \in 1..Len(c) /\ c[a].within = w
  BY DEF At
<1>2. a \in 1..Len(d)
  BY <1>1, GrownFacts
<1>3. d[a].within = c[a].within
  BY <1>1 DEF Grown
<1> QED BY <1>1, <1>2, <1>3 DEF At

LEMMA SeqNestsGrows ==
  ASSUME NEW c, NEW d, NEW b, NEW is, NEW new, Grown(c, d, b, is, new),
         NEW s, NEW w, SeqNests(s, c, w)
  PROVE  SeqNests(s, d, w)
<1>1. \A a, v : At(c, a, v) => At(d, a, v)
  BY AtGrows
<1> QED BY <1>1, Zenon DEF SeqNests

LEMMA NestGrows ==
  ASSUME NEW c, NEW d, NEW b, NEW is, NEW new, Grown(c, d, b, is, new),
         NEW o, NestOK(o, c)
  PROVE  NestOK(o, d)
<1>1. \A a, v : At(c, a, v) => At(d, a, v)
  BY AtGrows
<1> QED BY <1>1, Zenon DEF NestOK

LEMMA PlaceGrows ==
  ASSUME NEW c, NEW d, NEW b, NEW is, NEW new, Grown(c, d, b, is, new),
         NEW a, NEW x, PlaceOK(x, a, c)
  PROVE  PlaceOK(x, a, d)
<1>1. \A e, v : At(c, e, v) => At(d, e, v)
  BY AtGrows
<1>2. \A e \in 1..Len(c) : e \in 1..Len(d)
  BY GrownFacts
<1> QED BY <1>1, <1>2 DEF PlaceOK

(* A sequence that nests, after another. *)
LEMMA SeqNestsConcat ==
  ASSUME NEW s \in Seq(Instr), NEW t \in Seq(Instr), NEW c, NEW w,
         SeqNests(s, c, w), SeqNests(t, c, w)
  PROVE  SeqNests(s \o t, c, w)
<1>1. PICK u, m, n : u = s \o t /\ m = Len(s) /\ n = Len(t)
  OBVIOUS
<1>2. /\ m \in Nat /\ n \in Nat /\ Len(u) = m + n
      /\ \A i \in 1..m : u[i] = s[i]
      /\ \A i \in 1..n : u[m + i] = t[i]
  BY <1>1
<1>3. ASSUME NEW i \in 1..Len(u)
      PROVE  /\ u[i].op = "tryleave" => i < Len(u) /\ u[i + 1].op = "br" /\ w # <<>>
             /\ u[i].op = "br" => u[i].no = u[i].yes /\ At(c, u[i].yes, IF AfterLeave(u, i) THEN Front(w) ELSE w)
             /\ u[i].op \in {"condbr", "switch", "match"} => \A a \in Targets(u[i]) : At(c, a, w)
             /\ u[i].op = "try" => At(c, u[i].yes, Append(w, u[i].no))
             /\ u[i].op = "ret" => w = <<>>
  <2>1. CASE i <= m
    <3>1. i \in 1..m /\ u[i] = s[i]
      BY <1>2, <2>1
    <3>2. i < m => u[i + 1] = s[i + 1] /\ i < Len(u)
      BY <1>2, <3>1
    <3>3. AfterLeave(u, i) = AfterLeave(s, i)
      <4>1. i > 1 => i - 1 \in 1..m
        BY <1>2, <3>1
      <4> QED BY <1>2, <4>1 DEF AfterLeave
    <3>4. /\ s[i].op = "tryleave" => i < m /\ s[i + 1].op = "br" /\ w # <<>>
          /\ s[i].op = "br" => s[i].no = s[i].yes /\ At(c, s[i].yes, IF AfterLeave(s, i) THEN Front(w) ELSE w)
          /\ s[i].op \in {"condbr", "switch", "match"} => \A a \in Targets(s[i]) : At(c, a, w)
          /\ s[i].op = "try" => At(c, s[i].yes, Append(w, s[i].no))
          /\ s[i].op = "ret" => w = <<>>
      BY <1>1, <3>1 DEF SeqNests
    <3> QED BY <3>1, <3>2, <3>3, <3>4, Zenon
  <2>2. CASE ~(i <= m)
    <3>1. PICK j \in 1..n : i = m + j
      <4>1. i - m \in 1..n /\ i = m + (i - m)
        BY <1>2, <2>2
      <4> QED BY <4>1
    <3>2. u[i] = t[j]
      BY <1>2, <3>1
    <3>3. j < n => u[i + 1] = t[j + 1] /\ i < Len(u)
      <4> SUFFICES ASSUME j < n PROVE u[i + 1] = t[j + 1] /\ i < Len(u)
        OBVIOUS
      <4>1. j + 1 \in 1..n /\ i + 1 = m + (j + 1) /\ i < m + n
        BY <1>2, <3>1
      <4> QED BY <1>2, <4>1
    <3>4. AfterLeave(u, i) = AfterLeave(t, j)
      <4>1. CASE j = 1
        <5>1. i - 1 = m
          BY <1>2, <3>1, <4>1
        <5>2. i > 1 => m \in 1..m /\ u[m] = s[m]
          BY <1>2, <5>1
        <5>3. m \in 1..m => s[m].op # "tryleave"
          BY <1>1, <1>2 DEF SeqNests
        <5>4. ~AfterLeave(u, i)
          BY <5>1, <5>2, <5>3 DEF AfterLeave
        <5>5. ~AfterLeave(t, j)
          BY <4>1 DEF AfterLeave
        <5>6. \A a, b : AfterLeave(a, b) \in BOOLEAN
          BY DEF AfterLeave
        <5> QED BY <5>4, <5>5, <5>6
      <4>2. CASE j # 1
        <5>1. j - 1 \in 1..n /\ i - 1 = m + (j - 1) /\ i > 1 /\ j > 1
          BY <1>2, <3>1, <4>2
        <5>2. u[i - 1] = t[j - 1]
          BY <1>2, <5>1
        <5> QED BY <5>1, <5>2 DEF AfterLeave
      <4> QED BY <4>1, <4>2
    <3>5. /\ t[j].op = "tryleave" => j < n /\ t[j + 1].op = "br" /\ w # <<>>
          /\ t[j].op = "br" => t[j].no = t[j].yes /\ At(c, t[j].yes, IF AfterLeave(t, j) THEN Front(w) ELSE w)
          /\ t[j].op \in {"condbr", "switch", "match"} => \A a \in Targets(t[j]) : At(c, a, w)
          /\ t[j].op = "try" => At(c, t[j].yes, Append(w, t[j].no))
          /\ t[j].op = "ret" => w = <<>>
      BY <1>1, <3>1 DEF SeqNests
    <3> QED BY <3>2, <3>3, <3>4, <3>5, Zenon
  <2> QED BY <2>1, <2>2
<1>4. SeqNests(u, c, w)
  BY <1>3, Zenon DEF SeqNests
<1> QED BY <1>1, <1>4

LEMMA CalmNests == \A s, c, w : Calm(s) => SeqNests(s, c, w)
<1>1. \A x \in {"tryleave", "br", "condbr", "switch", "match", "try", "ret"} :
        x \in Terminators \cup {"tryleave"}
  BY DEF Terminators
<1> QED BY <1>1 DEF Calm, SeqNests

LEMMA CalmConcat ==
  ASSUME NEW s \in Seq(Instr), NEW t \in Seq(Instr), Calm(s), Calm(t)
  PROVE  Calm(s \o t)
  BY DEF Calm

LEMMA CalmEmpty == Calm(<<>>)
  BY DEF Calm

(* The code grows by instructions and blocks that nest. *)
LEMMA PathsGrow ==
  ASSUME NEW c, NEW d, NEW b, NEW is, NEW new, Grown(c, d, b, is, new), PathsOK(c),
         SeqNests(is, d, c[b].within),
         \A a \in 1..Len(new) : /\ PlaceOK(new[a], Len(c) + a, d)
                                /\ SeqNests(new[a].is, d, new[a].within)
  PROVE  PathsOK(d)
<1>1. /\ Len(c) \in Nat /\ Len(d) \in Nat /\ Len(new) \in Nat
      /\ Len(d) = Len(c) + Len(new) /\ b \in 1..Len(c)
      /\ \A a \in 1..Len(c) : d[a].fn = c[a].fn
      /\ \A a \in 1..Len(c) : a # b => d[a].is = c[a].is
      /\ d[b].is = c[b].is \o is
      /\ c[b].is \in Seq(Instr) /\ is \in Seq(Instr)
      /\ \A a \in 1..Len(d) : a \in 1..Len(c) \/ (a - Len(c) \in 1..Len(new) /\ d[a] = new[a - Len(c)])
  <2>1. /\ Len(c) \in Nat /\ Len(d) \in Nat /\ Len(new) \in Nat
        /\ Len(d) = Len(c) + Len(new) /\ b \in 1..Len(c)
    BY GrownFacts, SMTT(30)
  <2>2. /\ \A a \in 1..Len(c) : d[a].fn = c[a].fn
        /\ \A a \in 1..Len(c) : a # b => d[a].is = c[a].is
    BY GrownFacts, SMTT(30)
  <2>3. /\ d[b].is = c[b].is \o is
        /\ c[b].is \in Seq(Instr) /\ is \in Seq(Instr)
    BY GrownFacts, SMTT(30)
  <2>4. \A a \in 1..Len(d) : a \in 1..Len(c) \/ (a - Len(c) \in 1..Len(new) /\ d[a] = new[a - Len(c)])
    BY GrownFacts, SMTT(30)
  <2> QED BY <2>1, <2>2, <2>3, <2>4
<1>2. \A a \in 1..Len(c) : d[a].within = c[a].within
  BY DEF Grown
<1>3. ASSUME NEW a \in 1..Len(c)
      PROVE  PlaceOK(d[a], a, d) /\ SeqNests(d[a].is, d, d[a].within)
  <2>1. PlaceOK(c[a], a, c) /\ SeqNests(c[a].is, c, c[a].within)
    BY DEF PathsOK
  <2>2. PlaceOK(c[a], a, d) /\ SeqNests(c[a].is, d, c[a].within)
    BY <2>1, PlaceGrows, SeqNestsGrows
  <2>3. PlaceOK(d[a], a, d)
    BY <1>1, <1>2, <2>2 DEF PlaceOK
  <2>4. CASE a = b
    <3>1. SeqNests(c[b].is \o is, d, c[b].within)
      BY <1>1, <2>2, <2>4, SeqNestsConcat
    <3> QED BY <1>1, <1>2, <2>3, <2>4, <3>1
  <2>5. CASE a # b
    BY <1>1, <1>2, <2>2, <2>3, <2>5
  <2> QED BY <2>4, <2>5
<1>4. ASSUME NEW a \in 1..Len(d), a \notin 1..Len(c)
      PROVE  PlaceOK(d[a], a, d) /\ SeqNests(d[a].is, d, d[a].within)
  <2>1. PICK e \in 1..Len(new) : e = a - Len(c) /\ d[a] = new[e]
    BY <1>1, <1>4
  <2>2. a = Len(c) + e
    BY <1>1, <2>1
  <2> QED BY <2>1, <2>2
<1> QED BY <1>3, <1>4 DEF PathsOK

-----------------------------------------------------------------------------
(* The stack of bodies. *)

(* The same frames, in the same try bodies. *)
SamePlaces(o, p) ==
  SameFrames(o, p) /\ \A k \in 1..Len(o) : p[k].within = o[k].within

LEMMA NestSame ==
  ASSUME NEW o, NEW p, SamePlaces(o, p), NEW c, NestOK(o, c)
  PROVE  NestOK(p, c)
<1>1. Len(p) = Len(o) /\ Len(o) \in Nat
  BY DEF SamePlaces, SameFrames
<1>2. \A k \in 1..Len(o) : /\ p[k].kind = o[k].kind /\ p[k].next = o[k].next
                           /\ p[k].within = o[k].within
                           /\ Mine(p[k]) = Mine(o[k]) /\ Base(p[k]) = Base(o[k])
                           /\ BreakIn(p[k]) = BreakIn(o[k]) /\ ContinueIn(p[k]) = ContinueIn(o[k])
  BY DEF SamePlaces, SameFrames, Alike, Mine, Base, BreakIn, ContinueIn
<1>3. ASSUME NEW k \in 1..Len(o), NEW l \in k..Len(o),
             \A j \in (k + 1)..l : p[j].kind \notin Inward
      PROVE  p[l].within = p[k].within
  <2>1. l \in 1..Len(o) /\ \A j \in (k + 1)..l : j \in 1..Len(o)
    BY <1>1
  <2>2. \A j \in (k + 1)..l : o[j].kind \notin Inward
    BY <1>2, <1>3, <2>1
  <2>3. o[l].within = o[k].within
    BY <2>2 DEF NestOK
  <2> QED BY <1>2, <2>1, <2>3
<1>4. ASSUME NEW k \in 1..Len(o)
      PROVE  /\ \A b \in Mine(p[k]) : At(c, b, Base(p[k]))
             /\ p[k].kind \in Nested => p[k].within = <<>>
             /\ p[k].kind = "lambda" => k > 1 /\ At(c, p[k].next, p[k - 1].within)
             /\ p[k].kind = "try" => k > 1 /\ p[k].within # <<>> /\ Base(p[k]) = p[k - 1].within
  <2>1. /\ \A b \in Mine(o[k]) : At(c, b, Base(o[k]))
        /\ o[k].kind \in Nested => o[k].within = <<>>
        /\ o[k].kind = "lambda" => k > 1 /\ At(c, o[k].next, o[k - 1].within)
        /\ o[k].kind = "try" => k > 1 /\ o[k].within # <<>> /\ Base(o[k]) = o[k - 1].within
    BY DEF NestOK
  <2>2. k > 1 => k - 1 \in 1..Len(o)
    BY <1>1
  <2> QED BY <1>2, <2>1, <2>2
<1>5. ASSUME NEW k \in 1..Len(o), NEW j \in 1..k,
             \A i \in (j + 1)..k : p[i].kind \notin Inward
      PROVE  /\ p[j].kind \in {"loop", "case"} => At(c, BreakIn(p[k]), p[k].within)
             /\ p[j].kind = "loop" => At(c, ContinueIn(p[k]), p[k].within)
  <2>1. j \in 1..Len(o) /\ \A i \in (j + 1)..k : i \in 1..Len(o)
    BY <1>1
  <2>2. \A i \in (j + 1)..k : o[i].kind \notin Inward
    BY <1>2, <1>5, <2>1
  <2>3. /\ o[j].kind \in {"loop", "case"} => At(c, BreakIn(o[k]), o[k].within)
        /\ o[j].kind = "loop" => At(c, ContinueIn(o[k]), o[k].within)
    BY <2>2 DEF NestOK
  <2> QED BY <1>2, <2>1, <2>3
<1> QED BY <1>1, <1>3, <1>4, <1>5 DEF NestOK

LEMMA NestPop ==
  ASSUME NEW o \in Seq(Frame), o # <<>>, NEW c, NestOK(o, c)
  PROVE  NestOK(Front(o), c)
<1>1. PICK p, n : p = Front(o) /\ n = Len(o)
  OBVIOUS
<1>2. n \in Nat /\ n >= 1 /\ Len(p) = n - 1 /\ \A k \in 1..(n - 1) : p[k] = o[k]
  BY <1>1, StackPop
<1>3. ASSUME NEW k \in 1..(n - 1), NEW l \in k..(n - 1),
             \A j \in (k + 1)..l : p[j].kind \notin Inward
      PROVE  p[l].within = p[k].within
  <2>1. k \in 1..n /\ l \in k..n /\ l \in 1..(n - 1) /\ \A j \in (k + 1)..l : j \in 1..(n - 1)
    BY <1>2
  <2>2. \A j \in (k + 1)..l : o[j].kind \notin Inward
    BY <1>2, <1>3, <2>1
  <2>3. o[l].within = o[k].within
    BY <1>1, <2>1, <2>2 DEF NestOK
  <2> QED BY <1>2, <2>1, <2>3
<1>4. ASSUME NEW k \in 1..(n - 1)
      PROVE  /\ \A b \in Mine(p[k]) : At(c, b, Base(p[k]))
             /\ p[k].kind \in Nested => p[k].within = <<>>
             /\ p[k].kind = "lambda" => k > 1 /\ At(c, p[k].next, p[k - 1].within)
             /\ p[k].kind = "try" => k > 1 /\ p[k].within # <<>> /\ Base(p[k]) = p[k - 1].within
  <2>1. k \in 1..n /\ (k > 1 => k - 1 \in 1..(n - 1))
    BY <1>2
  <2>2. /\ \A b \in Mine(o[k]) : At(c, b, Base(o[k]))
        /\ o[k].kind \in Nested => o[k].within = <<>>
        /\ o[k].kind = "lambda" => k > 1 /\ At(c, o[k].next, o[k - 1].within)
        /\ o[k].kind = "try" => k > 1 /\ o[k].within # <<>> /\ Base(o[k]) = o[k - 1].within
    BY <1>1, <2>1 DEF NestOK
  <2> QED BY <1>2, <2>1, <2>2
<1>5. ASSUME NEW k \in 1..(n - 1), NEW j \in 1..k,
             \A i \in (j + 1)..k : p[i].kind \notin Inward
      PROVE  /\ p[j].kind \in {"loop", "case"} => At(c, BreakIn(p[k]), p[k].within)
             /\ p[j].kind = "loop" => At(c, ContinueIn(p[k]), p[k].within)
  <2>1. k \in 1..n /\ j \in 1..(n - 1) /\ \A i \in (j + 1)..k : i \in 1..(n - 1)
    BY <1>2
  <2>2. \A i \in (j + 1)..k : o[i].kind \notin Inward
    BY <1>2, <1>5, <2>1
  <2>3. /\ o[j].kind \in {"loop", "case"} => At(c, BreakIn(o[k]), o[k].within)
        /\ o[j].kind = "loop" => At(c, ContinueIn(o[k]), o[k].within)
    BY <1>1, <2>1, <2>2 DEF NestOK
  <2> QED BY <1>2, <2>1, <2>3
<1>6. NestOK(p, c)
  BY <1>2, <1>3, <1>4, <1>5 DEF NestOK
<1> QED BY <1>1, <1>6

(* A body inside the one on top, in the same try bodies or, for a try, in  *)
(* one more, or for a lambda, in none.                                     *)
FitsNest(f, top, c) ==
  /\ f.kind # "function"
  /\ \A b \in Mine(f) : At(c, b, Base(f))
  /\ f.kind = "lambda" => f.within = <<>> /\ At(c, f.next, top.within)
  /\ f.kind # "lambda" => /\ Base(f) = top.within
                          /\ f.kind = "try" => f.within # <<>>
                          /\ f.kind \notin {"loop", "case"} => BreakIn(f) = BreakIn(top)
                          /\ f.kind # "loop" => ContinueIn(f) = ContinueIn(top)

LEMMA NestPush ==
  ASSUME NEW o \in Seq(Frame), o # <<>>, NEW c, NestOK(o, c),
         NEW f \in Frame, FitsNest(f, o[Len(o)], c)
  PROVE  NestOK(Append(o, f), c)
<1>1. PICK p, n : p = Append(o, f) /\ n = Len(o)
  OBVIOUS
<1>2. n \in Nat /\ n >= 1 /\ Len(p) = n + 1 /\ p[n + 1] = f /\ \A k \in 1..n : p[k] = o[k]
  BY <1>1, StackPush
<1>3. ASSUME NEW k \in 1..n, NEW l \in k..n,
             \A j \in (k + 1)..l : p[j].kind \notin Inward
      PROVE  p[l].within = p[k].within
  <2>1. l \in 1..n /\ \A j \in (k + 1)..l : j \in 1..n
    BY <1>2
  <2>2. \A j \in (k + 1)..l : o[j].kind \notin Inward
    BY <1>2, <1>3, <2>1
  <2>3. o[l].within = o[k].within
    BY <1>1, <2>1, <2>2 DEF NestOK
  <2> QED BY <1>2, <2>1, <2>3
<1>4. ASSUME NEW k \in 1..n, \A j \in (k + 1)..(n + 1) : p[j].kind \notin Inward
      PROVE  p[n + 1].within = p[k].within
  <2>1. n + 1 \in (k + 1)..(n + 1) /\ n \in k..n /\ \A j \in (k + 1)..n : j \in (k + 1)..(n + 1)
    BY <1>2
  <2>2. f.kind \notin Inward
    BY <1>2, <1>4, <2>1
  <2>3. p[n].within = p[k].within
    BY <1>3, <1>4, <2>1
  <2>4. f.kind # "lambda" /\ f.kind # "try"
    BY <2>2 DEF Inward, Nested
  <2>5. f.within = o[n].within /\ n \in 1..n
    BY <1>1, <1>2, <2>4 DEF FitsNest, Base
  <2> QED BY <1>2, <2>3, <2>5
<1>5. ASSUME NEW k \in 1..(n + 1), NEW l \in k..(n + 1),
             \A j \in (k + 1)..l : p[j].kind \notin Inward
      PROVE  p[l].within = p[k].within
  <2>1. CASE l = n + 1 /\ k = n + 1
    BY <2>1
  <2>2. CASE l = n + 1 /\ k \in 1..n
    BY <1>4, <1>5, <2>2
  <2>3. CASE l \in k..n /\ k \in 1..n
    BY <1>3, <1>5, <2>3
  <2>4. (l = n + 1 /\ k = n + 1) \/ (l = n + 1 /\ k \in 1..n) \/ (l \in k..n /\ k \in 1..n)
    BY <1>2
  <2> QED BY <2>1, <2>2, <2>3, <2>4
<1>6. ASSUME NEW k \in 1..(n + 1)
      PROVE  /\ \A b \in Mine(p[k]) : At(c, b, Base(p[k]))
             /\ p[k].kind \in Nested => p[k].within = <<>>
             /\ p[k].kind = "lambda" => k > 1 /\ At(c, p[k].next, p[k - 1].within)
             /\ p[k].kind = "try" => k > 1 /\ p[k].within # <<>> /\ Base(p[k]) = p[k - 1].within
  <2>1. CASE k \in 1..n
    <3>1. /\ \A b \in Mine(o[k]) : At(c, b, Base(o[k]))
          /\ o[k].kind \in Nested => o[k].within = <<>>
          /\ o[k].kind = "lambda" => k > 1 /\ At(c, o[k].next, o[k - 1].within)
          /\ o[k].kind = "try" => k > 1 /\ o[k].within # <<>> /\ Base(o[k]) = o[k - 1].within
      BY <1>1, <2>1 DEF NestOK
    <3>2. k > 1 => k - 1 \in 1..n
      BY <1>2, <2>1
    <3> QED BY <1>2, <2>1, <3>1, <3>2
  <2>2. CASE k = n + 1
    <3>1. k - 1 = n /\ k > 1 /\ n \in 1..n
      BY <1>2, <2>2
    <3>2. p[k] = f /\ p[k - 1] = o[n]
      BY <1>2, <2>2, <3>1
    <3>3. /\ \A b \in Mine(f) : At(c, b, Base(f))
          /\ f.kind \in Nested => f.within = <<>>
          /\ f.kind = "lambda" => At(c, f.next, o[n].within)
          /\ f.kind = "try" => f.within # <<>> /\ Base(f) = o[n].within
      BY <1>1 DEF FitsNest, Nested
    <3> QED BY <3>1, <3>2, <3>3
  <2>3. k \in 1..n \/ k = n + 1
    BY <1>2
  <2> QED BY <2>1, <2>2, <2>3
<1>7. ASSUME NEW k \in 1..n, NEW j \in 1..k,
             \A i \in (j + 1)..k : p[i].kind \notin Inward
      PROVE  /\ p[j].kind \in {"loop", "case"} => At(c, BreakIn(p[k]), p[k].within)
             /\ p[j].kind = "loop" => At(c, ContinueIn(p[k]), p[k].within)
  <2>1. j \in 1..n /\ \A i \in (j + 1)..k : i \in 1..n
    BY <1>2
  <2>2. \A i \in (j + 1)..k : o[i].kind \notin Inward
    BY <1>2, <1>7, <2>1
  <2>3. /\ o[j].kind \in {"loop", "case"} => At(c, BreakIn(o[k]), o[k].within)
        /\ o[j].kind = "loop" => At(c, ContinueIn(o[k]), o[k].within)
    BY <1>1, <2>2 DEF NestOK
  <2> QED BY <1>2, <2>1, <2>3
<1>8. ASSUME NEW j \in 1..(n + 1), \A i \in (j + 1)..(n + 1) : p[i].kind \notin Inward
      PROVE  /\ p[j].kind \in {"loop", "case"} => At(c, BreakIn(f), f.within)
             /\ p[j].kind = "loop" => At(c, ContinueIn(f), f.within)
  <2>1. /\ f.kind \in {"loop", "case"} => At(c, BreakIn(f), f.within)
        /\ f.kind = "loop" => At(c, ContinueIn(f), f.within)
    <3>1. f.kind = "loop" => f.alt \in Mine(f) /\ f.next \in Mine(f)
      BY DEF Mine
    <3>2. f.kind = "case" => f.next \in Mine(f)
      BY DEF Mine
    <3>3. /\ f.kind = "loop" => BreakIn(f) = f.alt /\ ContinueIn(f) = f.next /\ Base(f) = f.within
          /\ f.kind = "case" => BreakIn(f) = f.next /\ Base(f) = f.within
      BY DEF BreakIn, ContinueIn, Base
    <3>4. \A b \in Mine(f) : At(c, b, Base(f))
      BY DEF FitsNest
    <3> QED BY <3>1, <3>2, <3>3, <3>4
  <2>2. CASE j = n + 1
    BY <1>2, <2>1, <2>2
  <2>3. CASE j \in 1..n
    <3>1. n + 1 \in (j + 1)..(n + 1) /\ n \in 1..n /\ \A i \in (j + 1)..n : i \in (j + 1)..(n + 1)
      BY <1>2, <2>3
    <3>2. f.kind \notin Inward
      BY <1>2, <1>8, <3>1
    <3>3. /\ p[j].kind \in {"loop", "case"} => At(c, BreakIn(p[n]), p[n].within)
          /\ p[j].kind = "loop" => At(c, ContinueIn(p[n]), p[n].within)
      BY <1>7, <1>8, <2>3, <3>1
    <3>4. f.kind # "lambda" /\ f.kind # "try"
      BY <3>2 DEF Inward, Nested
    <3>5. /\ f.within = o[n].within /\ p[n] = o[n]
          /\ f.kind \notin {"loop", "case"} => BreakIn(f) = BreakIn(o[n])
          /\ f.kind # "loop" => ContinueIn(f) = ContinueIn(o[n])
      BY <1>1, <1>2, <3>1, <3>4 DEF FitsNest, Base
    <3> QED BY <2>1, <3>3, <3>5
  <2>4. j \in 1..n \/ j = n + 1
    BY <1>2
  <2> QED BY <2>2, <2>3, <2>4
<1>9. ASSUME NEW k \in 1..(n + 1), NEW j \in 1..k,
             \A i \in (j + 1)..k : p[i].kind \notin Inward
      PROVE  /\ p[j].kind \in {"loop", "case"} => At(c, BreakIn(p[k]), p[k].within)
             /\ p[j].kind = "loop" => At(c, ContinueIn(p[k]), p[k].within)
  <2>1. k \in 1..n \/ (k = n + 1 /\ j \in 1..(n + 1))
    BY <1>2
  <2>2. CASE k \in 1..n
    BY <1>7, <1>9, <2>2
  <2>3. CASE k = n + 1 /\ j \in 1..(n + 1)
    BY <1>2, <1>8, <1>9, <2>3
  <2> QED BY <2>1, <2>2, <2>3
<1>10. NestOK(p, c)
  BY <1>2, <1>5, <1>6, <1>9 DEF NestOK
<1> QED BY <1>1, <1>10

(* What holds of the top frame and the one below it. *)
LEMMA NestTop ==
  ASSUME NEW o \in Seq(Frame), NEW c, NestOK(o, c), NEW n, n = Len(o), n >= 1,
         NEW f, f = o[n]
  PROVE  /\ \A b \in Mine(f) : At(c, b, Base(f))
         /\ f.kind \in Nested => f.within = <<>>
         /\ f.kind = "lambda" => n > 1 /\ At(c, f.next, o[n - 1].within)
         /\ f.kind = "try" => n > 1 /\ f.within # <<>>
         /\ f.kind \notin Nested /\ n > 1 => Base(f) = o[n - 1].within
<1>1. n \in Nat /\ n \in 1..n
  OBVIOUS
<1>2. /\ \A b \in Mine(f) : At(c, b, Base(f))
      /\ f.kind \in Nested => f.within = <<>>
      /\ f.kind = "lambda" => n > 1 /\ At(c, f.next, o[n - 1].within)
      /\ f.kind = "try" => n > 1 /\ f.within # <<>> /\ Base(f) = o[n - 1].within
  BY <1>1 DEF NestOK
<1>3. ASSUME f.kind \notin Inward, n > 1
      PROVE  f.within = o[n - 1].within
  <2>1. n - 1 \in 1..n /\ n \in (n - 1)..n /\ \A j \in (n - 1 + 1)..n : j = n
    BY <1>1, <1>3
  <2>2. \A j \in (n - 1 + 1)..n : o[j].kind \notin Inward
    BY <1>3, <2>1
  <2> QED BY <2>1, <2>2 DEF NestOK
<1>4. f.kind \notin Nested => f.kind = "try" \/ f.kind \notin Inward
  BY DEF Inward
<1>5. f.kind # "try" => Base(f) = f.within
  BY DEF Base
<1> QED BY <1>2, <1>3, <1>4, <1>5

-----------------------------------------------------------------------------
(* A step of the generator. *)

LEMMA StartN ==
  ASSUME NInv, open # <<>>
  PROVE  /\ TypeOK /\ code \in Seq(Block) /\ Len(code) \in Nat /\ cur \in 1..Len(code)
         /\ Here = code[cur] /\ Here \in Block
         /\ open \in Seq(Frame) /\ Len(open) \in Nat /\ Len(open) >= 1
         /\ Top = open[Len(open)] /\ Top \in Frame /\ Top.within \in Seq(Nat)
         /\ Here.within = Top.within /\ Here.fn \in 1..Len(code) /\ Here.fn \in Nat
         /\ (Top.within # <<>> => At(code, Top.within[Len(Top.within)], Front(Top.within)))
         /\ NestOK(open, code) /\ PathsOK(code) /\ IInv
<1>1. /\ TypeOK /\ code \in Seq(Block) /\ Len(code) \in Nat /\ cur \in 1..Len(code)
      /\ Here = code[cur] /\ open \in Seq(Frame) /\ Top = open[Len(open)]
      /\ NestOK(open, code) /\ PathsOK(code) /\ IInv /\ At(code, cur, Top.within)
  BY DEF NInv, IInv, TypeOK, Here, Top
<1>2. Here \in Block
  BY <1>1
<1>3. Top \in Frame /\ Top.within \in Seq(Nat) /\ Len(open) \in Nat /\ Len(open) >= 1
  BY <1>1, TopType
<1>4. Here.within = Top.within
  BY <1>1 DEF At
<1>5. PlaceOK(Here, cur, code)
  BY <1>1 DEF PathsOK
<1>6. Here.fn \in 1..Len(code) /\ Here.fn \in Nat
  BY <1>1, <1>5 DEF PlaceOK
<1>7. Top.within # <<>> => At(code, Top.within[Len(Top.within)], Front(Top.within))
  BY <1>4, <1>5 DEF PlaceOK
<1> QED BY <1>1, <1>2, <1>3, <1>4, <1>6, <1>7

LEMMA EmitN ==
  ASSUME NInv, open # <<>>, NEW is \in Seq(Instr)
  PROVE  Grown(code, Emit(is), cur, is, <<>>)
<1>1. Grown(code, [code EXCEPT ![cur].is = @ \o is], cur, is, <<>>)
  BY StartN, EmitGrows
<1> QED BY <1>1 DEF Emit

LEMMA EmitsN ==
  ASSUME NInv, open # <<>>, NEW is \in Seq(Instr), NEW new \in Seq(Block),
         NEW d, Emits(is, new, d)
  PROVE  /\ Grown(code, d, cur, is, new)
         /\ Len(code) \in Nat /\ Len(new) \in Nat /\ Len(d) = Len(code) + Len(new)
         /\ \A a \in 1..Len(new) : Len(code) + a \in 1..Len(d) /\ d[Len(code) + a] = new[a]
<1>1. PICK e : e = Emit(is)
  OBVIOUS
<1>2. Grown(code, e, cur, is, <<>>)
  BY <1>1, EmitN
<1>3. Grown(code, e \o new, cur, is, new)
  BY <1>2, AppendGrows
<1>4. Grown(code, d, cur, is, new)
  BY <1>1, <1>3 DEF Emits
<1> QED BY <1>4, GrownHere

LEMMA TakenPlaces ==
  ASSUME NInv, open # <<>>
  PROVE  SamePlaces(open, Taken) /\ Taken \in Seq(Frame) /\ Taken # <<>> /\ Len(Taken) = Len(open)
         /\ Taken[Len(open)].kind = Top.kind /\ Taken[Len(open)].within = Top.within
         /\ BreakIn(Taken[Len(open)]) = BreakIn(Top) /\ ContinueIn(Taken[Len(open)]) = ContinueIn(Top)
<1> DEFINE g == [Top EXCEPT !.begun = TRUE]
<1>1. g \in Frame /\ Alike(g, Top) /\ g.objs = Top.objs /\ g.within = Top.within
  <2>1. Top \in Frame
    BY StartN
  <2> QED BY <2>1 DEF Frame, Alike
<1>2. Taken = [open EXCEPT ![Len(open)] = g]
  BY DEF Taken, Top
<1> HIDE DEF g
<1>3. /\ Taken \in Seq(Frame) /\ Len(Taken) = Len(open) /\ Taken # <<>>
      /\ Taken[Len(open)] = g
      /\ \A k \in 1..(Len(open) - 1) : Taken[k] = open[k]
  BY <1>1, <1>2, StartN, StackReplace
<1>4. ASSUME NEW k \in 1..Len(open)
      PROVE  /\ Alike(Taken[k], open[k]) /\ Taken[k].objs = open[k].objs
             /\ Taken[k].within = open[k].within
  <2>1. k \in 1..(Len(open) - 1) \/ k = Len(open)
    BY StartN
  <2>2. CASE k \in 1..(Len(open) - 1)
    BY <1>3, <2>2 DEF Alike
  <2>3. CASE k = Len(open)
    BY <1>1, <1>3, <2>3, StartN
  <2> QED BY <2>1, <2>2, <2>3
<1>5. /\ g.kind = Top.kind /\ BreakIn(g) = BreakIn(Top) /\ ContinueIn(g) = ContinueIn(Top)
  BY <1>1 DEF Alike, BreakIn, ContinueIn
<1> QED BY <1>1, <1>3, <1>4, <1>5, StartN DEF SamePlaces, SameFrames

(* The code grows by what nests. *)
GrowsNested(d, is, new) ==
  /\ Grown(code, d, cur, is, new)
  /\ SeqNests(is, d, Top.within)
  /\ \A a \in 1..Len(new) : /\ PlaceOK(new[a], Len(code) + a, d)
                            /\ SeqNests(new[a].is, d, new[a].within)

LEMMA PathsNested ==
  ASSUME NInv, open # <<>>, NEW d, NEW is, NEW new, GrowsNested(d, is, new)
  PROVE  PathsOK(d) /\ NestOK(open, d) /\ \A a, w : At(code, a, w) => At(d, a, w)
<1>1. /\ Grown(code, d, cur, is, new) /\ SeqNests(is, d, code[cur].within)
      /\ PathsOK(code) /\ NestOK(open, code)
  <2>1. code[cur].within = Top.within
    BY StartN
  <2> QED BY <2>1, StartN DEF GrowsNested
<1>2. \A a \in 1..Len(new) : /\ PlaceOK(new[a], Len(code) + a, d)
                             /\ SeqNests(new[a].is, d, new[a].within)
  BY DEF GrowsNested
<1>3. PathsOK(d)
  BY <1>1, <1>2, PathsGrow
<1>4. NestOK(open, d)
  BY <1>1, NestGrows
<1>5. \A a, w : At(code, a, w) => At(d, a, w)
  BY <1>1, AtGrows
<1> QED BY <1>3, <1>4, <1>5

(* Instructions for the block in hand, and no new block. *)
LEMMA NoNewBlocks ==
  ASSUME NInv, open # <<>>, NEW d, NEW is, Grown(code, d, cur, is, <<>>),
         SeqNests(is, code, Top.within)
  PROVE  GrowsNested(d, is, <<>>)
<1>1. SeqNests(is, d, Top.within)
  BY SeqNestsGrows
<1>2. 1..Len(<<>>) = {}
  BY EmptyType
<1> QED BY <1>1, <1>2 DEF GrowsNested

(* A statement without a body. *)
LEMMA SimpleN ==
  ASSUME NInv, open # <<>>, IInv', open' = Taken, cur' = cur,
         NEW is, Grown(code, code', cur, is, <<>>), SeqNests(is, code, Top.within)
  PROVE  NInv'
<1>1. PICK p, d : p = open' /\ d = code'
  OBVIOUS
<1>2. GrowsNested(d, is, <<>>)
  BY <1>1, NoNewBlocks
<1>3. PathsOK(d) /\ NestOK(open, d) /\ \A a, w : At(code, a, w) => At(d, a, w)
  BY <1>2, PathsNested
<1>4. SamePlaces(open, p) /\ p # <<>> /\ p[Len(p)].within = Top.within
  BY <1>1, TakenPlaces
<1>5. NestOK(p, d)
  BY <1>3, <1>4, NestSame
<1>6. At(d, cur, Top.within)
  BY <1>3 DEF NInv
<1>7. NestOK(open', code') /\ PathsOK(code') /\ At(code', cur', open'[Len(open')].within)
  BY <1>1, <1>3, <1>4, <1>5, <1>6
<1> QED BY <1>7 DEF NInv, Top

(* A body begins. *)
LEMMA OpenN ==
  ASSUME NInv, open # <<>>, IInv', NEW d, d = code', NEW is, NEW new, GrowsNested(d, is, new),
         NEW q, SamePlaces(open, q), q \in Seq(Frame), q # <<>>,
         NEW f \in Frame, open' = Append(q, f), FitsNest(f, Top, d), At(d, cur', f.within)
  PROVE  NInv'
<1>1. PathsOK(d) /\ NestOK(open, d)
  BY PathsNested
<1>2. NestOK(q, d)
  BY <1>1, NestSame
<1>3. FitsNest(f, q[Len(q)], d)
  <2>1. Len(q) = Len(open) /\ Len(open) \in 1..Len(open) /\ Top = open[Len(open)]
    BY StartN DEF SamePlaces, SameFrames
  <2>2. Alike(q[Len(q)], Top) /\ q[Len(q)].within = Top.within
    BY <2>1 DEF SamePlaces, SameFrames
  <2>3. BreakIn(q[Len(q)]) = BreakIn(Top) /\ ContinueIn(q[Len(q)]) = ContinueIn(Top)
    BY <2>2 DEF Alike, BreakIn, ContinueIn
  <2> QED BY <2>2, <2>3 DEF FitsNest
<1>4. PICK p : p = Append(q, f)
  OBVIOUS
<1>5. NestOK(p, d)
  BY <1>2, <1>3, <1>4, NestPush
<1>6. p[Len(p)] = f /\ p # <<>>
  BY <1>4
<1>7. NestOK(open', code') /\ PathsOK(code') /\ At(code', cur', open'[Len(open')].within)
  BY <1>1, <1>4, <1>5, <1>6
<1> QED BY <1>7 DEF NInv, Top

(* A body ends. *)
LEMMA CloseN ==
  ASSUME NInv, open # <<>>, IInv', open' = Front(open),
         NEW is, Grown(code, code', cur, is, <<>>), SeqNests(is, code, Top.within),
         Len(open) > 1 => At(code, cur', open[Len(open) - 1].within)
  PROVE  NInv'
<1>1. PICK p, d, n : p = open' /\ d = code' /\ n = Len(open)
  OBVIOUS
<1>2. GrowsNested(d, is, <<>>)
  BY <1>1, NoNewBlocks
<1>3. PathsOK(d) /\ NestOK(open, d) /\ \A a, w : At(code, a, w) => At(d, a, w)
  BY <1>2, PathsNested
<1>4. open \in Seq(Frame) /\ n \in Nat /\ n >= 1
  BY <1>1, StartN
<1>5. NestOK(p, d)
  BY <1>1, <1>3, <1>4, NestPop
<1>6. Len(p) = n - 1 /\ \A k \in 1..(n - 1) : p[k] = open[k]
  BY <1>1, <1>4, StackPop
<1>7. ASSUME p # <<>> PROVE At(d, cur', p[Len(p)].within)
  <2>1. p \in Seq(Frame)
    BY <1>1 DEF IInv, TypeOK
  <2>2. n > 1 /\ n - 1 \in 1..(n - 1)
    <3>1. Len(p) \in Nat /\ Len(p) # 0
      BY <1>7, <2>1
    <3> QED BY <1>4, <1>6, <3>1
  <2>3. At(code, cur', open[n - 1].within)
    BY <1>1, <2>2
  <2>4. p[Len(p)] = open[n - 1]
    BY <1>6, <2>2
  <2> QED BY <1>3, <2>3, <2>4
<1>8. NestOK(open', code') /\ PathsOK(code')
      /\ (open' # <<>> => At(code', cur', open'[Len(open')].within))
  BY <1>1, <1>3, <1>5, <1>7
<1> QED BY <1>8 DEF NInv, Top

LEMMA SameStack ==
  ASSUME NEW p \in Seq(Frame), NEW q \in Seq(Frame), Len(p) = Len(q),
         \A k \in 1..Len(p) : p[k] = q[k]
  PROVE  p = q
  OBVIOUS

(* Another frame takes the place of the one on top. *)
LEMMA NestReplace ==
  ASSUME NEW o \in Seq(Frame), NEW c, NestOK(o, c), NEW n, n = Len(o), n > 1,
         NEW g \in Frame, FitsNest(g, o[n - 1], c), NEW p, p = [o EXCEPT ![Len(o)] = g]
  PROVE  NestOK(p, c) /\ p # <<>> /\ p[Len(p)] = g
<1>1. PICK q : q = Front(o)
  OBVIOUS
<1>2. n \in Nat /\ o # <<>>
  OBVIOUS
<1>3. NestOK(q, c)
  BY <1>1, <1>2, NestPop
<1>4. q \in Seq(Frame) /\ Len(q) = n - 1 /\ \A k \in 1..(n - 1) : q[k] = o[k]
  BY <1>1, <1>2, StackPop
<1>5. q # <<>> /\ q[Len(q)] = o[n - 1]
  <2>1. n - 1 \in 1..(n - 1) /\ n - 1 # 0
    BY <1>2
  <2> QED BY <1>4, <2>1
<1>6. FitsNest(g, q[Len(q)], c)
  BY <1>5
<1>7. NestOK(Append(q, g), c)
  BY <1>3, <1>4, <1>5, <1>6, NestPush
<1>8. /\ p \in Seq(Frame) /\ Len(p) = n /\ p # <<>> /\ p[n] = g
      /\ \A k \in 1..(n - 1) : p[k] = o[k]
  BY <1>2, StackReplace
<1>9. p = Append(q, g)
  <2>1. Append(q, g) \in Seq(Frame) /\ Len(Append(q, g)) = n /\ Append(q, g)[n] = g
        /\ \A k \in 1..(n - 1) : Append(q, g)[k] = q[k]
    BY <1>2, <1>4
  <2>2. \A k \in 1..n : k \in 1..(n - 1) \/ k = n
    BY <1>2
  <2>3. PICK r : r = Append(q, g)
    OBVIOUS
  <2>4. \A k \in 1..n : p[k] = r[k]
    BY <1>4, <1>8, <2>1, <2>2, <2>3
  <2>5. p \in Seq(Frame) /\ r \in Seq(Frame) /\ Len(p) = Len(r) /\ \A k \in 1..Len(p) : p[k] = r[k]
    BY <1>8, <2>1, <2>3, <2>4
  <2>6. p = r
    BY <2>5, SameStack
  <2> QED BY <2>3, <2>6
<1> QED BY <1>7, <1>8, <1>9

(* A handler goes on to its next part. *)
LEMMA NextN ==
  ASSUME NInv, open # <<>>, IInv', NEW n, n = Len(open), n > 1,
         NEW is, Grown(code, code', cur, is, <<>>), SeqNests(is, code, Top.within),
         NEW g \in Frame, open' = [open EXCEPT ![Len(open)] = g],
         FitsNest(g, open[n - 1], code), At(code, cur', g.within)
  PROVE  NInv'
<1>1. PICK p, d : p = open' /\ d = code'
  OBVIOUS
<1>2. GrowsNested(d, is, <<>>)
  BY <1>1, NoNewBlocks
<1>3. PathsOK(d) /\ NestOK(open, d) /\ \A a, w : At(code, a, w) => At(d, a, w)
  BY <1>2, PathsNested
<1>4. open \in Seq(Frame)
  BY StartN
<1>5. FitsNest(g, open[n - 1], d)
  BY <1>3 DEF FitsNest
<1>6. NestOK(p, d) /\ p # <<>> /\ p[Len(p)] = g
  <2>1. p = [open EXCEPT ![Len(open)] = g] /\ NestOK(open, d)
    BY <1>1, <1>3
  <2> QED BY <1>4, <1>5, <2>1, NestReplace, ZenonT(60)
<1>7. NestOK(open', code') /\ PathsOK(code') /\ At(code', cur', open'[Len(open')].within)
  BY <1>1, <1>3, <1>6
<1> QED BY <1>6, <1>7 DEF NInv, Top

-----------------------------------------------------------------------------
(* What the handlers emit. *)

LEMMA OneNests ==
  ASSUME NEW x, NEW c, NEW w, x.op # "tryleave",
         x.op = "br" => x.no = x.yes /\ At(c, x.yes, w),
         x.op \in {"condbr", "switch", "match"} => \A t \in Targets(x) : At(c, t, w),
         x.op = "try" => At(c, x.yes, Append(w, x.no)),
         x.op = "ret" => w = <<>>
  PROVE  SeqNests(<<x>>, c, w)
<1>1. PICK s : s = <<x>>
  OBVIOUS
<1>2. Len(s) = 1 /\ s[1] = x /\ ~AfterLeave(s, 1)
  BY <1>1 DEF AfterLeave
<1>3. \A i \in 1..Len(s) : i = 1
  BY <1>2
<1>4. SeqNests(s, c, w)
  BY <1>2, <1>3 DEF SeqNests
<1> QED BY <1>1, <1>4

LEMMA CalmOne ==
  ASSUME NEW op, op \notin Terminators \cup {"tryleave"}, NEW n
  PROVE  Calm(<<Op(op, n)>>)
  BY DEF Calm, Op

LEMMA BrNests ==
  ASSUME NEW b, NEW c, NEW w, At(c, b, w)
  PROVE  SeqNests(<<Br(b)>>, c, w)
<1>1. PICK x : x = Br(b)
  OBVIOUS
<1>2. x.op = "br" /\ x.yes = b /\ x.no = b
  BY <1>1 DEF Br, Branch
<1>3. SeqNests(<<x>>, c, w)
  BY <1>2, OneNests
<1> QED BY <1>1, <1>3

LEMMA RetNests == \A c : SeqNests(<<Op("ret", 0)>>, c, <<>>)
<1> SUFFICES ASSUME NEW c PROVE SeqNests(<<Op("ret", 0)>>, c, <<>>)
  OBVIOUS
<1>1. PICK x : x = Op("ret", 0)
  OBVIOUS
<1>2. x.op = "ret"
  BY <1>1 DEF Op
<1>3. PICK w : w = <<>>
  OBVIOUS
<1>4. SeqNests(<<x>>, c, w)
  BY <1>2, <1>3, OneNests
<1> QED BY <1>1, <1>3, <1>4

LEMMA DeferCodeCalm ==
  ASSUME TypeOK, NEW n \in 0..Len(defers)
  PROVE  Calm(DeferCode(n))
<1>1. Len(defers) - n \in Nat
  BY DEF TypeOK
<1>2. "run" \notin Terminators \cup {"tryleave"}
  BY DEF Terminators
<1>3. PICK s : s = DeferCode(n)
  OBVIOUS
<1>4. Len(s) = Len(defers) - n /\ \A i \in 1..Len(s) : s[i] = Op("run", defers[Len(defers) + 1 - i])
  BY <1>1, <1>3 DEF DeferCode
<1>5. Calm(s)
  BY <1>2, <1>4 DEF Calm, Op
<1> QED BY <1>3, <1>5

LEMMA CleanupCodeCalm ==
  ASSUME NEW entries \in Seq(Entry), NEW n \in 0..Len(entries)
  PROVE  Calm(CleanupCode(entries, n))
<1>1. Len(entries) - n \in Nat
  OBVIOUS
<1>2. "nop" \notin Terminators \cup {"tryleave"} /\ "destroy" \notin Terminators \cup {"tryleave"}
  BY DEF Terminators
<1>3. PICK s : s = CleanupCode(entries, n)
  OBVIOUS
<1>4. Len(s) = Len(entries) - n
      /\ \A i \in 1..Len(s) : s[i] = LET e == entries[Len(entries) + 1 - i]
                                     IN  IF e.moved THEN Op("nop", 0) ELSE Op("destroy", e.obj)
  BY <1>1, <1>3 DEF CleanupCode
<1>5. ASSUME NEW i \in 1..Len(s) PROVE s[i].op \in {"nop", "destroy"}
  <2>1. PICK e : e = entries[Len(entries) + 1 - i]
    OBVIOUS
  <2>2. s[i] = IF e.moved THEN Op("nop", 0) ELSE Op("destroy", e.obj)
    BY <1>4, <2>1
  <2>3. Op("nop", 0).op = "nop" /\ Op("destroy", e.obj).op = "destroy"
    BY DEF Op
  <2> QED BY <2>2, <2>3
<1>6. Calm(s)
  BY <1>2, <1>5 DEF Calm
<1> QED BY <1>3, <1>6

LEMMA ScopeExitCalm ==
  ASSUME IInv, open # <<>>
  PROVE  ScopeExit \in Seq(Instr) /\ Calm(ScopeExit)
<1>1. scopes # <<>> /\ scopes \in Seq(Mark) /\ Len(scopes) \in 1..Len(scopes) /\ TypeOK
  BY DEF IInv, TypeOK, ScopesOK
<1>2. PICK m \in Mark : m = scopes[Len(scopes)]
  BY <1>1
<1>3. m.objs \in 0..Len(cleanups) /\ m.defs \in 0..Len(defers) /\ cleanups \in Seq(Entry)
  BY <1>1, <1>2 DEF IInv, TypeOK, ScopesOK, Mark
<1>4. PICK u, v : u = DeferCode(m.defs) /\ v = CleanupCode(cleanups, m.objs)
  OBVIOUS
<1>5. u \in Seq(Instr) /\ v \in Seq(Instr) /\ Calm(u) /\ Calm(v)
  BY <1>1, <1>3, <1>4, DeferCodeType, CleanupCodeType, DeferCodeCalm, CleanupCodeCalm
<1>6. u \o v \in Seq(Instr) /\ Calm(u \o v)
  BY <1>5, ConcatType, CalmConcat
<1> QED BY <1>2, <1>4, <1>6 DEF ScopeExit

LEMMA EmitCleanupsCalm ==
  ASSUME IInv, NEW e \in Seq(Entry)
  PROVE  EmitCleanups(e) \in Seq(Instr) /\ Calm(EmitCleanups(e))
<1>1. TypeOK /\ 0 \in 0..Len(defers) /\ 0 \in 0..Len(e)
  BY DEF IInv, TypeOK
<1>2. PICK u, v : u = DeferCode(0) /\ v = CleanupCode(e, 0)
  OBVIOUS
<1>3. u \in Seq(Instr) /\ v \in Seq(Instr) /\ Calm(u) /\ Calm(v)
  BY <1>1, <1>2, DeferCodeType, CleanupCodeType, DeferCodeCalm, CleanupCodeCalm
<1>4. u \o v \in Seq(Instr) /\ Calm(u \o v)
  BY <1>3, ConcatType, CalmConcat
<1> QED BY <1>2, <1>4 DEF EmitCleanups

LEMMA BodyEndN ==
  ASSUME NInv, open # <<>>, NEW tail \in Seq(Instr), SeqNests(tail, code, Top.within),
         NEW d, d = Emit(BodyEnd(tail))
  PROVE  \E is : Grown(code, d, cur, is, <<>>) /\ SeqNests(is, code, Top.within)
<1>1. PICK u, is, w : /\ u = (IF Top.scoped THEN ScopeExit ELSE <<>>) /\ is = BodyEnd(tail)
                      /\ w = Top.within
  OBVIOUS
<1>2. u \in Seq(Instr) /\ SeqNests(u, code, w)
  <2>1. CASE Top.scoped
    BY <1>1, <2>1, ScopeExitCalm, CalmNests, StartN
  <2>2. CASE ~Top.scoped
    BY <1>1, <2>2, CalmEmpty, CalmNests, EmptyType
  <2> QED BY <2>1, <2>2
<1>3. u \o tail \in Seq(Instr) /\ SeqNests(u \o tail, code, w)
  BY <1>1, <1>2, ConcatType, SeqNestsConcat
<1>4. <<>> \in Seq(Instr) /\ SeqNests(<<>>, code, w)
  BY CalmEmpty, CalmNests, EmptyType
<1>5. is = <<>> \/ is = u \o tail
  BY <1>1 DEF BodyEnd
<1>6. is \in Seq(Instr) /\ SeqNests(is, code, w)
  BY <1>3, <1>4, <1>5
<1>7. Grown(code, d, cur, is, <<>>)
  BY <1>1, <1>6, EmitN
<1> QED BY <1>1, <1>6, <1>7

(* Where a return may stand, no try body is left. *)
LEMMA ReturnNests ==
  ASSUME NInv, open # <<>>, ~Uses("ReturnPast"), ReturnIsClean
  PROVE  Top.within = <<>>
<1>1. open \in Seq(Frame) /\ Len(open) \in Nat /\ Top = open[Len(open)] /\ NestOK(open, code)
  BY StartN
<1>2. Rooted(open)
  BY DEF NInv, IInv, ShapeOK, Rooted
<1>3. PICK f : f = FunctionStart
  OBVIOUS
<1>4. /\ f \in 1..Len(open) /\ open[f].kind \in Nested
      /\ \A j \in (f + 1)..Len(open) : open[j].kind \notin Nested
  BY <1>1, <1>2, <1>3, InnermostFunction
<1>5. \A j \in (f + 1)..Len(open) : open[j].kind # "try"
  BY <1>3 DEF ReturnIsClean, CrossesTry
<1>6. \A j \in (f + 1)..Len(open) : open[j].kind \notin Inward
  BY <1>4, <1>5 DEF Inward
<1>7. open[Len(open)].within = open[f].within
  <2>1. Len(open) \in f..Len(open)
    BY <1>1, <1>4
  <2> QED BY <1>1, <1>4, <1>6, <2>1 DEF NestOK
<1>8. open[f].within = <<>>
  BY <1>1, <1>4 DEF NestOK
<1> QED BY <1>1, <1>7, <1>8

(* Where a jump without a target in its function may stand, there is none; *)
(* else it goes to a place in the same try bodies.                         *)
LEMMA JumpNests ==
  ASSUME NInv, open # <<>>, ~Uses("JumpPast"), ~Uses("LambdaPast"),
         NEW kinds, NEW target, JumpIsClean(kinds, target), target # 0,
         \/ kinds = {"loop", "case"} /\ target = breakTarget
         \/ kinds = {"loop"} /\ target = continueTarget
  PROVE  At(code, target, Top.within)
<1>1. open \in Seq(Frame) /\ Len(open) \in Nat /\ Len(open) >= 1 /\ Top = open[Len(open)]
      /\ NestOK(open, code) /\ IInv
  BY StartN
<1>2. Rooted(open)
  BY DEF NInv, IInv, ShapeOK, Rooted
<1>3. PICK k : k = Innermost(kinds)
  OBVIOUS
<1>4. k > 0 /\ ~CrossesTry(k)
  BY <1>3 DEF JumpIsClean
<1>5. k # 0
  BY <1>4
<1>6. /\ k \in 1..Len(open) /\ open[k].kind \in kinds
      /\ \A j \in (k + 1)..Len(open) : open[j].kind \notin Nested
  BY <1>1, <1>2, <1>3, <1>5, InnermostTarget
<1>7. \A j \in (k + 1)..Len(open) : open[j].kind \notin Inward
  BY <1>4, <1>6 DEF Inward, CrossesTry
<1>8. Len(open) \in 1..Len(open) /\ k \in 1..Len(open)
  BY <1>1, <1>6
<1>9. /\ open[k].kind \in {"loop", "case"} => At(code, BreakIn(Top), Top.within)
      /\ open[k].kind = "loop" => At(code, ContinueIn(Top), Top.within)
  BY <1>1, <1>7, <1>8 DEF NestOK
<1>10. breakTarget = BreakIn(Top) /\ continueTarget = ContinueIn(Top)
  BY <1>1, TopFacts
<1> QED BY <1>6, <1>9, <1>10

LEMMA ThrowNests ==
  /\ <<Op("throw", 0), Op("unreachable", 0)>> \in Seq(Instr)
  /\ \A c, w : SeqNests(<<Op("throw", 0), Op("unreachable", 0)>>, c, w)
<1>1. PICK x, y, s : x = Op("throw", 0) /\ y = Op("unreachable", 0) /\ s = <<x, y>>
  OBVIOUS
<1>2. x \in Instr /\ y \in Instr /\ x.op = "throw" /\ y.op = "unreachable"
  <2>1. "throw" \in Ops /\ "unreachable" \in Ops /\ 0 \in Nat
    BY DEF Ops, Terminators
  <2> QED BY <1>1, <2>1, OpType DEF Op
<1>3. s \in Seq(Instr) /\ Len(s) = 2 /\ s[1] = x /\ s[2] = y
  BY <1>1, <1>2
<1>4. \A i \in 1..Len(s) : s[i].op \in {"throw", "unreachable"}
  <2>1. \A i \in 1..Len(s) : i = 1 \/ i = 2
    BY <1>3
  <2> QED BY <1>2, <1>3, <2>1
<1>5. \A c, w : SeqNests(s, c, w)
  BY <1>4 DEF SeqNests
<1> QED BY <1>1, <1>3, <1>5

-----------------------------------------------------------------------------
(* Statements without a body. *)

(* Code that nests where it stands. *)
LEMMA EmitSimpleN ==
  ASSUME NInv, open # <<>>, IInv', open' = Taken, cur' = cur,
         NEW is \in Seq(Instr), code' = Emit(is), SeqNests(is, code, Top.within)
  PROVE  NInv'
<1>1. Grown(code, code', cur, is, <<>>)
  BY EmitN
<1> QED BY <1>1, SimpleN

(* Code that only touches objects, or calls. *)
LEMMA EmitCalmN ==
  ASSUME NInv, open # <<>>, IInv', open' = Taken, cur' = cur,
         NEW op \in Ops, op \notin Terminators \cup {"tryleave"}, NEW n \in Nat,
         code' = Emit(<<Op(op, n)>>)
  PROVE  NInv'
<1>1. PICK is : is = <<Op(op, n)>>
  OBVIOUS
<1>2. is \in Seq(Instr) /\ Calm(is)
  BY <1>1, OpType, CalmOne
<1>3. SeqNests(is, code, Top.within)
  BY <1>2, CalmNests
<1> QED BY <1>1, <1>2, <1>3, EmitSimpleN

(* No code. *)
LEMMA NoCodeN ==
  ASSUME NInv, open # <<>>, IInv', open' = Taken, cur' = cur, code' = code
  PROVE  NInv'
<1>1. PICK is : is = <<>>
  OBVIOUS
<1>2. Grown(code, code', cur, is, <<>>) /\ SeqNests(is, code, Top.within)
  BY <1>1, StartN, NothingGrows, CalmEmpty, CalmNests
<1> QED BY <1>2, SimpleN

LEMMA JumpN ==
  ASSUME NInv, IInv', ~Uses("JumpPast"), ~Uses("LambdaPast"),
         NEW feature, NEW kinds, NEW target \in Nat, Jump(feature, target, kinds),
         \/ kinds = {"loop", "case"} /\ target = breakTarget
         \/ kinds = {"loop"} /\ target = continueTarget
  PROVE  NInv'
<1>1. /\ CanTake /\ open' = Taken /\ cur' = cur /\ JumpIsClean(kinds, target)
      /\ code' = IF target = 0 THEN code ELSE Emit(<<Br(target)>>)
  BY DEF Jump
<1>2. open # <<>>
  BY <1>1 DEF CanTake, HasRoom
<1>3. CASE target = 0
  BY <1>1, <1>2, <1>3, NoCodeN
<1>4. CASE target # 0
  <2>1. At(code, target, Top.within)
    BY <1>1, <1>2, <1>4, JumpNests
  <2>2. PICK is : is = <<Br(target)>>
    OBVIOUS
  <2>3. is \in Seq(Instr) /\ SeqNests(is, code, Top.within)
    BY <2>1, <2>2, BrType, BrNests
  <2> QED BY <1>1, <1>2, <1>4, <2>2, <2>3, EmitSimpleN
<1> QED BY <1>3, <1>4

LEMMA SimpleNInv ==
  ASSUME NInv, Simple, ~Uses("JumpPast"), ~Uses("ReturnPast"), ~Uses("LambdaPast")
  PROVE  NInv'
<1>1. IInv' /\ IInv
  BY SimpleIInv DEF NInv
<1>2. CanTake /\ open' = Taken /\ cur' = cur
  BY DEF Simple, VarDecl, Defer, Move, Delete, Return, ReturnMove, Call, Throw, Break, Continue, Jump
<1>3. open # <<>> /\ Place \in Nat /\ TypeOK
  BY <1>1, <1>2, CanTakeFacts
<1>4. \A op \in {"new", "arm", "move", "destroy", "call"} :
        op \in Ops /\ op \notin Terminators \cup {"tryleave"}
  BY DEF Ops, Terminators
<1>5. CASE VarDecl
  <2>1. code' = Emit(<<Op("new", Place)>>)
    BY <1>5 DEF VarDecl
  <2> QED BY <1>1, <1>2, <1>3, <1>4, <2>1, EmitCalmN
<1>6. CASE Defer
  <2>1. code' = code \/ code' = Emit(<<Op("arm", Place)>>)
    BY <1>6 DEF Defer
  <2>2. CASE code' = code
    BY <1>1, <1>2, <1>3, <2>2, NoCodeN
  <2>3. CASE code' = Emit(<<Op("arm", Place)>>)
    BY <1>1, <1>2, <1>3, <1>4, <2>3, EmitCalmN
  <2> QED BY <2>1, <2>2, <2>3
<1>7. CASE Move
  <2>1. PICK i \in InReach : code' = Emit(<<Op("move", cleanups[i].obj)>>)
    BY <1>7 DEF Move
  <2>2. cleanups[i].obj \in Nat
    BY <1>1, <1>3, InReachType
  <2> QED BY <1>1, <1>2, <1>3, <1>4, <2>1, <2>2, EmitCalmN
<1>8. CASE Delete
  <2>1. PICK i \in InReach : code' = Emit(<<Op("destroy", cleanups[i].obj)>>)
    BY <1>8 DEF Delete
  <2>2. cleanups[i].obj \in Nat
    BY <1>1, <1>3, InReachType
  <2> QED BY <1>1, <1>2, <1>3, <1>4, <2>1, <2>2, EmitCalmN
<1>9. <<Op("ret", 0)>> \in Seq(Instr)
  BY OpType DEF Ops, Terminators
<1>10. CASE Return
  <2>1. ReturnIsClean /\ code' = Emit(EmitCleanups(cleanups) \o <<Op("ret", 0)>>)
    BY <1>10 DEF Return
  <2>2. PICK u, v, is : u = EmitCleanups(cleanups) /\ v = <<Op("ret", 0)>> /\ is = u \o v
    OBVIOUS
  <2>3. u \in Seq(Instr) /\ Calm(u)
    BY <1>1, <1>3, <2>2, EmitCleanupsCalm DEF TypeOK
  <2>4. SeqNests(u, code, Top.within)
    BY <2>3, CalmNests
  <2>5. SeqNests(v, code, Top.within)
    BY <1>3, <2>1, <2>2, ReturnNests, RetNests
  <2>6. is \in Seq(Instr) /\ SeqNests(is, code, Top.within)
    BY <1>9, <2>2, <2>3, <2>4, <2>5, ConcatType, SeqNestsConcat
  <2> QED BY <1>1, <1>2, <1>3, <2>1, <2>2, <2>6, EmitSimpleN
<1>11. CASE ReturnMove
  <2>1. PICK i \in InReach :
          code' = Emit(<<Op("move", cleanups[i].obj)>> \o EmitCleanups(Moved(i)) \o <<Op("ret", 0)>>)
    BY <1>11 DEF ReturnMove
  <2>2. ReturnIsClean
    BY <1>11 DEF ReturnMove
  <2>3. PICK t, u, v, s, is : /\ t = <<Op("move", cleanups[i].obj)>> /\ u = EmitCleanups(Moved(i))
                              /\ v = <<Op("ret", 0)>> /\ s = t \o u /\ is = s \o v
    OBVIOUS
  <2>4. cleanups[i].obj \in Nat /\ Moved(i) \in Seq(Entry)
    BY <1>1, <1>3, InReachType
  <2>5. t \in Seq(Instr) /\ Calm(t)
    BY <1>4, <2>3, <2>4, OpType, CalmOne
  <2>6. u \in Seq(Instr) /\ Calm(u)
    BY <1>1, <2>3, <2>4, EmitCleanupsCalm
  <2>7. s \in Seq(Instr) /\ Calm(s)
    BY <2>3, <2>5, <2>6, ConcatType, CalmConcat
  <2>8. SeqNests(s, code, Top.within)
    BY <2>7, CalmNests
  <2>9. SeqNests(v, code, Top.within)
    BY <1>3, <2>2, <2>3, ReturnNests, RetNests
  <2>10. is \in Seq(Instr) /\ SeqNests(is, code, Top.within)
    BY <1>9, <2>3, <2>7, <2>8, <2>9, ConcatType, SeqNestsConcat
  <2> QED BY <1>1, <1>2, <1>3, <2>1, <2>3, <2>10, EmitSimpleN
<1>12. CASE Call
  <2>1. code' = Emit(<<Op("call", 0)>>)
    BY <1>12 DEF Call
  <2> QED BY <1>1, <1>2, <1>3, <1>4, <2>1, EmitCalmN
<1>13. CASE Throw
  <2>1. code' = Emit(<<Op("throw", 0), Op("unreachable", 0)>>)
    BY <1>13 DEF Throw
  <2>2. PICK is : is = <<Op("throw", 0), Op("unreachable", 0)>>
    OBVIOUS
  <2>3. is \in Seq(Instr) /\ SeqNests(is, code, Top.within)
    BY <2>2, ThrowNests
  <2> QED BY <1>1, <1>2, <1>3, <2>1, <2>2, <2>3, EmitSimpleN
<1>14. breakTarget \in Nat /\ continueTarget \in Nat
  BY <1>3 DEF TypeOK
<1>15. CASE Break
  <2>1. Jump("Break", breakTarget, {"loop", "case"})
    BY <1>15 DEF Break
  <2>2. PICK kinds : kinds = {"loop", "case"}
    OBVIOUS
  <2>3. PICK target \in Nat : target = breakTarget
    BY <1>14
  <2>4. Jump("Break", target, kinds)
    BY <2>1, <2>2, <2>3
  <2> QED BY <1>1, <2>2, <2>3, <2>4, JumpN
<1>16. CASE Continue
  <2>1. Jump("Continue", continueTarget, {"loop"})
    BY <1>16 DEF Continue
  <2>2. PICK kinds : kinds = {"loop"}
    OBVIOUS
  <2>3. PICK target \in Nat : target = continueTarget
    BY <1>14
  <2>4. Jump("Continue", target, kinds)
    BY <2>1, <2>2, <2>3
  <2> QED BY <1>1, <2>2, <2>3, <2>4, JumpN
<1> QED BY <1>5, <1>6, <1>7, <1>8, <1>10, <1>11, <1>12, <1>13, <1>15, <1>16 DEF Simple

-----------------------------------------------------------------------------
(* Where a handler starts. *)

LEMMA FrameHere ==
  ASSUME NInv, open # <<>>, NEW kind \in Kinds, NEW scoped \in BOOLEAN,
         NEW next \in Nat, NEW alt \in Nat, NEW f, f = NewFrame(kind, scoped, next, alt)
  PROVE  /\ f \in Frame
         /\ f.kind = kind /\ f.scoped = scoped /\ f.next = next /\ f.alt = alt
         /\ f.brk = breakTarget /\ f.cont = continueTarget /\ f.within = Top.within
<1>1. f.within = Top.within
  BY DEF NewFrame
<1> QED BY <1>1, StartN, FrameType, SMTT(30)

(* The blocks made here. *)
LEMMA BlocksHere ==
  ASSUME NInv, open # <<>>
  PROVE  /\ BlockHere \in Block /\ BlockHere.fn = Here.fn /\ BlockHere.within = Top.within
         /\ BlockHere.is = <<>>
         /\ \A k \in Nat : /\ NB(k) \in Seq(Block) /\ Len(NB(k)) = k
                           /\ \A a \in 1..k : NB(k)[a] = BlockHere
<1>1. BlockHere \in Block /\ \A k \in Nat : NB(k) \in Seq(Block) /\ Len(NB(k)) = k
  BY StartN, BlockType
<1>2. \A k \in Nat : \A a \in 1..k : NB(k)[a] = BlockHere
  BY DEF NB
<1>3. BlockHere.fn = Here.fn /\ BlockHere.within = Top.within /\ BlockHere.is = <<>>
  BY DEF BlockHere, NewBlock
<1> QED BY <1>1, <1>2, <1>3

(* A new block where the handler stands, with nothing in it or the code s. *)
Fresh(x, d) ==
  /\ x.fn = Here.fn /\ x.within = Top.within /\ SeqNests(x.is, d, Top.within)

LEMMA FreshPlace ==
  ASSUME NInv, open # <<>>, NEW d, NEW is, NEW new, Grown(code, d, cur, is, new),
         NEW a \in 1..Len(new), NEW x, x.fn = Here.fn, x.within = Top.within
  PROVE  PlaceOK(x, Len(code) + a, d)
<1>1. /\ Len(code) \in Nat /\ Len(new) \in Nat
      /\ \A e \in 1..Len(code) : e \in 1..Len(d)
  BY GrownFacts
<1>2. x.fn \in 1..Len(code) /\ x.fn # Len(code) + a
  <2>1. x.fn \in 1..Len(code)
    BY StartN
  <2> QED BY <1>1, <2>1
<1>3. x.within # <<>> => At(code, x.within[Len(x.within)], Front(x.within))
  BY StartN
<1>4. x.within # <<>> => At(d, x.within[Len(x.within)], Front(x.within))
  BY <1>3, AtGrows
<1> QED BY <1>1, <1>2, <1>4 DEF PlaceOK

LEMMA FreshGrows ==
  ASSUME NInv, open # <<>>, NEW is \in Seq(Instr), NEW new \in Seq(Block), NEW d,
         Emits(is, new, d), SeqNests(is, d, Top.within),
         \A a \in 1..Len(new) : Fresh(new[a], d)
  PROVE  GrowsNested(d, is, new)
<1>1. Grown(code, d, cur, is, new)
  BY EmitsN
<1>2. \A a \in 1..Len(new) : PlaceOK(new[a], Len(code) + a, d)
  BY <1>1, FreshPlace DEF Fresh
<1>3. \A a \in 1..Len(new) : SeqNests(new[a].is, d, new[a].within)
  BY DEF Fresh
<1> QED BY <1>1, <1>2, <1>3 DEF GrowsNested

(* A new block is where it was made. *)
LEMMA NewAt ==
  ASSUME NInv, open # <<>>, NEW is \in Seq(Instr), NEW new \in Seq(Block), NEW d,
         Emits(is, new, d), NEW a \in 1..Len(new)
  PROVE  At(d, Len(code) + a, new[a].within)
  BY EmitsN DEF At

(* The body of an ordinary handler fits in, where it goes to new blocks or *)
(* places of the same try bodies.                                          *)
LEMMA FitsHere ==
  ASSUME NInv, open # <<>>, NEW f, f.kind \notin {"function", "lambda", "try"},
         f.within = Top.within, f.brk = breakTarget, f.cont = continueTarget,
         NEW d, \A b \in Mine(f) : At(d, b, Top.within)
  PROVE  FitsNest(f, Top, d)
<1>1. breakTarget = BreakIn(Top) /\ continueTarget = ContinueIn(Top)
  BY StartN, TopFacts
<1>2. Base(f) = Top.within
  BY DEF Base
<1>3. f.kind \notin {"loop", "case"} => BreakIn(f) = f.brk
  BY DEF BreakIn
<1>4. f.kind # "loop" => ContinueIn(f) = f.cont
  BY DEF ContinueIn
<1> QED BY <1>1, <1>2, <1>3, <1>4 DEF FitsNest

(* A body begins in one of the blocks a statement makes. *)
LEMMA OpenHereN ==
  ASSUME NInv, open # <<>>, IInv', NEW is \in Seq(Instr), NEW new \in Seq(Block),
         NEW d, d = code', Emits(is, new, d), SeqNests(is, d, Top.within),
         \A a \in 1..Len(new) : Fresh(new[a], d),
         NEW q, SamePlaces(open, q), q \in Seq(Frame), q # <<>>,
         NEW f \in Frame, open' = Append(q, f), f.kind \notin {"function", "lambda", "try"},
         f.within = Top.within, f.brk = breakTarget, f.cont = continueTarget,
         \A b \in Mine(f) : At(d, b, Top.within), NEW b, b = cur', At(d, b, Top.within)
  PROVE  NInv'
<1>1. GrowsNested(d, is, new)
  BY FreshGrows
<1>2. FitsNest(f, Top, d)
  BY FitsHere
<1>3. At(d, cur', f.within)
  OBVIOUS
<1> QED BY <1>1, <1>2, <1>3, OpenN

LEMMA CondNests ==
  ASSUME NEW op \in {"condbr", "match"}, NEW n, NEW y, NEW no, NEW c, NEW w,
         At(c, y, w), At(c, no, w)
  PROVE  SeqNests(<<Branch(op, n, y, no)>>, c, w)
<1>1. PICK x : x = Branch(op, n, y, no)
  OBVIOUS
<1>2. x.op = op /\ x.yes = y /\ x.no = no
  BY <1>1 DEF Branch
<1>3. Targets(x) = {y, no}
  BY <1>2 DEF Targets, Terminators
<1>4. SeqNests(<<x>>, c, w)
  <2>1. /\ x.op # "tryleave" /\ x.op # "br" /\ x.op # "try" /\ x.op # "ret"
        /\ \A t \in Targets(x) : At(c, t, w)
    BY <1>2, <1>3
  <2> QED BY <2>1, OneNests
<1> QED BY <1>1, <1>4

LEMMA SwitchNests ==
  ASSUME NEW n, NEW y, NEW no, NEW c, NEW w,
         \A t \in y..(y + n - 1) : At(c, t, w), At(c, no, w)
  PROVE  SeqNests(<<Branch("switch", n, y, no)>>, c, w)
<1>1. PICK x : x = Branch("switch", n, y, no)
  OBVIOUS
<1>2. x.op = "switch" /\ x.yes = y /\ x.no = no /\ x.arg = n
  BY <1>1 DEF Branch
<1>3. Targets(x) = y..(y + n - 1) \cup {no}
  BY <1>2 DEF Targets
<1>4. SeqNests(<<x>>, c, w)
  <2>1. /\ x.op # "tryleave" /\ x.op # "br" /\ x.op # "try" /\ x.op # "ret"
        /\ \A t \in Targets(x) : At(c, t, w)
    BY <1>2, <1>3
  <2> QED BY <2>1, OneNests
<1> QED BY <1>1, <1>4

LEMMA TryNests ==
  ASSUME NEW n, NEW y, NEW no, NEW c, NEW w, At(c, y, Append(w, no))
  PROVE  SeqNests(<<Branch("try", n, y, no)>>, c, w)
<1>1. PICK x : x = Branch("try", n, y, no)
  OBVIOUS
<1>2. x.op = "try" /\ x.yes = y /\ x.no = no
  BY <1>1 DEF Branch
<1>3. SeqNests(<<x>>, c, w)
  <2>1. /\ x.op # "tryleave" /\ x.op # "br" /\ x.op \notin {"condbr", "switch", "match"}
        /\ x.op # "ret" /\ At(c, x.yes, Append(w, x.no))
    BY <1>2
  <2> QED BY <2>1, OneNests
<1> QED BY <1>1, <1>3

(* Before a statement with a body. *)
LEMMA OpenFactsN ==
  ASSUME NInv, CanOpen
  PROVE  /\ open # <<>> /\ Len(code) \in Nat /\ Place \in Nat
         /\ SamePlaces(open, Taken) /\ Taken \in Seq(Frame) /\ Taken # <<>>
<1>1. open # <<>>
  BY DEF CanOpen, CanTake, HasRoom
<1>2. Place \in Nat
  BY CanTakeFacts DEF NInv, CanOpen
<1> QED BY <1>1, <1>2, StartN, TakenPlaces

(* generateBlock. *)
LEMMA OpenBlockN == NInv /\ OpenBlock => NInv'
<1> SUFFICES ASSUME NInv, OpenBlock PROVE NInv'
  OBVIOUS
<1>1. IInv'
  BY OpenBlockIInv DEF NInv
<1>2. /\ CanOpen /\ open' = Append(Taken, NewFrame("block", TRUE, 0, 0))
      /\ code' = code /\ cur' = cur
  BY DEF OpenBlock
<1>3. open # <<>> /\ SamePlaces(open, Taken) /\ Taken \in Seq(Frame) /\ Taken # <<>>
  BY <1>2, OpenFactsN
<1>4. PICK f, d, is, new : f = NewFrame("block", TRUE, 0, 0) /\ d = code' /\ is = <<>> /\ new = <<>>
  OBVIOUS
<1>5. /\ f \in Frame /\ f.kind = "block" /\ f.within = Top.within
      /\ f.brk = breakTarget /\ f.cont = continueTarget
  <2>1. PICK kind \in Kinds : kind = "block"
    BY DEF Kinds
  <2>2. PICK scoped \in BOOLEAN : scoped = TRUE
    OBVIOUS
  <2>3. PICK zero \in Nat : zero = 0
    OBVIOUS
  <2>4. open # <<>> /\ f = NewFrame(kind, scoped, zero, zero)
    BY <1>3, <1>4, <2>1, <2>2, <2>3
  <2>5. /\ f \in Frame /\ f.kind = kind /\ f.within = Top.within
        /\ f.brk = breakTarget /\ f.cont = continueTarget
    BY <2>4, FrameHere
  <2> QED BY <2>1, <2>5
<1>6. Mine(f) = {}
  BY <1>5 DEF Mine
<1>7. GrowsNested(d, is, new)
  <2>1. Grown(code, d, cur, is, new)
    BY <1>2, <1>3, <1>4, StartN, NothingGrows
  <2>2. SeqNests(is, code, Top.within)
    BY <1>4, CalmEmpty, CalmNests
  <2> QED BY <1>3, <1>4, <2>1, <2>2, NoNewBlocks
<1>8. FitsNest(f, Top, d)
  BY <1>3, <1>5, <1>6, FitsHere
<1>9. At(d, cur', f.within)
  <2>1. At(code, cur, Top.within)
    BY <1>3 DEF NInv
  <2> QED BY <1>2, <1>4, <1>5, <2>1
<1>10. open' = Append(Taken, f)
  BY <1>2, <1>4
<1> QED BY <1>1, <1>3, <1>4, <1>5, <1>7, <1>8, <1>9, <1>10, OpenN

(* generateIf. *)
LEMMA OpenIfN == NInv /\ OpenIf => NInv'
<1> SUFFICES ASSUME NInv, OpenIf PROVE NInv'
  OBVIOUS
<1>1. IInv'
  BY OpenIfIInv DEF NInv
<1>2. CanOpen
  BY DEF OpenIf
<1>3. PICK hasElse \in BOOLEAN, scoped \in BOOLEAN :
        LET then == Len(code) + 1
            merge == Len(code) + 2
            else == IF hasElse THEN Len(code) + 3 ELSE 0
        IN  /\ code' = Emit(<<Branch("condbr", 0, then, IF hasElse THEN else ELSE merge)>>)
                       \o NB(IF hasElse THEN 3 ELSE 2)
            /\ cur' = then
            /\ open' = Append(Taken, NewFrame("then", scoped, merge, else))
  BY DEF OpenIf, BodyScoping
<1>4. /\ open # <<>> /\ Len(code) \in Nat
      /\ SamePlaces(open, Taken) /\ Taken \in Seq(Frame) /\ Taken # <<>>
  BY <1>2, OpenFactsN
<1>5. PICK n, k, alt, no : /\ n = Len(code) /\ k = (IF hasElse THEN 3 ELSE 2)
                           /\ alt = (IF hasElse THEN Len(code) + 3 ELSE 0)
                           /\ no = (IF hasElse THEN alt ELSE n + 2)
  OBVIOUS
<1>6. PICK is, new, d, f : /\ is = <<Branch("condbr", 0, n + 1, no)>> /\ new = NB(k)
                           /\ d = code' /\ f = NewFrame("then", scoped, n + 2, alt)
  OBVIOUS
<1>7. n \in Nat /\ k \in {2, 3} /\ k \in Nat /\ alt \in Nat /\ no \in {n + 2, n + k} /\ no \in Nat
      /\ alt \in {0, n + k} /\ n + 1 \in Nat /\ n + 2 \in Nat
  BY <1>4, <1>5
<1>8. /\ Emits(is, new, d) /\ cur' = n + 1 /\ open' = Append(Taken, f)
  BY <1>3, <1>5, <1>6 DEF Emits
<1>9. /\ f \in Frame /\ f.kind = "then" /\ f.next = n + 2 /\ f.alt = alt
      /\ f.brk = breakTarget /\ f.cont = continueTarget /\ f.within = Top.within
  <2>1. PICK kind \in Kinds : kind = "then"
    BY DEF Kinds
  <2>2. PICK m \in Nat : m = n + 2
    BY <1>7
  <2>3. f = NewFrame(kind, scoped, m, alt) /\ alt \in Nat /\ open # <<>>
    BY <1>4, <1>6, <1>7, <2>1, <2>2
  <2>4. /\ f \in Frame /\ f.kind = kind /\ f.next = m /\ f.alt = alt
        /\ f.brk = breakTarget /\ f.cont = continueTarget /\ f.within = Top.within
    BY <2>3, FrameHere
  <2> QED BY <2>1, <2>2, <2>4
<1>10. new \in Seq(Block) /\ Len(new) = k /\ \A a \in 1..k : Fresh(new[a], d)
  <2>1. SeqNests(<<>>, d, Top.within)
    BY CalmEmpty, CalmNests
  <2> QED BY <1>4, <1>6, <1>7, <2>1, BlocksHere DEF Fresh
<1>11. is \in Seq(Instr)
  <2>1. "condbr" \in Ops /\ 0 \in Nat
    BY DEF Ops, Terminators
  <2> QED BY <1>6, <1>7, <2>1, BranchType
<1>12. \A a \in 1..k : At(d, n + a, Top.within)
  <2>1. \A a \in 1..Len(new) : At(d, Len(code) + a, new[a].within)
    BY <1>4, <1>8, <1>10, <1>11, NewAt
  <2> QED BY <1>5, <1>10, <2>1 DEF Fresh
<1>13. At(d, n + 1, Top.within) /\ At(d, n + 2, Top.within) /\ At(d, n + k, Top.within)
  <2>1. 1 \in 1..k /\ 2 \in 1..k /\ k \in 1..k
    BY <1>7
  <2> QED BY <1>12, <2>1
<1>14. SeqNests(is, d, Top.within)
  <2>1. At(d, no, Top.within)
    BY <1>7, <1>13
  <2> QED BY <1>6, <1>13, <2>1, CondNests
<1>15. \A b \in Mine(f) : At(d, b, Top.within)
  <2>1. Mine(f) = {n + 2, alt} \ {0}
    BY <1>9 DEF Mine
  <2> QED BY <1>7, <1>13, <2>1
<1>16. PICK b : b = cur' /\ At(d, b, Top.within)
  BY <1>8, <1>13
<1> QED BY <1>1, <1>4, <1>6, <1>8, <1>9, <1>10, <1>11, <1>14, <1>15, <1>16, OpenHereN

-----------------------------------------------------------------------------
(* Where a body ends. *)

(* What is known of the handler on top. *)
LEMMA TopPlaces ==
  ASSUME NInv, open # <<>>
  PROVE  /\ Top.kind \in Nested => Top.within = <<>>
         /\ \A b \in Mine(Top) : At(code, b, Base(Top))
         /\ Top.kind = "try" => Top.within # <<>>
         /\ Top.kind = "lambda" => Len(open) > 1 /\ At(code, Top.next, open[Len(open) - 1].within)
         /\ Top.kind \notin Nested => Len(open) > 1 /\ Base(Top) = open[Len(open) - 1].within
<1>1. PICK n, f : n = Len(open) /\ f = Top
  OBVIOUS
<1>2. open \in Seq(Frame) /\ NestOK(open, code) /\ n \in Nat /\ n >= 1 /\ f = open[n] /\ IInv
  BY <1>1, StartN
<1>3. /\ \A b \in Mine(f) : At(code, b, Base(f))
      /\ f.kind \in Nested => f.within = <<>>
      /\ f.kind = "lambda" => n > 1 /\ At(code, f.next, open[n - 1].within)
      /\ f.kind = "try" => n > 1 /\ f.within # <<>>
      /\ f.kind \notin Nested /\ n > 1 => Base(f) = open[n - 1].within
  <2>1. n = Len(open)
    BY <1>1
  <2> QED BY <1>2, <2>1, NestTop, ZenonT(60)
<1>4. f.kind \notin Nested => n > 1
  <2>1. f.kind \notin Nested => f.kind # "function"
    BY DEF Nested
  <2>2. f.kind = "function" <=> n = 1
    BY <1>1, <1>2, TopFacts
  <2>3. n # 1 => n > 1
    BY <1>2
  <2> QED BY <2>1, <2>2, <2>3
<1> QED BY <1>1, <1>3, <1>4

(* The next part of a handler fits where the last one was. *)
LEMMA FitsNext ==
  ASSUME NInv, open # <<>>, Top.kind \notin Nested,
         NEW g, g.kind \notin Nested \cup {"try", "loop"}, g.within = Base(Top),
         Mine(g) \subseteq Mine(Top), g.brk = Top.brk, g.cont = Top.cont
  PROVE  Len(open) > 1 /\ FitsNest(g, open[Len(open) - 1], code)
<1>1. PICK t : t = open[Len(open) - 1]
  OBVIOUS
<1>2. Len(open) > 1 /\ Base(Top) = t.within /\ \A b \in Mine(Top) : At(code, b, Base(Top))
  BY <1>1, TopPlaces
<1>3. Top.brk = BreakIn(t) /\ Top.cont = ContinueIn(t)
  <2>1. Top.kind # "function"
    BY DEF Nested
  <2> QED BY <1>1, <2>1, StartN, SavedBelow
<1>4. /\ Base(g) = g.within /\ g.kind # "function" /\ g.kind # "lambda" /\ g.kind # "try"
      /\ g.kind # "loop"
  BY DEF Base, Nested
<1>5. g.kind # "case" => BreakIn(g) = g.brk
  BY <1>4 DEF BreakIn
<1>6. ContinueIn(g) = g.cont
  BY <1>4 DEF ContinueIn
<1>7. FitsNest(g, t, code)
  BY <1>2, <1>3, <1>4, <1>5, <1>6 DEF FitsNest
<1> QED BY <1>1, <1>2, <1>7

LEMMA NextHereN ==
  ASSUME NInv, open # <<>>, IInv', Top.kind \notin Nested,
         NEW is, Grown(code, code', cur, is, <<>>), SeqNests(is, code, Top.within),
         NEW g \in Frame, open' = [open EXCEPT ![Len(open)] = g],
         g.kind \notin Nested \cup {"try", "loop"}, g.within = Base(Top),
         Mine(g) \subseteq Mine(Top), g.brk = Top.brk, g.cont = Top.cont,
         At(code, cur', g.within)
  PROVE  NInv'
<1>1. PICK n : n = Len(open)
  OBVIOUS
<1>2. n > 1 /\ FitsNest(g, open[n - 1], code)
  BY <1>1, FitsNext
<1> QED BY <1>1, <1>2, NextN

(* A body that ends where its handler started, or goes on at one of the    *)
(* handler's blocks.                                                       *)
LEMMA CloseHereN ==
  ASSUME NInv, open # <<>>, IInv', Top.kind \notin Nested, open' = Front(open),
         NEW tail \in Seq(Instr), SeqNests(tail, code, Top.within),
         code' = Emit(BodyEnd(tail)), At(code, cur', Base(Top))
  PROVE  NInv'
<1>1. PICK is : Grown(code, code', cur, is, <<>>) /\ SeqNests(is, code, Top.within)
  BY BodyEndN
<1>2. Len(open) > 1 => At(code, cur', open[Len(open) - 1].within)
  BY TopPlaces
<1> QED BY <1>1, <1>2, CloseN

LEMMA CurAt ==
  ASSUME NInv, open # <<>>
  PROVE  At(code, cur, Top.within)
  BY DEF NInv

(* A branch to one of the handler's blocks. *)
LEMMA BrOn ==
  ASSUME NInv, open # <<>>, Top.kind # "try", NEW b \in Mine(Top)
  PROVE  <<Br(b)>> \in Seq(Instr) /\ SeqNests(<<Br(b)>>, code, Top.within)
<1>1. At(code, b, Top.within)
  BY TopPlaces DEF Base
<1>2. b \in Nat
  BY <1>1, StartN DEF At
<1> QED BY <1>1, <1>2, BrType, BrNests

(* A branch that leaves a catch clause. *)
LEMMA ClearOn ==
  ASSUME NInv, open # <<>>, Top.kind # "try", NEW b \in Mine(Top)
  PROVE  /\ <<Op("clear", 0), Br(b)>> \in Seq(Instr)
         /\ SeqNests(<<Op("clear", 0), Br(b)>>, code, Top.within)
<1>1. PICK x, y, s, w : x = Op("clear", 0) /\ y = Br(b) /\ s = <<x, y>> /\ w = Top.within
  OBVIOUS
<1>2. At(code, b, w)
  BY <1>1, TopPlaces DEF Base
<1>3. b \in Nat
  BY <1>2, StartN DEF At
<1>4. x \in Instr /\ x.op = "clear"
  <2>1. "clear" \in Ops /\ 0 \in Nat
    BY DEF Ops
  <2> QED BY <1>1, <2>1, OpType DEF Op
<1>5. y \in Instr /\ y.op = "br" /\ y.yes = b /\ y.no = b
  BY <1>1, <1>3, BrType DEF Br, Branch
<1>6. s \in Seq(Instr) /\ Len(s) = 2 /\ s[1] = x /\ s[2] = y
  BY <1>1, <1>4, <1>5
<1>7. ~AfterLeave(s, 2) /\ \A i \in 1..Len(s) : i = 1 \/ i = 2
  BY <1>4, <1>6 DEF AfterLeave
<1>8. SeqNests(s, code, w)
  <2>1. s[1].op = "clear" /\ s[2].op = "br" /\ s[2].no = s[2].yes /\ At(code, s[2].yes, w)
    BY <1>2, <1>4, <1>5, <1>6
  <2> QED BY <1>7, <2>1 DEF SeqNests
<1> QED BY <1>1, <1>6, <1>8

(* A branch that leaves a try body. *)
LEMMA LeaveOn ==
  ASSUME NInv, open # <<>>, Top.kind = "try", NEW b \in Mine(Top)
  PROVE  /\ <<Op("tryleave", 0), Br(b)>> \in Seq(Instr)
         /\ SeqNests(<<Op("tryleave", 0), Br(b)>>, code, Top.within)
<1>1. PICK x, y, s, w : x = Op("tryleave", 0) /\ y = Br(b) /\ s = <<x, y>> /\ w = Top.within
  OBVIOUS
<1>2. w # <<>> /\ At(code, b, Front(w))
  <2>1. Base(Top) = Front(w)
    BY <1>1 DEF Base
  <2> QED BY <1>1, <2>1, TopPlaces
<1>3. b \in Nat
  BY <1>2, StartN DEF At
<1>4. x \in Instr /\ x.op = "tryleave"
  <2>1. "tryleave" \in Ops /\ 0 \in Nat
    BY DEF Ops
  <2> QED BY <1>1, <2>1, OpType DEF Op
<1>5. y \in Instr /\ y.op = "br" /\ y.yes = b /\ y.no = b
  BY <1>1, <1>3, BrType DEF Br, Branch
<1>6. s \in Seq(Instr) /\ Len(s) = 2 /\ s[1] = x /\ s[2] = y
  BY <1>1, <1>4, <1>5
<1>7. AfterLeave(s, 2) /\ \A i \in 1..Len(s) : i = 1 \/ i = 2
  BY <1>4, <1>6 DEF AfterLeave
<1>8. SeqNests(s, code, w)
  <2>1. /\ s[1].op = "tryleave" => 1 < Len(s) /\ s[1 + 1].op = "br" /\ w # <<>>
        /\ s[1].op = "tryleave"
    BY <1>2, <1>4, <1>5, <1>6
  <2>2. /\ s[2].op = "br" /\ s[2].no = s[2].yes
        /\ At(code, s[2].yes, IF AfterLeave(s, 2) THEN Front(w) ELSE w)
    BY <1>2, <1>5, <1>6, <1>7
  <2> QED BY <1>7, <2>1, <2>2 DEF SeqNests
<1> QED BY <1>1, <1>6, <1>8

(* The end of a block. *)
LEMMA CloseBlockN == NInv /\ CloseBlock => NInv'
<1> SUFFICES ASSUME NInv, CloseBlock PROVE NInv'
  OBVIOUS
<1>1. IInv'
  BY CloseBlockIInv DEF NInv
<1>2. open # <<>> /\ Top.kind \in {"block", "forscope"} /\ open' = Front(open) /\ cur' = cur
      /\ code' = Emit(BodyEnd(<<>>))
  BY DEF CloseBlock, CanClose
<1>3. PICK tail : tail = <<>>
  OBVIOUS
<1>4. tail \in Seq(Instr) /\ SeqNests(tail, code, Top.within)
  BY <1>3, CalmEmpty, CalmNests, EmptyType
<1>5. Top.kind \notin Nested /\ Base(Top) = Top.within
  BY <1>2 DEF Nested, Base
<1>6. At(code, cur', Base(Top))
  BY <1>2, <1>5, CurAt
<1> QED BY <1>1, <1>2, <1>3, <1>4, <1>5, <1>6, CloseHereN

(* The end of a loop. *)
LEMMA CloseLoopN == NInv /\ CloseLoop => NInv'
<1> SUFFICES ASSUME NInv, CloseLoop PROVE NInv'
  OBVIOUS
<1>1. IInv'
  BY CloseLoopIInv DEF NInv
<1>2. open # <<>> /\ Top.kind = "loop" /\ open' = Front(open) /\ cur' = Top.alt
      /\ code' = Emit(BodyEnd(<<Br(Top.next)>>))
  BY DEF CloseLoop, CanClose
<1>3. Top.next \in Mine(Top) /\ Top.alt \in Mine(Top) /\ Top.kind # "try"
  BY <1>2 DEF Mine
<1>4. PICK tail : tail = <<Br(Top.next)>>
  OBVIOUS
<1>5. tail \in Seq(Instr) /\ SeqNests(tail, code, Top.within)
  BY <1>2, <1>3, <1>4, BrOn
<1>6. Top.kind \notin Nested
  BY <1>2 DEF Nested
<1>7. At(code, cur', Base(Top))
  BY <1>2, <1>3, TopPlaces
<1> QED BY <1>1, <1>2, <1>4, <1>5, <1>6, <1>7, CloseHereN

(* The end of a catch clause. *)
LEMMA CloseCatchN == NInv /\ CloseCatch => NInv'
<1> SUFFICES ASSUME NInv, CloseCatch PROVE NInv'
  OBVIOUS
<1>1. IInv'
  BY CloseCatchIInv DEF NInv
<1>2. open # <<>> /\ Top.kind = "catch" /\ open' = Front(open) /\ cur' = Top.alt
      /\ code' = Emit(BodyEnd(<<Op("clear", 0), Br(Top.next)>>))
  BY DEF CloseCatch, CanClose
<1>3. Top.next \in Mine(Top) /\ Top.alt \in Mine(Top) /\ Top.kind # "try"
  BY <1>2 DEF Mine
<1>4. PICK tail : tail = <<Op("clear", 0), Br(Top.next)>>
  OBVIOUS
<1>5. tail \in Seq(Instr) /\ SeqNests(tail, code, Top.within)
  BY <1>2, <1>3, <1>4, ClearOn
<1>6. Top.kind \notin Nested
  BY <1>2 DEF Nested
<1>7. At(code, cur', Base(Top))
  BY <1>2, <1>3, TopPlaces
<1> QED BY <1>1, <1>2, <1>4, <1>5, <1>6, <1>7, CloseHereN

(* The end of a finally body. *)
LEMMA CloseFinallyN == NInv /\ CloseFinally => NInv'
<1> SUFFICES ASSUME NInv, CloseFinally PROVE NInv'
  OBVIOUS
<1>1. IInv'
  BY CloseFinallyIInv DEF NInv
<1>2. open # <<>> /\ Top.kind = "finally" /\ open' = Front(open) /\ cur' = cur /\ code' = code
  BY DEF CloseFinally, CanClose
<1>3. PICK is : is = <<>>
  OBVIOUS
<1>4. Grown(code, code', cur, is, <<>>) /\ SeqNests(is, code, Top.within)
  BY <1>2, <1>3, StartN, NothingGrows, CalmEmpty, CalmNests
<1>5. Top.kind \notin Nested /\ Base(Top) = Top.within
  BY <1>2 DEF Nested, Base
<1>6. Len(open) > 1 => At(code, cur', open[Len(open) - 1].within)
  <2>1. Base(Top) = open[Len(open) - 1].within
    BY <1>2, <1>5, TopPlaces
  <2> QED BY <1>2, <1>5, <2>1, CurAt
<1> QED BY <1>1, <1>2, <1>4, <1>6, CloseN

(* The end of a lambda. *)
LEMMA CloseLambdaN == NInv /\ CloseLambda => NInv'
<1> SUFFICES ASSUME NInv, CloseLambda PROVE NInv'
  OBVIOUS
<1>1. IInv'
  BY CloseLambdaIInv DEF NInv
<1>2. open # <<>> /\ Top.kind = "lambda" /\ open' = Front(open) /\ cur' = Top.next
      /\ code' = Emit(BodyEnd(<<Op("ret", 0)>>))
  BY DEF CloseLambda, CanClose
<1>3. Top.within = <<>> /\ At(code, Top.next, open[Len(open) - 1].within)
  BY <1>2, TopPlaces DEF Nested
<1>4. PICK tail, d : tail = <<Op("ret", 0)>> /\ d = code'
  OBVIOUS
<1>5. tail \in Seq(Instr)
  BY <1>4, OpType DEF Ops, Terminators
<1>6. SeqNests(tail, code, Top.within)
  BY <1>3, <1>4, RetNests
<1>7. PICK is : Grown(code, d, cur, is, <<>>) /\ SeqNests(is, code, Top.within)
  BY <1>2, <1>4, <1>5, <1>6, BodyEndN
<1>8. Len(open) > 1 => At(code, cur', open[Len(open) - 1].within)
  BY <1>2, <1>3
<1> QED BY <1>1, <1>2, <1>4, <1>7, <1>8, CloseN

(* The end of a function. *)
LEMMA CloseFunctionN == NInv /\ CloseFunction => NInv'
<1> SUFFICES ASSUME NInv, CloseFunction PROVE NInv'
  OBVIOUS
<1>1. IInv'
  BY CloseFunctionIInv DEF NInv
<1>2. open # <<>> /\ Top.kind = "function" /\ open' = <<>>
      /\ code' = Emit(BodyEnd(<<Op("ret", 0)>>))
  BY DEF CloseFunction, CanClose
<1>3. Top.within = <<>>
  BY <1>2, TopPlaces DEF Nested
<1>4. PICK tail, d, p : tail = <<Op("ret", 0)>> /\ d = code' /\ p = open'
  OBVIOUS
<1>5. tail \in Seq(Instr)
  BY <1>4, OpType DEF Ops, Terminators
<1>6. SeqNests(tail, code, Top.within)
  BY <1>3, <1>4, RetNests
<1>7. PICK is : Grown(code, d, cur, is, <<>>) /\ SeqNests(is, code, Top.within)
  BY <1>2, <1>4, <1>5, <1>6, BodyEndN
<1>8. PathsOK(d)
  <2>1. GrowsNested(d, is, <<>>)
    BY <1>2, <1>7, NoNewBlocks
  <2> QED BY <1>2, <2>1, PathsNested
<1>9. NestOK(p, d)
  <2>1. p = <<>> /\ 1..Len(p) = {}
    BY <1>2, <1>4
  <2> QED BY <2>1 DEF NestOK
<1> QED BY <1>1, <1>2, <1>4, <1>8, <1>9 DEF NInv

(* The start of an else branch. *)
LEMMA OpenElseN == NInv /\ OpenElse => NInv'
<1> SUFFICES ASSUME NInv, OpenElse PROVE NInv'
  OBVIOUS
<1>1. IInv'
  BY OpenElseIInv DEF NInv
<1>2. open # <<>> /\ Top.kind = "elsehead" /\ code' = code /\ cur' = cur
  BY DEF OpenElse
<1>3. PICK scoped \in BOOLEAN :
        open' = WithTop([Top EXCEPT !.kind = "else", !.scoped = scoped,
                                    !.objs = Len(cleanups), !.defs = Len(defers)])
  BY DEF OpenElse, BodyScoping
<1>4. PICK g : g = [Top EXCEPT !.kind = "else", !.scoped = scoped,
                               !.objs = Len(cleanups), !.defs = Len(defers)]
  OBVIOUS
<1>5. Top \in Frame /\ Len(cleanups) \in Nat /\ Len(defers) \in Nat
  BY <1>2, StartN, TopFacts
<1>6. /\ g.kind = "else" /\ g.next = Top.next /\ g.alt = Top.alt
      /\ g.brk = Top.brk /\ g.cont = Top.cont /\ g.within = Top.within
  BY <1>4, <1>5 DEF Frame
<1>7. g \in Frame
  BY <1>4, <1>5 DEF Frame, Kinds
<1>8. open' = [open EXCEPT ![Len(open)] = g]
  BY <1>3, <1>4 DEF WithTop
<1>9. PICK is : is = <<>>
  OBVIOUS
<1>10. Grown(code, code', cur, is, <<>>) /\ SeqNests(is, code, Top.within)
  BY <1>2, <1>9, StartN, NothingGrows, CalmEmpty, CalmNests
<1>11. Top.kind \notin Nested /\ g.kind \notin Nested \cup {"try", "loop"} /\ g.within = Base(Top)
  BY <1>2, <1>6 DEF Nested, Base
<1>12. Mine(g) = Mine(Top)
  BY <1>2, <1>6 DEF Mine
<1>13. At(code, cur', g.within)
  BY <1>2, <1>6, CurAt
<1> QED BY <1>1, <1>2, <1>6, <1>7, <1>8, <1>10, <1>11, <1>12, <1>13, NextHereN

(* The end of a branch of an if: of the last one, or with the other to     *)
(* come.                                                                   *)
LEMMA CloseBranchN == NInv /\ CloseBranch => NInv'
<1> SUFFICES ASSUME NInv, CloseBranch PROVE NInv'
  OBVIOUS
<1>1. IInv' /\ IInv
  BY CloseBranchIInv DEF NInv
<1>2. open # <<>> /\ Top.kind \in {"then", "else"} /\ code' = Emit(BodyEnd(<<Br(Top.next)>>))
  BY DEF CloseBranch, CanClose
<1>3. Top \in Frame /\ Top.next # 0 /\ Top.next \in Mine(Top)
  <2>1. FrameOK(Top, Len(code)) /\ Len(code) \in Nat /\ Top \in Frame
    BY <1>1, <1>2, TopFacts, StartN
  <2>2. Top.next \in 1..Len(code)
    BY <1>2, <2>1 DEF FrameOK
  <2>3. Top.next # 0
    BY <2>1, <2>2
  <2> QED BY <1>2, <2>1, <2>3 DEF Mine
<1>4. PICK tail, d : tail = <<Br(Top.next)>> /\ d = code'
  OBVIOUS
<1>5. Top.kind \notin Nested /\ Top.kind # "try" /\ Base(Top) = Top.within
  BY <1>2 DEF Nested, Base
<1>6. tail \in Seq(Instr) /\ SeqNests(tail, code, Top.within)
  BY <1>2, <1>3, <1>4, <1>5, BrOn
<1>7. CASE Top.kind = "then" /\ Top.alt # 0
  <2>1. PICK g : g = [Top EXCEPT !.kind = "elsehead", !.scoped = FALSE, !.begun = FALSE]
    OBVIOUS
  <2>2. /\ g \in Frame /\ g.kind = "elsehead" /\ g.next = Top.next /\ g.alt = Top.alt
        /\ g.brk = Top.brk /\ g.cont = Top.cont /\ g.within = Top.within
    BY <1>3, <2>1 DEF Frame, Kinds
  <2>3. cur' = Top.alt /\ open' = [open EXCEPT ![Len(open)] = g]
    BY <1>7, <2>1 DEF CloseBranch, WithTop
  <2>4. PICK is : Grown(code, d, cur, is, <<>>) /\ SeqNests(is, code, Top.within)
    BY <1>2, <1>4, <1>6, BodyEndN
  <2>5. Grown(code, code', cur, is, <<>>)
    BY <1>4, <2>4
  <2>6. Mine(g) = Mine(Top) /\ Top.alt \in Mine(Top)
    BY <1>7, <2>2 DEF Mine
  <2>7. At(code, cur', g.within)
    BY <1>2, <1>5, <2>2, <2>3, <2>6, TopPlaces
  <2>8. g.kind \notin Nested \cup {"try", "loop"} /\ g.within = Base(Top)
    BY <1>5, <2>2 DEF Nested
  <2> QED BY <1>1, <1>2, <1>5, <2>2, <2>3, <2>4, <2>5, <2>6, <2>7, <2>8, NextHereN
<1>8. CASE ~(Top.kind = "then" /\ Top.alt # 0)
  <2>1. cur' = Top.next /\ open' = Front(open)
    BY <1>8 DEF CloseBranch
  <2>2. At(code, cur', Base(Top))
    BY <1>2, <1>3, <2>1, TopPlaces
  <2> QED BY <1>1, <1>2, <1>4, <1>5, <1>6, <2>1, <2>2, CloseHereN
<1> QED BY <1>7, <1>8

(* The end of a try body: the clauses come next, outside of it. *)
LEMMA CloseTryBodyN == NInv /\ CloseTryBody => NInv'
<1> SUFFICES ASSUME NInv, CloseTryBody PROVE NInv'
  OBVIOUS
<1>1. IInv'
  BY CloseTryBodyIInv DEF NInv
<1>2. open # <<>> /\ Top.kind = "try" /\ cur' = Top.alt
      /\ code' = Emit(BodyEnd(<<Op("tryleave", 0), Br(Top.next)>>))
  BY DEF CloseTryBody, CanClose
<1>3. Mine(Top) = {Top.next, Top.alt} /\ Base(Top) = Front(Top.within) /\ Top.kind \notin Nested
  BY <1>2 DEF Mine, Base, Nested
<1>4. PICK tail, d : tail = <<Op("tryleave", 0), Br(Top.next)>> /\ d = code'
  OBVIOUS
<1>5. tail \in Seq(Instr) /\ SeqNests(tail, code, Top.within)
  <2>1. Top.next \in Mine(Top)
    BY <1>3
  <2> QED BY <1>2, <1>4, <2>1, LeaveOn
<1>6. PICK g : g = [Top EXCEPT !.kind = "dispatch", !.within = Front(Top.within)]
  OBVIOUS
<1>7. open' = [open EXCEPT ![Len(open)] = g]
  BY <1>6 DEF CloseTryBody, WithTop
<1>8. /\ g \in Frame /\ g.kind = "dispatch" /\ g.next = Top.next /\ g.alt = Top.alt
      /\ g.brk = Top.brk /\ g.cont = Top.cont /\ g.within = Front(Top.within)
  <2>1. Top \in Frame /\ Top.within \in Seq(Nat)
    BY <1>2, StartN
  <2>2. /\ g.kind = "dispatch" /\ g.next = Top.next /\ g.alt = Top.alt
        /\ g.brk = Top.brk /\ g.cont = Top.cont /\ g.within = Front(Top.within)
    BY <1>6, <2>1 DEF Frame
  <2>3. Front(Top.within) \in Seq(Nat)
    BY <2>1, FrontType
  <2>4. g \in Frame
    BY <1>6, <2>1, <2>3 DEF Frame, Kinds
  <2> QED BY <2>2, <2>4
<1>9. PICK is : Grown(code, d, cur, is, <<>>) /\ SeqNests(is, code, Top.within)
  BY <1>2, <1>4, <1>5, BodyEndN
<1>10. Grown(code, code', cur, is, <<>>)
  BY <1>4, <1>9
<1>11. Mine(g) = Mine(Top)
  BY <1>3, <1>8 DEF Mine
<1>12. At(code, cur', g.within)
  BY <1>2, <1>3, <1>8, TopPlaces
<1>13. g.kind \notin Nested \cup {"try", "loop"} /\ g.within = Base(Top)
  BY <1>3, <1>8 DEF Nested
<1> QED BY <1>1, <1>2, <1>3, <1>7, <1>8, <1>9, <1>10, <1>11, <1>12, <1>13, NextHereN

(* The end of a case: of the last one, or with the next to come. *)
LEMMA CloseCaseN == NInv /\ CloseCase => NInv'
<1> SUFFICES ASSUME NInv, CloseCase PROVE NInv'
  OBVIOUS
<1>1. IInv' /\ IInv
  BY CloseCaseIInv DEF NInv
<1>2. open # <<>> /\ Top.kind = "case"
  BY DEF CloseCase, CanClose
<1>3. /\ Top \in Frame /\ Top.alt \in Nat /\ Top.fin \in Nat /\ Top.next \in Nat /\ Top.alt <= Top.fin
      /\ Len(cleanups) \in Nat /\ Len(defers) \in Nat
  <2>1. FrameOK(Top, Len(code)) /\ Top \in Frame
    BY <1>1, <1>2, TopFacts, StartN
  <2>2. Top.alt <= Top.fin
    BY <1>2, <2>1 DEF FrameOK
  <2>3. Top.alt \in Nat /\ Top.fin \in Nat /\ Top.next \in Nat
    BY <2>1 DEF Frame
  <2> QED BY <1>1, <1>2, <2>1, <2>2, <2>3, TopFacts
<1>4. Mine(Top) = {Top.next} \cup Top.alt..Top.fin /\ Top.next \in Mine(Top)
  BY <1>2 DEF Mine
<1>5. Top.kind \notin Nested /\ Top.kind # "try" /\ Base(Top) = Top.within
  BY <1>2 DEF Nested, Base
<1>6. CASE Top.alt = Top.fin
  <2>1. PICK tail : tail = <<Br(Top.next)>>
    OBVIOUS
  <2>2. tail \in Seq(Instr) /\ SeqNests(tail, code, Top.within)
    BY <1>2, <1>4, <1>5, <2>1, BrOn
  <2>3. code' = Emit(BodyEnd(tail)) /\ cur' = Top.next /\ open' = Front(open)
    BY <1>6, <2>1 DEF CloseCase
  <2>4. At(code, cur', Base(Top))
    BY <1>2, <1>4, <2>3, TopPlaces
  <2> QED BY <1>1, <1>2, <1>5, <2>2, <2>3, <2>4, CloseHereN
<1>7. CASE Top.alt # Top.fin
  <2>1. Top.alt + 1 \in Top.alt..Top.fin
    BY <1>3, <1>7
  <2>2. PICK b : b \in {Top.alt + 1, Top.next} /\ code' = Emit(BodyEnd(<<Br(b)>>))
    <3>1. PICK fallthrough \in (IF Top.begun THEN BOOLEAN ELSE {TRUE}) :
            code' = Emit(BodyEnd(<<Br(IF fallthrough THEN Top.alt + 1 ELSE Top.next)>>))
      BY <1>7 DEF CloseCase
    <3> QED BY <3>1
  <2>3. b \in Mine(Top)
    BY <1>4, <2>1, <2>2
  <2>4. PICK tail, d : tail = <<Br(b)>> /\ d = code'
    OBVIOUS
  <2>5. tail \in Seq(Instr) /\ SeqNests(tail, code, Top.within)
    BY <1>2, <1>5, <2>3, <2>4, BrOn
  <2>6. PICK is : Grown(code, d, cur, is, <<>>) /\ SeqNests(is, code, Top.within)
    BY <1>2, <2>2, <2>4, <2>5, BodyEndN
  <2>7. Grown(code, code', cur, is, <<>>)
    BY <2>4, <2>6
  <2>8. PICK g : g = [Top EXCEPT !.alt = Top.alt + 1, !.begun = FALSE,
                                 !.objs = Len(cleanups), !.defs = Len(defers)]
    OBVIOUS
  <2>9. cur' = Top.alt + 1 /\ open' = [open EXCEPT ![Len(open)] = g]
    BY <1>7, <2>8 DEF CloseCase, WithTop
  <2>10. /\ g.kind = "case" /\ g.next = Top.next /\ g.alt = Top.alt + 1 /\ g.fin = Top.fin
         /\ g.brk = Top.brk /\ g.cont = Top.cont /\ g.within = Top.within
    BY <1>2, <1>3, <2>8 DEF Frame
  <2>11. g \in Frame
    <3>1. Top.alt + 1 \in Nat
      BY <1>3
    <3> QED BY <1>2, <1>3, <2>8, <3>1 DEF Frame
  <2>12. Mine(g) \subseteq Mine(Top)
    <3>1. Mine(g) = {Top.next} \cup (Top.alt + 1)..Top.fin
      BY <2>10 DEF Mine
    <3>2. (Top.alt + 1)..Top.fin \subseteq Top.alt..Top.fin
      BY <1>3
    <3> QED BY <1>4, <3>1, <3>2
  <2>13. At(code, cur', g.within)
    <3>1. cur' \in Mine(Top)
      BY <1>4, <2>1, <2>9
    <3> QED BY <1>2, <1>5, <2>10, <3>1, TopPlaces
  <2>14. g.kind \notin Nested \cup {"try", "loop"} /\ g.within = Base(Top)
    BY <1>5, <2>10 DEF Nested
  <2> QED BY <1>1, <1>2, <1>5, <2>6, <2>7, <2>9, <2>10, <2>11, <2>12, <2>13, <2>14, NextHereN
<1> QED BY <1>6, <1>7

(* The end of the clauses: without a finally the text goes on behind the   *)
(* statement; with one its body does.                                      *)
LEMMA CloseCatchesN == NInv /\ CloseCatches => NInv'
<1> SUFFICES ASSUME NInv, CloseCatches PROVE NInv'
  OBVIOUS
<1>1. IInv'
  BY CloseCatchesIInv DEF NInv
<1>2. open # <<>> /\ Top.kind = "dispatch"
  BY DEF CloseCatches
<1>3. PICK throw, e, d, f, b, p, n :
        /\ throw = <<Op("throw", 0), Op("unreachable", 0)>>
        /\ e = (IF cur = Top.alt THEN code ELSE Emit(throw))
        /\ d = code' /\ f = Top /\ b = Top.next /\ p = open' /\ n = Len(open)
  OBVIOUS
<1>4. PICK final : final = IF f.fin = 0 THEN <<>> ELSE <<Op("run", f.fin)>>
  OBVIOUS
<1>5. d = [e EXCEPT ![b].is = @ \o final] /\ cur' = b
  BY <1>3, <1>4 DEF CloseCatches
<1>6. /\ f = open[n] /\ f \in Frame /\ f.kind = "dispatch" /\ open \in Seq(Frame) /\ n \in Nat
  BY <1>2, <1>3, StartN
<1>7. n > 1 /\ f.within = open[n - 1].within /\ At(code, b, f.within)
  <2>1. Top.kind \notin Nested /\ Base(Top) = Top.within /\ b \in Mine(Top)
    BY <1>2, <1>3 DEF Nested, Base, Mine
  <2>2. Len(open) > 1 /\ Base(Top) = open[Len(open) - 1].within /\ At(code, b, Base(Top))
    BY <1>2, <2>1, TopPlaces
  <2> QED BY <1>3, <2>1, <2>2
<1>8. PathsOK(e) /\ NestOK(open, e) /\ At(e, b, f.within) /\ e \in Seq(Block)
  <2>1. PICK is : Grown(code, e, cur, is, <<>>) /\ SeqNests(is, code, Top.within)
    <3>1. CASE cur = Top.alt
      <4>1. PICK is : is = <<>>
        OBVIOUS
      <4>2. Grown(code, e, cur, is, <<>>) /\ SeqNests(is, code, Top.within)
        BY <1>2, <1>3, <3>1, <4>1, StartN, NothingGrows, CalmEmpty, CalmNests
      <4> QED BY <4>2
    <3>2. CASE cur # Top.alt
      <4>1. throw \in Seq(Instr) /\ SeqNests(throw, code, Top.within)
        BY <1>3, ThrowNests
      <4>2. Grown(code, e, cur, throw, <<>>)
        BY <1>2, <1>3, <3>2, <4>1, EmitN
      <4> QED BY <4>1, <4>2
    <3> QED BY <3>1, <3>2
  <2>2. GrowsNested(e, is, <<>>)
    BY <1>2, <2>1, NoNewBlocks
  <2>3. PathsOK(e) /\ NestOK(open, e) /\ \A a, w : At(code, a, w) => At(e, a, w)
    BY <1>2, <2>2, PathsNested
  <2>4. e \in Seq(Block)
    BY <2>1 DEF Grown
  <2> QED BY <1>7, <2>3, <2>4
<1>9. final \in Seq(Instr) /\ Calm(final)
  <2>1. CASE f.fin = 0
    BY <1>4, <2>1, CalmEmpty, EmptyType
  <2>2. CASE f.fin # 0
    <3>1. PICK op, m : op = "run" /\ m = f.fin
      OBVIOUS
    <3>2. m \in Nat /\ op \in Ops /\ op \notin Terminators \cup {"tryleave"}
      BY <1>6, <3>1 DEF Ops, Terminators, Frame
    <3>3. <<Op(op, m)>> \in Seq(Instr) /\ Calm(<<Op(op, m)>>)
      BY <3>2, OpType, CalmOne
    <3> QED BY <1>4, <2>2, <3>1, <3>3
  <2> QED BY <2>1, <2>2
<1>10. PICK none : none = <<>> /\ 1..Len(none) = {}
  <2>1. 1..Len(<<>>) = {}
    OBVIOUS
  <2> QED BY <2>1
<1>11. Grown(e, d, b, final, none)
  <2>1. b \in 1..Len(e)
    BY <1>8 DEF At
  <2> QED BY <1>5, <1>8, <1>9, <1>10, <2>1, EmitGrows
<1>12. PathsOK(d)
  <2>1. SeqNests(final, d, e[b].within)
    BY <1>9, CalmNests
  <2> QED BY <1>8, <1>10, <1>11, <2>1, PathsGrow
<1>13. NestOK(open, d)
  BY <1>8, <1>11, NestGrows
<1>14. At(d, b, f.within)
  BY <1>8, <1>11, AtGrows
<1>15. CASE f.fin = 0
  <2>1. p = Front(open)
    BY <1>3, <1>15 DEF CloseCatches
  <2>2. NestOK(p, d)
    BY <1>2, <1>6, <1>13, <2>1, NestPop
  <2>3. Len(p) = n - 1 /\ \A k \in 1..(n - 1) : p[k] = open[k]
    BY <1>2, <1>3, <1>6, <2>1, StackPop
  <2>4. p[Len(p)] = open[n - 1]
    <3>1. n - 1 \in 1..(n - 1)
      BY <1>6, <1>7
    <3> QED BY <2>3, <3>1
  <2>5. NestOK(open', code') /\ PathsOK(code') /\ At(code', cur', open'[Len(open')].within)
    BY <1>3, <1>5, <1>7, <1>12, <1>14, <2>2, <2>4
  <2> QED BY <1>1, <2>5 DEF NInv, Top
<1>16. CASE f.fin # 0
  <2>1. PICK g : g = [f EXCEPT !.kind = "finally"]
    OBVIOUS
  <2>2. p = [open EXCEPT ![Len(open)] = g]
    BY <1>3, <1>6, <1>16, <2>1 DEF CloseCatches
  <2>3. /\ g \in Frame /\ g.kind = "finally" /\ g.brk = f.brk /\ g.cont = f.cont
        /\ g.within = f.within
    BY <1>6, <2>1 DEF Frame, Kinds
  <2>4. FitsNest(g, open[n - 1], d)
    <3>1. Top.kind \notin Nested /\ g.kind \notin Nested \cup {"try", "loop"} /\ g.within = Base(Top)
      BY <1>2, <1>3, <2>3 DEF Nested, Base
    <3>2. Mine(g) = {}
      BY <2>3 DEF Mine
    <3>3. FitsNest(g, open[n - 1], code)
      BY <1>2, <1>3, <2>3, <3>1, <3>2, FitsNext
    <3> QED BY <2>3, <3>2, <3>3 DEF FitsNest
  <2>5. NestOK(p, d) /\ p[Len(p)] = g
    <3>1. n = Len(open) /\ n > 1 /\ open \in Seq(Frame) /\ g \in Frame
      BY <1>3, <1>6, <1>7, <2>3
    <3> QED BY <1>13, <2>2, <2>4, <3>1, NestReplace, Zenon
  <2>6. NestOK(open', code') /\ PathsOK(code') /\ At(code', cur', open'[Len(open')].within)
    BY <1>3, <1>5, <1>12, <1>14, <2>3, <2>5
  <2> QED BY <1>1, <2>6 DEF NInv, Top
<1> QED BY <1>15, <1>16

-----------------------------------------------------------------------------
(* Statements that make more than empty blocks. *)

(* A block that has its code, or its place in a try, and two empty ones. *)
LEMMA OneAndTwoN ==
  ASSUME NInv, open # <<>>, NEW B \in Block, NEW new, new = <<B>> \o NB(2)
  PROVE  /\ new \in Seq(Block) /\ Len(new) = 3
         /\ new[1] = B /\ new[2] = BlockHere /\ new[3] = BlockHere
<1>1. NB(2) \in Seq(Block) /\ Len(NB(2)) = 2 /\ NB(2)[1] = BlockHere /\ NB(2)[2] = BlockHere
  <2>1. PICK k \in Nat : k = 2
    OBVIOUS
  <2>2. NB(k) \in Seq(Block) /\ Len(NB(k)) = k /\ \A a \in 1..k : NB(k)[a] = BlockHere
    BY BlocksHere
  <2> QED BY <2>1, <2>2
<1>2. PICK s, t : s = <<B>> /\ t = NB(2)
  OBVIOUS
<1>3. s \in Seq(Block) /\ Len(s) = 1 /\ s[1] = B
  BY <1>2
<1>4. /\ s \o t \in Seq(Block) /\ Len(s \o t) = 3
      /\ (s \o t)[1] = B /\ (s \o t)[2] = t[1] /\ (s \o t)[3] = t[2]
  BY <1>1, <1>2, <1>3
<1> QED BY <1>1, <1>2, <1>4

(* What Emit and the blocks appended to it one after the other come to. *)
LEMMA EmitsOneAndTwo ==
  ASSUME NInv, open # <<>>, NEW is \in Seq(Instr), NEW B \in Block,
         NEW new, new = <<B>> \o NB(2), NEW d, d = Emit(is) \o <<B>> \o NB(2)
  PROVE  Emits(is, new, d)
<1>1. PICK e, s, t : e = Emit(is) /\ s = <<B>> /\ t = NB(2)
  OBVIOUS
<1>2. e \in Seq(Block)
  BY <1>1, StartN, EmitType
<1>3. s \in Seq(Block)
  BY <1>1, OneType
<1>4. t \in Seq(Block)
  <2>1. 2 \in Nat
    OBVIOUS
  <2> QED BY <1>1, <2>1, BlocksHere
<1>5. (e \o s) \o t = e \o (s \o t)
  BY <1>2, <1>3, <1>4, ThreeInARow, SMTT(30)
<1>6. d = e \o new
  BY <1>1, <1>5
<1> QED BY <1>1, <1>6 DEF Emits

(* generateWhile, generateDoWhile. *)
LEMMA OpenLoopN ==
  ASSUME NInv, NEW feature, NEW test, OpenLoop(feature, test)
  PROVE  NInv'
<1>1. IInv'
  BY OpenLoopIInv DEF NInv
<1>2. CanOpen
  BY DEF OpenLoop
<1>3. PICK scoped \in BOOLEAN :
        LET cond == Len(code) + 1
            body == Len(code) + 2
            exit == Len(code) + 3
        IN  /\ code' = Emit(<<Br(IF test = "first" THEN cond ELSE body)>>)
                       \o <<[BlockHere EXCEPT !.is = <<Branch("condbr", 0, body, exit)>>]>>
                       \o NB(2)
            /\ cur' = body
            /\ open' = Append(Taken, NewFrame("loop", scoped, cond, exit))
  BY DEF OpenLoop, BodyScoping
<1>4. /\ open # <<>> /\ Len(code) \in Nat
      /\ SamePlaces(open, Taken) /\ Taken \in Seq(Frame) /\ Taken # <<>>
  BY <1>2, OpenFactsN
<1>5. PICK n, n1, n2, n3, to : /\ n = Len(code) /\ n1 = n + 1 /\ n2 = n + 2 /\ n3 = n + 3
                               /\ to = (IF test = "first" THEN n1 ELSE n2)
  OBVIOUS
<1>6. n \in Nat /\ n1 \in Nat /\ n2 \in Nat /\ n3 \in Nat /\ to \in Nat /\ to \in {n1, n2}
  BY <1>4, <1>5
<1>7. PICK is, z, y, B, new, d, f :
        /\ is = <<Br(to)>> /\ z = Branch("condbr", 0, n2, n3) /\ y = <<z>>
        /\ B = [BlockHere EXCEPT !.is = y] /\ new = <<B>> \o NB(2)
        /\ d = code' /\ f = NewFrame("loop", scoped, n1, n3)
  OBVIOUS
<1>8. is \in Seq(Instr) /\ y \in Seq(Instr)
  <2>1. "condbr" \in Ops /\ 0 \in Nat
    BY DEF Ops, Terminators
  <2> QED BY <1>6, <1>7, <2>1, BranchType, BrType
<1>9. /\ BlockHere \in Block /\ BlockHere.fn = Here.fn /\ BlockHere.within = Top.within
      /\ BlockHere.is = <<>>
  BY <1>4, BlocksHere
<1>10. B \in Block /\ B.fn = Here.fn /\ B.is = y /\ B.within = Top.within
  BY <1>7, <1>8, <1>9 DEF Block
<1>11. /\ new \in Seq(Block) /\ Len(new) = 3
       /\ new[1] = B /\ new[2] = BlockHere /\ new[3] = BlockHere
  BY <1>4, <1>7, <1>10, OneAndTwoN
<1>12. Emits(is, new, d)
  <2>1. d = Emit(is) \o <<B>> \o NB(2)
    BY <1>3, <1>5, <1>7
  <2> QED BY <1>4, <1>7, <1>8, <1>10, <2>1, EmitsOneAndTwo
<1>13. cur' = n2 /\ open' = Append(Taken, f)
  BY <1>3, <1>5, <1>7
<1>14. At(d, n1, Top.within) /\ At(d, n2, Top.within) /\ At(d, n3, Top.within)
  <2>1. \A a \in 1..Len(new) : At(d, Len(code) + a, new[a].within)
    BY <1>4, <1>8, <1>11, <1>12, NewAt
  <2>2. 1 \in 1..Len(new) /\ 2 \in 1..Len(new) /\ 3 \in 1..Len(new)
    BY <1>11
  <2> QED BY <1>5, <1>9, <1>10, <1>11, <2>1, <2>2
<1>15. SeqNests(is, d, Top.within)
  <2>1. At(d, to, Top.within)
    BY <1>6, <1>14
  <2> QED BY <1>7, <2>1, BrNests
<1>16. \A a \in 1..Len(new) : Fresh(new[a], d)
  <2>1. SeqNests(y, d, Top.within)
    BY <1>7, <1>14, CondNests
  <2>2. SeqNests(<<>>, d, Top.within)
    BY CalmEmpty, CalmNests
  <2>3. Fresh(B, d) /\ Fresh(BlockHere, d)
    BY <1>9, <1>10, <2>1, <2>2 DEF Fresh
  <2>4. \A a \in 1..Len(new) : a = 1 \/ a = 2 \/ a = 3
    BY <1>11
  <2> QED BY <1>11, <2>3, <2>4
<1>17. /\ f \in Frame /\ f.kind = "loop" /\ f.next = n1 /\ f.alt = n3
       /\ f.brk = breakTarget /\ f.cont = continueTarget /\ f.within = Top.within
  <2>1. PICK kind \in Kinds : kind = "loop"
    BY DEF Kinds
  <2>2. f = NewFrame(kind, scoped, n1, n3)
    BY <1>7, <2>1
  <2>3. /\ f \in Frame /\ f.kind = kind /\ f.next = n1 /\ f.alt = n3
        /\ f.brk = breakTarget /\ f.cont = continueTarget /\ f.within = Top.within
    BY <1>4, <1>6, <2>2, FrameHere
  <2> QED BY <2>1, <2>3
<1>18. \A b \in Mine(f) : At(d, b, Top.within)
  <2>1. Mine(f) = {n1, n3}
    BY <1>17 DEF Mine
  <2> QED BY <1>14, <2>1
<1>19. PICK b : b = cur' /\ At(d, b, Top.within)
  BY <1>13, <1>14
<1>20. f.kind \notin {"function", "lambda", "try"} /\ d = code'
  BY <1>7, <1>17
<1> QED BY <1>1, <1>4, <1>8, <1>11, <1>12, <1>13, <1>15, <1>16, <1>17, <1>18, <1>19, <1>20, OpenHereN

(* generateSwitch. *)
LEMMA OpenSwitchN == NInv /\ OpenSwitch => NInv'
<1> SUFFICES ASSUME NInv, OpenSwitch PROVE NInv'
  OBVIOUS
<1>1. IInv'
  BY OpenSwitchIInv DEF NInv
<1>2. CanOpen
  BY DEF OpenSwitch
<1>3. PICK k \in 1..MaxCases, default \in BOOLEAN :
        LET exit == Len(code) + 1
            first == Len(code) + 2
        IN  /\ code' = Emit(<<Branch("switch", k, first, IF default THEN first ELSE exit)>>)
                       \o NB(k + 1)
            /\ cur' = first
            /\ open' = Append(Taken, [NewFrame("case", FALSE, exit, first)
                                        EXCEPT !.fin = Len(code) + 1 + k])
  BY DEF OpenSwitch
<1>4. /\ open # <<>> /\ Len(code) \in Nat
      /\ SamePlaces(open, Taken) /\ Taken \in Seq(Frame) /\ Taken # <<>>
  BY <1>2, OpenFactsN
<1>5. PICK n, n1, n2, last, m, no :
        /\ n = Len(code) /\ n1 = n + 1 /\ n2 = n + 2 /\ last = n + 1 + k /\ m = k + 1
        /\ no = (IF default THEN n2 ELSE n1)
  OBVIOUS
<1>6. /\ n \in Nat /\ n1 \in Nat /\ n2 \in Nat /\ last \in Nat /\ m \in Nat /\ k \in Nat
      /\ k >= 1 /\ no \in Nat /\ no \in {n1, n2}
  BY <1>4, <1>5, BoundsAssumption
<1>7. PICK is, new, d, g, f :
        /\ is = <<Branch("switch", k, n2, no)>> /\ new = NB(m)
        /\ d = code' /\ g = NewFrame("case", FALSE, n1, n2) /\ f = [g EXCEPT !.fin = last]
  OBVIOUS
<1>8. is \in Seq(Instr)
  <2>1. "switch" \in Ops
    BY DEF Ops, Terminators
  <2> QED BY <1>6, <1>7, <2>1, BranchType
<1>9. new \in Seq(Block) /\ Len(new) = m /\ \A a \in 1..Len(new) : Fresh(new[a], d)
  <2>1. SeqNests(<<>>, d, Top.within)
    BY CalmEmpty, CalmNests
  <2>2. new \in Seq(Block) /\ Len(new) = m /\ \A a \in 1..m : new[a] = BlockHere
    BY <1>4, <1>6, <1>7, BlocksHere
  <2>3. Fresh(BlockHere, d)
    BY <1>4, <2>1, BlocksHere DEF Fresh
  <2> QED BY <2>2, <2>3
<1>10. Emits(is, new, d) /\ cur' = n2 /\ open' = Append(Taken, f)
  BY <1>3, <1>5, <1>7 DEF Emits
<1>11. /\ g \in Frame /\ g.kind = "case" /\ g.next = n1 /\ g.alt = n2
       /\ g.brk = breakTarget /\ g.cont = continueTarget /\ g.within = Top.within
  <2>1. PICK kind \in Kinds : kind = "case"
    BY DEF Kinds
  <2>2. PICK scoped \in BOOLEAN : scoped = FALSE
    OBVIOUS
  <2>3. g = NewFrame(kind, scoped, n1, n2)
    BY <1>7, <2>1, <2>2
  <2>4. /\ g \in Frame /\ g.kind = kind /\ g.next = n1 /\ g.alt = n2
        /\ g.brk = breakTarget /\ g.cont = continueTarget /\ g.within = Top.within
    BY <1>4, <1>6, <2>3, FrameHere
  <2> QED BY <2>1, <2>4
<1>12. /\ f \in Frame /\ f.kind = "case" /\ f.next = n1 /\ f.alt = n2 /\ f.fin = last
       /\ f.brk = breakTarget /\ f.cont = continueTarget /\ f.within = Top.within
  BY <1>6, <1>7, <1>11 DEF Frame
<1>13. \A a \in (n + 1)..(n + m) : At(d, a, Top.within)
  <2>1. \A a \in 1..Len(new) : At(d, Len(code) + a, new[a].within)
    BY <1>4, <1>8, <1>9, <1>10, NewAt
  <2>2. \A a \in 1..m : At(d, n + a, Top.within)
    BY <1>5, <1>9, <2>1 DEF Fresh
  <2>3. ASSUME NEW a \in (n + 1)..(n + m) PROVE At(d, a, Top.within)
    <3>1. a - n \in 1..m /\ n + (a - n) = a
      BY <1>6
    <3> QED BY <2>2, <3>1
  <2> QED BY <2>3
<1>14. SeqNests(is, d, Top.within)
  <2>1. \A t \in n2..(n2 + k - 1) : t \in (n + 1)..(n + m)
    BY <1>5, <1>6
  <2>2. \A t \in n2..(n2 + k - 1) : At(d, t, Top.within)
    BY <1>13, <2>1
  <2>3. no \in (n + 1)..(n + m)
    BY <1>5, <1>6
  <2>4. At(d, no, Top.within)
    BY <1>13, <2>3
  <2> QED BY <1>7, <2>2, <2>4, SwitchNests
<1>15. \A b \in Mine(f) : At(d, b, Top.within)
  <2>1. Mine(f) = {n1} \cup n2..last
    BY <1>12 DEF Mine
  <2>2. Mine(f) \subseteq (n + 1)..(n + m)
    BY <1>5, <1>6, <2>1
  <2> QED BY <1>13, <2>2
<1>16. PICK b : b = cur' /\ At(d, b, Top.within)
  <2>1. n2 \in (n + 1)..(n + m)
    BY <1>5, <1>6
  <2> QED BY <1>10, <1>13, <2>1
<1>17. f.kind \notin {"function", "lambda", "try"} /\ d = code'
  BY <1>7, <1>12
<1> QED BY <1>1, <1>4, <1>8, <1>9, <1>10, <1>12, <1>14, <1>15, <1>16, <1>17, OpenHereN

(* A catch clause. *)
LEMMA OpenCatchN == NInv /\ OpenCatch => NInv'
<1> SUFFICES ASSUME NInv, OpenCatch PROVE NInv'
  OBVIOUS
<1>1. IInv'
  BY OpenCatchIInv DEF NInv
<1>2. open # <<>> /\ Top.kind = "dispatch"
  BY DEF OpenCatch
<1>3. PICK all \in BOOLEAN :
        LET body == Len(code) + 1
            next == Len(code) + 2
        IN  /\ code' = Emit(<<Branch("match", IF all THEN 1 ELSE 0, body, next)>>) \o NB(2)
            /\ cur' = body
            /\ open' = Append([open EXCEPT ![Len(open)].all = all],
                              NewFrame("catch", TRUE, Top.next, next))
  BY DEF OpenCatch
<1>4. Len(code) \in Nat /\ Top \in Frame /\ Top.next \in Nat
  <2>1. Len(code) \in Nat /\ Top \in Frame
    BY <1>2, StartN
  <2> QED BY <2>1 DEF Frame
<1>5. PICK n, n1, n2, arg, next : /\ n = Len(code) /\ n1 = n + 1 /\ n2 = n + 2
                                  /\ arg = (IF all THEN 1 ELSE 0) /\ next = Top.next
  OBVIOUS
<1>6. n \in Nat /\ n1 \in Nat /\ n2 \in Nat /\ arg \in Nat /\ next \in Nat
  BY <1>4, <1>5
<1>7. PICK is, new, d, f, q :
        /\ is = <<Branch("match", arg, n1, n2)>> /\ new = NB(2)
        /\ d = code' /\ f = NewFrame("catch", TRUE, next, n2)
        /\ q = [open EXCEPT ![Len(open)].all = all]
  OBVIOUS
<1>8. is \in Seq(Instr)
  <2>1. "match" \in Ops
    BY DEF Ops, Terminators
  <2> QED BY <1>6, <1>7, <2>1, BranchType
<1>9. new \in Seq(Block) /\ Len(new) = 2 /\ \A a \in 1..Len(new) : Fresh(new[a], d)
  <2>1. SeqNests(<<>>, d, Top.within)
    BY CalmEmpty, CalmNests
  <2>2. PICK k \in Nat : k = 2
    OBVIOUS
  <2>3. new = NB(k)
    BY <1>7, <2>2
  <2>4. new \in Seq(Block) /\ Len(new) = k /\ \A a \in 1..k : new[a] = BlockHere
    BY <1>2, <2>3, BlocksHere
  <2>5. Fresh(BlockHere, d)
    BY <1>2, <2>1, BlocksHere DEF Fresh
  <2> QED BY <2>2, <2>4, <2>5
<1>10. Emits(is, new, d) /\ cur' = n1 /\ open' = Append(q, f)
  BY <1>3, <1>5, <1>7 DEF Emits
<1>11. SamePlaces(open, q) /\ q \in Seq(Frame) /\ q # <<>>
  <2>1. PICK g : g = [Top EXCEPT !.all = all]
    OBVIOUS
  <2>2. g \in Frame /\ Alike(g, Top) /\ g.objs = Top.objs /\ g.within = Top.within
    BY <1>4, <2>1 DEF Alike, Frame
  <2>3. q = [open EXCEPT ![Len(open)] = g]
    BY <1>7, <2>1 DEF Top
  <2>4. open \in Seq(Frame) /\ Top = open[Len(open)] /\ Len(open) \in Nat /\ Len(open) >= 1
    BY <1>2, StartN
  <2>5. q \in Seq(Frame) /\ Len(q) = Len(open) /\ q[Len(open)] = g /\ q # <<>>
        /\ \A k \in 1..(Len(open) - 1) : q[k] = open[k]
    BY <1>2, <2>2, <2>3, <2>4, StackReplace
  <2>6. ASSUME NEW k \in 1..Len(open)
        PROVE  Alike(q[k], open[k]) /\ q[k].objs = open[k].objs /\ q[k].within = open[k].within
    <3>1. CASE k = Len(open)
      BY <2>2, <2>4, <2>5, <3>1
    <3>2. CASE k # Len(open)
      <4>1. q[k] = open[k]
        BY <2>4, <2>5, <3>2
      <4> QED BY <4>1 DEF Alike
    <3> QED BY <3>1, <3>2
  <2> QED BY <2>4, <2>5, <2>6 DEF SamePlaces, SameFrames
<1>12. /\ f \in Frame /\ f.kind = "catch" /\ f.next = next /\ f.alt = n2
       /\ f.brk = breakTarget /\ f.cont = continueTarget /\ f.within = Top.within
  <2>1. PICK kind \in Kinds : kind = "catch"
    BY DEF Kinds
  <2>2. PICK scoped \in BOOLEAN : scoped = TRUE
    OBVIOUS
  <2>3. f = NewFrame(kind, scoped, next, n2)
    BY <1>7, <2>1, <2>2
  <2>4. /\ f \in Frame /\ f.kind = kind /\ f.next = next /\ f.alt = n2
        /\ f.brk = breakTarget /\ f.cont = continueTarget /\ f.within = Top.within
    BY <1>2, <1>6, <2>3, FrameHere
  <2> QED BY <2>1, <2>4
<1>13. At(d, n1, Top.within) /\ At(d, n2, Top.within)
  <2>1. \A a \in 1..Len(new) : At(d, Len(code) + a, new[a].within)
    BY <1>2, <1>8, <1>9, <1>10, NewAt
  <2>2. 1 \in 1..Len(new) /\ 2 \in 1..Len(new)
    BY <1>9
  <2> QED BY <1>5, <1>9, <2>1, <2>2 DEF Fresh
<1>14. SeqNests(is, d, Top.within)
  <2>1. PICK op \in {"condbr", "match"} : op = "match"
    OBVIOUS
  <2>2. is = <<Branch(op, arg, n1, n2)>>
    BY <1>7, <2>1
  <2> QED BY <1>13, <2>2, CondNests
<1>15. At(d, next, Top.within)
  <2>1. next \in Mine(Top) /\ Base(Top) = Top.within
    BY <1>2, <1>5 DEF Mine, Base
  <2>2. At(code, next, Top.within)
    BY <1>2, <2>1, TopPlaces
  <2>3. Grown(code, d, cur, is, new)
    BY <1>2, <1>8, <1>9, <1>10, EmitsN
  <2> QED BY <2>2, <2>3, AtGrows
<1>16. \A b \in Mine(f) : At(d, b, Top.within)
  <2>1. Mine(f) = {next, n2}
    BY <1>12 DEF Mine
  <2> QED BY <1>13, <1>15, <2>1
<1>17. PICK b : b = cur' /\ At(d, b, Top.within)
  BY <1>10, <1>13
<1>18. f.kind \notin {"function", "lambda", "try"} /\ d = code'
  BY <1>7, <1>12
<1> QED BY <1>1, <1>2, <1>8, <1>9, <1>10, <1>11, <1>12, <1>14, <1>16, <1>17, <1>18, OpenHereN

LEMMA OneMore ==
  ASSUME NEW w \in Seq(Nat), NEW b \in Nat, NEW v, v = Append(w, b)
  PROVE  v \in Seq(Nat) /\ v # <<>> /\ v[Len(v)] = b /\ Front(v) = w
<1>1. v \in Seq(Nat) /\ v # <<>> /\ Len(v) = Len(w) + 1 /\ v[Len(w) + 1] = b
      /\ \A k \in 1..Len(w) : v[k] = w[k]
  BY StackPush
<1>2. PICK u : u = Front(v)
  OBVIOUS
<1>3. u \in Seq(Nat) /\ Len(u) = Len(v) - 1 /\ \A k \in 1..(Len(v) - 1) : u[k] = v[k]
  BY <1>1, <1>2, StackPop
<1>4. u \in Seq(Nat) /\ Len(u) = Len(w) /\ \A k \in 1..Len(w) : u[k] = w[k]
  BY <1>1, <1>3
<1>5. u = w
  BY <1>4
<1> QED BY <1>1, <1>2, <1>5

(* generateTry. *)
LEMMA OpenTryN == NInv /\ OpenTry => NInv'
<1> SUFFICES ASSUME NInv, OpenTry PROVE NInv'
  OBVIOUS
<1>1. IInv'
  BY OpenTryIInv DEF NInv
<1>2. CanOpen
  BY DEF OpenTry
<1>3. PICK fin \in {0, Place} :
        LET body == Len(code) + 1
            dispatch == Len(code) + 2
            exit == Len(code) + 3
        IN  /\ code' = Emit((IF fin # 0 THEN <<Op("arm", fin)>> ELSE <<>>)
                            \o <<Branch("try", 0, body, dispatch)>>)
                       \o <<[BlockHere EXCEPT !.within = Append(@, dispatch)]>> \o NB(2)
            /\ cur' = body
            /\ open' = Append(Taken, [NewFrame("try", FALSE, exit, dispatch)
                                        EXCEPT !.fin = fin, !.within = Append(@, dispatch)])
  BY DEF OpenTry
<1>4. /\ open # <<>> /\ Len(code) \in Nat /\ fin \in Nat
      /\ SamePlaces(open, Taken) /\ Taken \in Seq(Frame) /\ Taken # <<>>
  BY <1>2, OpenFactsN
<1>5. PICK n, n1, n2, n3 : n = Len(code) /\ n1 = n + 1 /\ n2 = n + 2 /\ n3 = n + 3
  OBVIOUS
<1>6. n \in Nat /\ n1 \in Nat /\ n2 \in Nat /\ n3 \in Nat
  BY <1>4, <1>5
<1>7. PICK u, w, is, v, C, B, new, d, g, f :
        /\ w = <<Branch("try", 0, n1, n2)>>
        /\ u = (IF fin # 0 THEN <<Op("arm", fin)>> ELSE <<>>) /\ is = u \o w
        /\ v = Append(Top.within, n2) /\ C = BlockHere
        /\ B = [C EXCEPT !.within = Append(@, n2)] /\ new = <<B>> \o NB(2)
        /\ d = code' /\ g = NewFrame("try", FALSE, n3, n2)
        /\ f = [g EXCEPT !.fin = fin, !.within = Append(@, n2)]
  OBVIOUS
<1>8. v \in Seq(Nat) /\ v # <<>> /\ v[Len(v)] = n2 /\ Front(v) = Top.within
  <2>1. Top.within \in Seq(Nat)
    BY <1>4, StartN
  <2> QED BY <1>6, <1>7, <2>1, OneMore
<1>9. w \in Seq(Instr)
  <2>1. "try" \in Ops /\ 0 \in Nat
    BY DEF Ops, Terminators
  <2> QED BY <1>6, <1>7, <2>1, BranchType
<1>10. u \in Seq(Instr) /\ Calm(u)
  <2>1. CASE fin = 0
    BY <1>7, <2>1, EmptyType, CalmEmpty
  <2>2. CASE fin # 0
    <3>1. "arm" \in Ops /\ "arm" \notin Terminators \cup {"tryleave"}
      BY DEF Ops, Terminators
    <3>2. u = <<Op("arm", fin)>>
      BY <1>7, <2>2
    <3> QED BY <1>4, <3>1, <3>2, OpType, CalmOne
  <2> QED BY <2>1, <2>2
<1>11. is \in Seq(Instr)
  BY <1>7, <1>9, <1>10, ConcatType
<1>12. C \in Block /\ C.fn = Here.fn /\ C.within = Top.within /\ C.is = <<>>
  BY <1>4, <1>7, BlocksHere
<1>13. B \in Block /\ B.fn = Here.fn /\ B.is = <<>> /\ B.within = v
  <2>1. B = [C EXCEPT !.within = v]
    BY <1>7, <1>12
  <2> QED BY <1>8, <1>12, <2>1 DEF Block
<1>14. /\ new \in Seq(Block) /\ Len(new) = 3
       /\ new[1] = B /\ new[2] = C /\ new[3] = C
  BY <1>4, <1>7, <1>13, OneAndTwoN
<1>15. Emits(is, new, d)
  <2>1. d = Emit(is) \o <<B>> \o NB(2)
    BY <1>3, <1>5, <1>7
  <2> QED BY <1>4, <1>7, <1>11, <1>13, <2>1, EmitsOneAndTwo
<1>16. cur' = n1 /\ open' = Append(Taken, f)
  BY <1>3, <1>5, <1>7
<1>17. At(d, n1, v) /\ At(d, n2, Top.within) /\ At(d, n3, Top.within)
  <2>1. \A a \in 1..Len(new) : At(d, Len(code) + a, new[a].within)
    BY <1>4, <1>11, <1>14, <1>15, NewAt
  <2>2. 1 \in 1..Len(new) /\ 2 \in 1..Len(new) /\ 3 \in 1..Len(new)
    BY <1>14
  <2> QED BY <1>5, <1>12, <1>13, <1>14, <2>1, <2>2
<1>18. SeqNests(is, d, Top.within)
  <2>1. PICK t : t = Top.within
    OBVIOUS
  <2>2. SeqNests(w, d, t)
    BY <1>7, <1>17, <2>1, TryNests
  <2>3. SeqNests(u, d, t)
    BY <1>10, CalmNests
  <2>4. SeqNests(u \o w, d, t)
    BY <1>9, <1>10, <2>2, <2>3, SeqNestsConcat
  <2> QED BY <1>7, <2>1, <2>4
<1>19. Grown(code, d, cur, is, new)
  BY <1>4, <1>11, <1>14, <1>15, EmitsN
<1>20. PlaceOK(B, n1, d)
  <2>1. B.fn \in 1..Len(code) /\ B.fn # n1
    <3>1. B.fn \in 1..Len(code)
      BY <1>4, <1>13, StartN
    <3> QED BY <1>5, <1>6, <3>1
  <2>2. B.fn \in 1..Len(d)
    BY <1>19, <2>1, GrownFacts
  <2> QED BY <1>8, <1>13, <1>17, <2>1, <2>2 DEF PlaceOK
<1>21. PlaceOK(C, n2, d) /\ PlaceOK(C, n3, d)
  <2>1. 2 \in 1..Len(new) /\ 3 \in 1..Len(new)
    BY <1>14
  <2>2. PlaceOK(C, Len(code) + 2, d)
    BY <1>4, <1>12, <1>19, <2>1, FreshPlace
  <2>3. PlaceOK(C, Len(code) + 3, d)
    BY <1>4, <1>12, <1>19, <2>1, FreshPlace
  <2> QED BY <1>5, <2>2, <2>3
<1>22. GrowsNested(d, is, new)
  <2>1. \A a \in 1..Len(new) : a = 1 \/ a = 2 \/ a = 3
    BY <1>14
  <2>2. \A a \in 1..Len(new) : PlaceOK(new[a], Len(code) + a, d)
    BY <1>5, <1>14, <1>20, <1>21, <2>1
  <2>3. \A a \in 1..Len(new) : new[a].is = <<>>
    BY <1>12, <1>13, <1>14, <2>1
  <2>4. \A a \in 1..Len(new) : SeqNests(new[a].is, d, new[a].within)
    BY <2>3, CalmEmpty, CalmNests
  <2> QED BY <1>18, <1>19, <2>2, <2>4 DEF GrowsNested
<1>23. /\ g \in Frame /\ g.kind = "try" /\ g.next = n3 /\ g.alt = n2
       /\ g.brk = breakTarget /\ g.cont = continueTarget /\ g.within = Top.within
  <2>1. PICK kind \in Kinds : kind = "try"
    BY DEF Kinds
  <2>2. PICK scoped \in BOOLEAN : scoped = FALSE
    OBVIOUS
  <2>3. g = NewFrame(kind, scoped, n3, n2)
    BY <1>7, <2>1, <2>2
  <2>4. /\ g \in Frame /\ g.kind = kind /\ g.next = n3 /\ g.alt = n2
        /\ g.brk = breakTarget /\ g.cont = continueTarget /\ g.within = Top.within
    BY <1>4, <1>6, <2>3, FrameHere
  <2> QED BY <2>1, <2>4
<1>24. /\ f \in Frame /\ f.kind = "try" /\ f.next = n3 /\ f.alt = n2
       /\ f.brk = breakTarget /\ f.cont = continueTarget /\ f.within = v
  <2>1. f = [g EXCEPT !.fin = fin, !.within = v]
    BY <1>7, <1>23
  <2> QED BY <1>4, <1>8, <1>23, <2>1 DEF Frame
<1>25. FitsNest(f, Top, d)
  <2>1. Mine(f) = {n2, n3} /\ Base(f) = Top.within
    BY <1>5, <1>6, <1>8, <1>24 DEF Mine, Base
  <2>2. \A b \in Mine(f) : At(d, b, Base(f))
    BY <1>17, <2>1
  <2>3. breakTarget = BreakIn(Top) /\ continueTarget = ContinueIn(Top)
    BY <1>4, StartN, TopFacts
  <2>4. BreakIn(f) = BreakIn(Top) /\ ContinueIn(f) = ContinueIn(Top)
    BY <1>24, <2>3 DEF BreakIn, ContinueIn
  <2> QED BY <1>8, <1>24, <2>1, <2>2, <2>4 DEF FitsNest
<1>26. At(d, cur', f.within) /\ d = code'
  BY <1>7, <1>16, <1>17, <1>24
<1> QED BY <1>1, <1>4, <1>16, <1>22, <1>24, <1>25, <1>26, OpenN

(* A lambda: a function of its own. *)
LEMMA OpenLambdaN == NInv /\ OpenLambda => NInv'
<1> SUFFICES ASSUME NInv, OpenLambda PROVE NInv'
  OBVIOUS
<1>1. IInv'
  BY OpenLambdaIInv DEF NInv
<1>2. CanOpen
  BY DEF OpenLambda
<1>3. /\ open # <<>> /\ Len(code) \in Nat /\ code \in Seq(Block) /\ cur \in 1..Len(code)
      /\ SamePlaces(open, Taken) /\ Taken \in Seq(Frame) /\ Taken # <<>>
  BY <1>2, OpenFactsN, StartN
<1>4. PICK n1, h, nb, is, new, g, f, d :
        /\ n1 = Len(code) + 1 /\ h = cur /\ nb = NewBlock(n1, <<>>) /\ is = <<>> /\ new = <<nb>>
        /\ g = NewFrame("lambda", TRUE, h, 0) /\ f = [g EXCEPT !.within = <<>>] /\ d = code'
  OBVIOUS
<1>5. d = Append(code, nb) /\ cur' = n1 /\ open' = Append(Taken, f)
  BY <1>4 DEF OpenLambda
<1>6. n1 \in Nat /\ h \in Nat /\ nb \in Block /\ nb.is = <<>> /\ nb.fn = n1 /\ nb.within = <<>>
      /\ new \in Seq(Block) /\ Len(new) = 1 /\ new[1] = nb
  <2>1. n1 \in Nat /\ h \in Nat
    BY <1>3, <1>4
  <2>2. <<>> \in Seq(Instr) /\ <<>> \in Seq(Nat)
    BY EmptyType
  <2>3. nb \in Block /\ nb.is = <<>> /\ nb.fn = n1 /\ nb.within = <<>>
    BY <1>4, <2>1, <2>2 DEF NewBlock, Block
  <2>4. new \in Seq(Block) /\ Len(new) = 1 /\ new[1] = nb
    BY <1>4, <2>3
  <2> QED BY <2>1, <2>3, <2>4
<1>7. /\ g \in Frame /\ g.kind = "lambda" /\ g.next = h
  <2>1. PICK kind \in Kinds : kind = "lambda"
    BY DEF Kinds
  <2>2. PICK scoped \in BOOLEAN : scoped = TRUE
    OBVIOUS
  <2>3. PICK zero \in Nat : zero = 0
    OBVIOUS
  <2>4. g = NewFrame(kind, scoped, h, zero)
    BY <1>4, <2>1, <2>2, <2>3
  <2>5. g \in Frame /\ g.kind = kind /\ g.next = h
    BY <1>3, <1>6, <2>4, FrameHere
  <2> QED BY <2>1, <2>5
<1>8. f \in Frame /\ f.kind = "lambda" /\ f.next = h /\ f.within = <<>>
  <2>1. <<>> \in Seq(Nat)
    BY EmptyType
  <2> QED BY <1>4, <1>7, <2>1 DEF Frame
<1>9. Grown(code, d, cur, is, new)
  <2>1. Grown(code, code, cur, is, <<>>)
    BY <1>3, <1>4, NothingGrows
  <2>2. Grown(code, code \o new, cur, is, new)
    BY <1>6, <2>1, AppendGrows
  <2>3. code \o new = Append(code, nb)
    BY <1>3, <1>4, <1>6
  <2> QED BY <1>5, <2>2, <2>3
<1>10. Len(d) = n1 /\ d[n1] = nb
  BY <1>3, <1>4, <1>5, <1>6, StackPush
<1>11. n1 \in 1..Len(d)
  BY <1>3, <1>4, <1>10
<1>12. GrowsNested(d, is, new)
  <2>1. SeqNests(is, d, Top.within)
    BY <1>4, CalmEmpty, CalmNests
  <2>2. PlaceOK(nb, n1, d)
    BY <1>6, <1>11 DEF PlaceOK
  <2>3. SeqNests(nb.is, d, nb.within)
    BY <1>6, CalmEmpty, CalmNests
  <2>4. \A a \in 1..Len(new) : a = 1
    BY <1>6
  <2>5. \A a \in 1..Len(new) : /\ PlaceOK(new[a], Len(code) + a, d)
                               /\ SeqNests(new[a].is, d, new[a].within)
    BY <1>4, <1>6, <2>2, <2>3, <2>4
  <2> QED BY <1>9, <2>1, <2>5 DEF GrowsNested
<1>13. FitsNest(f, Top, d)
  <2>1. Mine(f) = {}
    BY <1>8 DEF Mine
  <2>2. At(code, h, Top.within)
    BY <1>3, <1>4 DEF NInv
  <2>3. At(d, h, Top.within)
    BY <1>9, <2>2, AtGrows
  <2> QED BY <1>8, <2>1, <2>3 DEF FitsNest
<1>14. At(d, cur', f.within) /\ d = code'
  BY <1>4, <1>5, <1>6, <1>8, <1>10, <1>11 DEF At
<1> QED BY <1>1, <1>3, <1>5, <1>8, <1>12, <1>13, <1>14, OpenN

LEMMA OneTwoOneN ==
  ASSUME NInv, open # <<>>, NEW B \in Block, NEW C \in Block, NEW new, new = Four(B, C)
  PROVE  /\ new \in Seq(Block) /\ Len(new) = 4
         /\ new[1] = B /\ new[2] = BlockHere /\ new[3] = BlockHere /\ new[4] = C
<1>1. PICK s, t : s = <<B>> \o NB(2) /\ t = <<C>>
  OBVIOUS
<1>2. s \in Seq(Block) /\ Len(s) = 3 /\ s[1] = B /\ s[2] = BlockHere /\ s[3] = BlockHere
  BY <1>1, OneAndTwoN
<1>3. t \in Seq(Block) /\ Len(t) = 1 /\ t[1] = C
  BY <1>1
<1>4. /\ s \o t \in Seq(Block) /\ Len(s \o t) = 4
      /\ (s \o t)[1] = s[1] /\ (s \o t)[2] = s[2] /\ (s \o t)[3] = s[3] /\ (s \o t)[4] = t[1]
  BY <1>2, <1>3, ThreeAndOne
<1>5. new = s \o t
  BY <1>1 DEF Four
<1> QED BY <1>2, <1>3, <1>4, <1>5

LEMMA EmitsFour ==
  ASSUME NInv, open # <<>>, NEW is \in Seq(Instr), NEW B \in Block, NEW C \in Block,
         NEW new, new = Four(B, C), NEW d, d = Emit(is) \o <<B>> \o NB(2) \o <<C>>
  PROVE  Emits(is, new, d)
<1>1. PICK e, s, t, u, v : /\ e = Emit(is) /\ s = <<B>> /\ t = NB(2) /\ u = <<C>> /\ v = s \o t
  OBVIOUS
<1>2. e \in Seq(Block)
  BY <1>1, StartN, EmitType
<1>3. s \in Seq(Block) /\ u \in Seq(Block)
  BY <1>1, OneType
<1>4. t \in Seq(Block)
  <2>1. 2 \in Nat
    OBVIOUS
  <2> QED BY <1>1, <2>1, BlocksHere
<1>5. v \in Seq(Block)
  BY <1>1, <1>3, <1>4, ConcatType
<1>6. (e \o s) \o t = e \o (s \o t)
  BY <1>2, <1>3, <1>4, ThreeInARow, SMTT(30)
<1>7. (e \o v) \o u = e \o (v \o u)
  BY <1>2, <1>3, <1>5, ThreeInARow, SMTT(30)
<1>8. d = ((e \o s) \o t) \o u
  BY <1>1
<1>9. d = e \o (v \o u)
  BY <1>1, <1>6, <1>7, <1>8
<1>10. new = v \o u
  BY <1>1 DEF Four
<1> QED BY <1>1, <1>9, <1>10 DEF Emits

(* Two bodies begin, one in the other. *)
LEMMA OpenTwoN ==
  ASSUME NInv, open # <<>>, IInv', NEW d, d = code', NEW is, NEW new, GrowsNested(d, is, new),
         NEW q, SamePlaces(open, q), q \in Seq(Frame), q # <<>>,
         NEW f \in Frame, NEW g \in Frame, open' = Append(Append(q, f), g),
         FitsNest(f, Top, d), FitsNest(g, f, d), At(d, cur', g.within)
  PROVE  NInv'
<1>1. PathsOK(d) /\ NestOK(open, d)
  BY PathsNested
<1>2. NestOK(q, d)
  BY <1>1, NestSame
<1>3. FitsNest(f, q[Len(q)], d)
  <2>1. Len(q) = Len(open) /\ Len(open) \in 1..Len(open) /\ Top = open[Len(open)]
    BY StartN DEF SamePlaces, SameFrames
  <2>2. Alike(q[Len(q)], Top) /\ q[Len(q)].within = Top.within
    BY <2>1 DEF SamePlaces, SameFrames
  <2>3. BreakIn(q[Len(q)]) = BreakIn(Top) /\ ContinueIn(q[Len(q)]) = ContinueIn(Top)
    BY <2>2 DEF Alike, BreakIn, ContinueIn
  <2> QED BY <2>2, <2>3 DEF FitsNest
<1>4. PICK r, p : r = Append(q, f) /\ p = Append(r, g)
  OBVIOUS
<1>5. NestOK(r, d)
  BY <1>2, <1>3, <1>4, NestPush
<1>6. r \in Seq(Frame) /\ r # <<>> /\ r[Len(r)] = f
  BY <1>4
<1>7. NestOK(p, d)
  <2>1. FitsNest(g, r[Len(r)], d)
    BY <1>6
  <2> QED BY <1>4, <1>5, <1>6, <2>1, NestPush
<1>8. p[Len(p)] = g /\ p # <<>>
  BY <1>4, <1>6
<1>9. NestOK(open', code') /\ PathsOK(code') /\ At(code', cur', open'[Len(open')].within)
  BY <1>1, <1>4, <1>7, <1>8
<1> QED BY <1>9 DEF NInv, Top

(* generateFor, generateForEach. *)
LEMMA ForN ==
  ASSUME NInv, CanOpen, IInv', NEW init \in BOOLEAN, NEW scoped \in BOOLEAN,
         ForLoop(init, scoped)
  PROVE  NInv'
<1>1. /\ open # <<>> /\ Len(code) \in Nat /\ Place \in Nat
      /\ SamePlaces(open, Taken) /\ Taken \in Seq(Frame) /\ Taken # <<>>
  BY OpenFactsN
<1>2. /\ cleanups \in Seq(Entry) /\ Len(cleanups) \in Nat /\ TypeOK
  <2>1. TypeOK
    BY <1>1, StartN
  <2> QED BY <2>1 DEF TypeOK
<1>3. PICK n, n1, n2, n3, n4, e, declared, inner, entry :
        /\ n = Len(code) /\ n1 = n + 1 /\ n2 = n + 2 /\ n3 = n + 3 /\ n4 = n + 4
        /\ e = [obj |-> Place, moved |-> FALSE]
        /\ declared = (IF init THEN <<e>> ELSE <<>>)
        /\ inner = [objs |-> Len(cleanups) + Len(declared), defs |-> Len(defers)]
        /\ entry = (IF init THEN <<Op("new", Place)>> ELSE <<>>)
  OBVIOUS
<1>4. n \in Nat /\ n1 \in Nat /\ n2 \in Nat /\ n3 \in Nat /\ n4 \in Nat
  BY <1>1, <1>3
<1>5. PICK y, is, z, w, B, C, new, d, f, h, g :
        /\ y = <<Br(n1)>> /\ is = entry \o y
        /\ z = Branch("condbr", 0, n2, n3) /\ w = <<z>>
        /\ B = [BlockHere EXCEPT !.is = w] /\ C = [BlockHere EXCEPT !.is = y]
        /\ new = Four(B, C) /\ d = code'
        /\ f = NewFrame("forscope", TRUE, 0, 0)
        /\ h = NewFrame("loop", scoped, n4, n3) /\ g = [h EXCEPT !.objs = inner.objs]
  OBVIOUS
<1>6. /\ d = Emit(is) \o <<B>> \o NB(2) \o <<C>>
      /\ cur' = n2 /\ open' = Taken \o <<f, g>>
  BY <1>3, <1>5 DEF ForLoop
<1>7. y \in Seq(Instr) /\ w \in Seq(Instr)
  <2>1. "condbr" \in Ops /\ 0 \in Nat
    BY DEF Ops, Terminators
  <2> QED BY <1>4, <1>5, <2>1, BranchType, BrType
<1>8. entry \in Seq(Instr) /\ Calm(entry)
  <2>1. CASE ~init
    BY <1>3, <2>1, EmptyType, CalmEmpty
  <2>2. CASE init
    <3>1. "new" \in Ops /\ "new" \notin Terminators \cup {"tryleave"}
      BY DEF Ops, Terminators
    <3>2. entry = <<Op("new", Place)>>
      BY <1>3, <2>2
    <3> QED BY <1>1, <3>1, <3>2, OpType, CalmOne
  <2> QED BY <2>1, <2>2
<1>9. is \in Seq(Instr)
  BY <1>5, <1>7, <1>8, ConcatType
<1>10. /\ BlockHere \in Block /\ BlockHere.fn = Here.fn /\ BlockHere.within = Top.within
       /\ BlockHere.is = <<>>
  BY <1>1, BlocksHere
<1>11. /\ B \in Block /\ B.fn = Here.fn /\ B.is = w /\ B.within = Top.within
       /\ C \in Block /\ C.fn = Here.fn /\ C.is = y /\ C.within = Top.within
  BY <1>5, <1>7, <1>10 DEF Block
<1>12. /\ new \in Seq(Block) /\ Len(new) = 4
       /\ new[1] = B /\ new[2] = BlockHere /\ new[3] = BlockHere /\ new[4] = C
  BY <1>1, <1>5, <1>11, OneTwoOneN
<1>13. Emits(is, new, d)
  BY <1>1, <1>5, <1>6, <1>9, <1>11, EmitsFour
<1>14. /\ At(d, n1, Top.within) /\ At(d, n2, Top.within)
       /\ At(d, n3, Top.within) /\ At(d, n4, Top.within)
  <2>1. \A a \in 1..Len(new) : At(d, Len(code) + a, new[a].within)
    BY <1>1, <1>9, <1>12, <1>13, NewAt
  <2>2. 1 \in 1..Len(new) /\ 2 \in 1..Len(new) /\ 3 \in 1..Len(new) /\ 4 \in 1..Len(new)
    BY <1>12
  <2> QED BY <1>3, <1>10, <1>11, <1>12, <2>1, <2>2
<1>15. SeqNests(y, d, Top.within) /\ SeqNests(w, d, Top.within)
  BY <1>5, <1>14, BrNests, CondNests
<1>16. SeqNests(is, d, Top.within)
  <2>1. PICK t : t = Top.within
    OBVIOUS
  <2>2. SeqNests(entry, d, t)
    BY <1>8, CalmNests
  <2>3. SeqNests(y, d, t)
    BY <1>15, <2>1
  <2>4. SeqNests(entry \o y, d, t)
    BY <1>7, <1>8, <2>2, <2>3, SeqNestsConcat
  <2> QED BY <1>5, <2>1, <2>4
<1>17. \A a \in 1..Len(new) : Fresh(new[a], d)
  <2>1. SeqNests(<<>>, d, Top.within)
    BY CalmEmpty, CalmNests
  <2>2. Fresh(B, d) /\ Fresh(BlockHere, d) /\ Fresh(C, d)
    BY <1>10, <1>11, <1>15, <2>1 DEF Fresh
  <2>3. \A a \in 1..Len(new) : a = 1 \/ a = 2 \/ a = 3 \/ a = 4
    BY <1>12
  <2> QED BY <1>12, <2>2, <2>3
<1>18. GrowsNested(d, is, new)
  BY <1>1, <1>9, <1>12, <1>13, <1>16, <1>17, FreshGrows
<1>19. /\ f \in Frame /\ f.kind = "forscope" /\ f.within = Top.within
       /\ f.brk = breakTarget /\ f.cont = continueTarget
  <2>1. PICK kind \in Kinds : kind = "forscope"
    BY DEF Kinds
  <2>2. PICK sc \in BOOLEAN : sc = TRUE
    OBVIOUS
  <2>3. PICK zero \in Nat : zero = 0
    OBVIOUS
  <2>4. f = NewFrame(kind, sc, zero, zero)
    BY <1>5, <2>1, <2>2, <2>3
  <2>5. /\ f \in Frame /\ f.kind = kind /\ f.within = Top.within
        /\ f.brk = breakTarget /\ f.cont = continueTarget
    BY <1>1, <2>4, FrameHere
  <2> QED BY <2>1, <2>5
<1>20. h \in Frame /\ h.kind = "loop" /\ h.next = n4 /\ h.alt = n3 /\ h.within = Top.within
  <2>1. PICK kind \in Kinds : kind = "loop"
    BY DEF Kinds
  <2>2. h = NewFrame(kind, scoped, n4, n3)
    BY <1>5, <2>1
  <2>3. h \in Frame /\ h.kind = kind /\ h.next = n4 /\ h.alt = n3 /\ h.within = Top.within
    BY <1>1, <1>4, <2>2, FrameHere
  <2> QED BY <2>1, <2>3
<1>21. inner.objs \in Nat
  <2>1. e \in Entry
    BY <1>1, <1>3 DEF Entry
  <2>2. Len(declared) \in {0, 1}
    BY <1>3, <2>1
  <2> QED BY <1>2, <1>3, <2>2
<1>22. g \in Frame /\ g.kind = "loop" /\ g.next = n4 /\ g.alt = n3 /\ g.within = Top.within
  BY <1>5, <1>20, <1>21 DEF Frame
<1>23. FitsNest(f, Top, d)
  <2>1. Mine(f) = {}
    BY <1>19 DEF Mine
  <2>2. f.kind \notin {"function", "lambda", "try"}
    BY <1>19
  <2> QED BY <1>1, <1>19, <2>1, <2>2, FitsHere
<1>24. FitsNest(g, f, d)
  <2>1. Mine(g) = {n4, n3} /\ Base(g) = Top.within
    BY <1>22 DEF Mine, Base
  <2> QED BY <1>14, <1>19, <1>22, <2>1 DEF FitsNest
<1>25. open' = Append(Append(Taken, f), g)
  <2>1. Taken \o <<f, g>> = Append(Append(Taken, f), g)
    BY <1>1, <1>19, <1>22
  <2> QED BY <1>6, <2>1
<1>26. At(d, cur', g.within) /\ d = code'
  BY <1>5, <1>6, <1>14, <1>22
<1> QED BY <1>1, <1>18, <1>19, <1>22, <1>23, <1>24, <1>25, <1>26, OpenTwoN

LEMMA OpenForN == NInv /\ (OpenFor \/ OpenForEach) => NInv'
<1> SUFFICES ASSUME NInv, OpenFor \/ OpenForEach PROVE NInv'
  OBVIOUS
<1>1. IInv' /\ CanOpen
  BY OpenForIInv DEF NInv, OpenFor, OpenForEach
<1>2. PICK init \in BOOLEAN, scoped \in BOOLEAN : ForLoop(init, scoped)
  <2>1. CASE OpenFor
    BY <2>1 DEF OpenFor, BodyScoping
  <2>2. CASE OpenForEach
    BY <2>2 DEF OpenForEach, BodyScoping
  <2> QED BY <2>1, <2>2
<1> QED BY <1>1, <1>2, ForN

-----------------------------------------------------------------------------
(* The generator keeps the invariant. *)

LEMMA InitN == GenInit => NInv
<1> SUFFICES ASSUME GenInit PROVE NInv
  OBVIOUS
<1>1. IInv
  BY InitIInv
<1>2. PICK o, c, e, f : o = open /\ c = code /\ e = NewBlock(1, <<>>) /\ f = FunctionFrame
  OBVIOUS
<1>3. c = <<e>> /\ cur = 1 /\ o = <<f>>
  BY <1>2 DEF GenInit
<1>4. e.is = <<>> /\ e.fn = 1 /\ e.within = <<>>
  BY <1>2 DEF NewBlock
<1>5. f.kind = "function" /\ f.within = <<>> /\ Mine(f) = {}
  BY <1>2 DEF FunctionFrame, Mine
<1>6. Len(o) = 1 /\ o[1] = f /\ o # <<>> /\ Len(c) = 1 /\ c[1] = e
  BY <1>3
<1>7. NestOK(o, c)
  BY <1>5, <1>6 DEF NestOK
<1>8. PathsOK(c)
  <2>1. PlaceOK(e, 1, c)
    BY <1>4, <1>6 DEF PlaceOK
  <2>2. SeqNests(e.is, c, e.within)
    BY <1>4, CalmEmpty, CalmNests
  <2>3. \A b \in 1..Len(c) : b = 1
    BY <1>6
  <2> QED BY <1>6, <2>1, <2>2, <2>3 DEF PathsOK
<1>9. At(c, cur, o[Len(o)].within)
  BY <1>3, <1>4, <1>5, <1>6 DEF At
<1> QED BY <1>1, <1>2, <1>7, <1>8, <1>9 DEF NInv, Top

LEMMA StepN ==
  ASSUME ~Uses("JumpPast"), ~Uses("ReturnPast"), ~Uses("LambdaPast"), NInv, [Generate]_genVars
  PROVE  NInv'
<1>1. CASE Simple
  BY <1>1, SimpleNInv
<1>2. CASE Opening
  <2>1. CASE OpenBlock
    BY <2>1, OpenBlockN
  <2>2. CASE OpenIf
    BY <2>2, OpenIfN
  <2>3. CASE OpenElse
    BY <2>3, OpenElseN
  <2>4. CASE OpenWhile
    BY <2>4, OpenLoopN DEF OpenWhile
  <2>5. CASE OpenDoWhile
    BY <2>5, OpenLoopN DEF OpenDoWhile
  <2>6. CASE OpenFor \/ OpenForEach
    BY <2>6, OpenForN
  <2>7. CASE OpenSwitch
    BY <2>7, OpenSwitchN
  <2>8. CASE OpenTry
    BY <2>8, OpenTryN
  <2>9. CASE OpenCatch
    BY <2>9, OpenCatchN
  <2>10. CASE OpenLambda
    BY <2>10, OpenLambdaN
  <2> QED BY <1>2, <2>1, <2>2, <2>3, <2>4, <2>5, <2>6, <2>7, <2>8, <2>9, <2>10 DEF Opening
<1>3. CASE Closing
  BY <1>3, CloseBlockN, CloseBranchN, CloseLoopN, CloseCaseN, CloseTryBodyN, CloseCatchN,
     CloseCatchesN, CloseFinallyN, CloseLambdaN, CloseFunctionN DEF Closing
<1>4. CASE UNCHANGED genVars
  <2>1. IInv'
    BY <1>4, NextIInv DEF NInv
  <2>2. PICK o, c, b, w : o = open /\ c = code /\ b = cur /\ w = Top.within
    OBVIOUS
  <2>3. open' = o /\ code' = c /\ cur' = b /\ Top' = Top
    BY <1>4, <2>2 DEF genVars, Top
  <2>4. NestOK(o, c) /\ PathsOK(c) /\ (o # <<>> => At(c, b, Top.within))
    BY <2>2 DEF NInv
  <2> QED BY <2>1, <2>3, <2>4 DEF NInv
<1> QED BY <1>1, <1>2, <1>3, <1>4 DEF Generate

-----------------------------------------------------------------------------
(* The run: each instruction leaves control where the handlers are right.  *)

(* Code that has been accepted. *)
Sound(c) ==
  /\ c \in Seq(Block)
  /\ PathsOK(c)
  /\ \A b \in 1..Len(c) : WellFormed(c, b)

(* Before an instruction: its block, and what is known of both. *)
LEMMA StandingFacts ==
  ASSUME NEW c, Sound(c), NEW a, NEW h, Standing(c, a, h),
         NEW b, NEW i, b = a[1], i = a[2], NEW s, s = c[b].is, NEW w, w = c[b].within,
         NEW x, x = s[i]
  PROVE  /\ b \in 1..Len(c) /\ i \in Nat /\ i >= 1 /\ i \in 1..Len(s)
         /\ s \in Seq(Instr) /\ Len(s) \in Nat /\ w \in Seq(Nat)
         /\ x.op \in Terminators <=> i = Len(s)
         /\ h = (IF AfterLeave(s, i) THEN Front(w) ELSE w)
         /\ x.op # "br" => h = w
         /\ x.op = "tryleave" => i < Len(s) /\ w # <<>>
         /\ x.op = "br" => x.no = x.yes /\ At(c, x.yes, h)
         /\ x.op \in {"condbr", "switch", "match"} => \A t \in Targets(x) : At(c, t, w)
         /\ x.op = "try" => At(c, x.yes, Append(w, x.no))
         /\ x.op = "ret" => w = <<>>
         /\ w # <<>> => At(c, w[Len(w)], Front(w))
<1>1. /\ a \in (1..Len(c)) \X Nat /\ i \in 1..Len(s)
      /\ h = (IF AfterLeave(s, i) THEN Front(w) ELSE w)
  BY DEF Standing, Installed
<1>2. b \in 1..Len(c) /\ i \in Nat /\ i >= 1
  <2>1. b \in 1..Len(c) /\ i \in Nat
    BY <1>1
  <2>2. Len(s) \in Nat
    <3>1. c[b] \in Block
      BY <2>1 DEF Sound
    <3> QED BY <3>1 DEF Block
  <2> QED BY <1>1, <2>1, <2>2
<1>3. s \in Seq(Instr) /\ Len(s) \in Nat /\ w \in Seq(Nat)
  <2>1. c[b] \in Block
    BY <1>2 DEF Sound
  <2> QED BY <2>1 DEF Block
<1>4. x.op \in Terminators <=> i = Len(s)
  <2>1. WellFormed(c, b)
    BY <1>2 DEF Sound
  <2> QED BY <1>1, <2>1 DEF WellFormed
<1>5. PlaceOK(c[b], b, c) /\ SeqNests(s, c, w)
  BY <1>2 DEF Sound, PathsOK
<1>6. /\ x.op = "tryleave" => i < Len(s) /\ s[i + 1].op = "br" /\ w # <<>>
      /\ x.op = "br" => x.no = x.yes /\ At(c, x.yes, IF AfterLeave(s, i) THEN Front(w) ELSE w)
      /\ x.op \in {"condbr", "switch", "match"} => \A t \in Targets(x) : At(c, t, w)
      /\ x.op = "try" => At(c, x.yes, Append(w, x.no))
      /\ x.op = "ret" => w = <<>>
  BY <1>1, <1>5 DEF SeqNests
<1>7. x.op # "br" => ~AfterLeave(s, i)
  <2> SUFFICES ASSUME AfterLeave(s, i) PROVE x.op = "br"
    OBVIOUS
  <2>1. i > 1 /\ s[i - 1].op = "tryleave"
    BY DEF AfterLeave
  <2>2. PICK j : j = i - 1
    OBVIOUS
  <2>3. j \in 1..Len(s) /\ j + 1 = i /\ s[j].op = "tryleave"
    BY <1>1, <1>2, <1>3, <2>1, <2>2
  <2>4. s[j].op = "tryleave" => s[j + 1].op = "br"
    BY <1>5, <2>3 DEF SeqNests
  <2> QED BY <2>3, <2>4
<1>8. w # <<>> => At(c, w[Len(w)], Front(w))
  BY <1>5 DEF PlaceOK
<1> QED BY <1>1, <1>2, <1>3, <1>4, <1>6, <1>7, <1>8

(* A block is entered. *)
LEMMA AtBlock ==
  ASSUME NEW c, Sound(c), NEW b, NEW h, At(c, b, h)
  PROVE  Standing(c, <<b, 1>>, h)
<1>1. b \in 1..Len(c) /\ c[b].within = h
  BY DEF At
<1>2. PICK s : s = c[b].is
  OBVIOUS
<1>3. s \in Seq(Instr) /\ s # <<>>
  <2>1. c[b] \in Block /\ WellFormed(c, b)
    BY <1>1 DEF Sound
  <2> QED BY <1>2, <2>1 DEF Block, WellFormed
<1>4. 1 \in 1..Len(s)
  BY <1>3
<1>5. ~AfterLeave(s, 1)
  BY DEF AfterLeave
<1>6. Installed(c[b], 1) = h
  BY <1>1, <1>2, <1>5 DEF Installed
<1> QED BY <1>1, <1>2, <1>4, <1>6 DEF Standing

(* An instruction that leaves control where it is. *)
LEMMA NextPlace ==
  ASSUME NEW c, Sound(c), NEW a, NEW h, Standing(c, a, h),
         NEW b, NEW i, b = a[1], i = a[2], NEW x, x = c[b].is[i], x.op \notin Terminators
  PROVE  /\ h = c[b].within
         /\ x.op # "tryleave" => Standing(c, <<b, i + 1>>, h)
         /\ x.op = "tryleave" => h # <<>> /\ Standing(c, <<b, i + 1>>, Front(h))
<1>1. PICK s, w : s = c[b].is /\ w = c[b].within
  OBVIOUS
<1>2. /\ b \in 1..Len(c) /\ i \in Nat /\ i >= 1 /\ i \in 1..Len(s)
      /\ Len(s) \in Nat /\ (x.op \in Terminators <=> i = Len(s))
      /\ (x.op # "br" => h = w) /\ (x.op = "tryleave" => w # <<>>)
  BY <1>1, StandingFacts, SMTT(30)
<1>3. x.op # "br"
  BY DEF Terminators
<1>4. i + 1 \in 1..Len(s) /\ i + 1 \in Nat
  BY <1>2
<1>5. AfterLeave(s, i + 1) <=> x.op = "tryleave"
  <2>1. i + 1 > 1 /\ (i + 1) - 1 = i
    BY <1>2
  <2> QED BY <1>1, <2>1 DEF AfterLeave
<1>6. Installed(c[b], i + 1) = IF x.op = "tryleave" THEN Front(w) ELSE w
  BY <1>1, <1>5 DEF Installed
<1>7. \A g : g = Installed(c[b], i + 1) => Standing(c, <<b, i + 1>>, g)
  BY <1>1, <1>2, <1>4 DEF Standing
<1> QED BY <1>1, <1>2, <1>3, <1>6, <1>7

LEMMA RunningFacts ==
  ASSUME RInv, phase = "running"
  PROVE  Sound(code) /\ Standing(code, at, handlers)
<1>1. Verified /\ Standing(code, at, handlers) /\ NInv
  BY DEF RInv
<1>2. code \in Seq(Block) /\ PathsOK(code)
  BY <1>1 DEF NInv, IInv, TypeOK
<1> QED BY <1>1, <1>2 DEF Verified, Sound

(* A step of the run: the code stays. *)
LEMMA RunStep ==
  ASSUME RInv, phase = "running", UNCHANGED genVars, phase' # "generating",
         phase' = "running" => Standing(code, at', handlers'),
         phase' = "done" => handlers' = <<>>,
         ~Uses("JumpPast"), ~Uses("ReturnPast"), ~Uses("LambdaPast")
  PROVE  RInv'
<1>1. NInv /\ Verified
  BY DEF RInv
<1>2. NInv'
  BY <1>1, StepN
<1>3. code' = code
  BY DEF genVars
<1>4. Verified'
  BY <1>1, <1>3 DEF Verified
<1>5. phase' = "running" => Standing(code', at', handlers')
  BY <1>3
<1> QED BY <1>2, <1>4, <1>5 DEF RInv

(* An instruction that ends no block and touches no handler. *)
LEMMA PassBy ==
  ASSUME RInv, UNCHANGED genVars, NEW ops, Executing(ops),
         \A op \in ops : op \notin Terminators \cup {"tryleave"},
         handlers' = handlers, phase' = "fault" \/ (phase' = phase /\ NextInstr),
         ~Uses("JumpPast"), ~Uses("ReturnPast"), ~Uses("LambdaPast")
  PROVE  RInv'
<1>1. phase = "running" /\ Current.op \notin Terminators \cup {"tryleave"}
  BY DEF Executing
<1>2. Sound(code) /\ Standing(code, at, handlers)
  BY <1>1, RunningFacts
<1>3. PICK b, i, x, c, h : b = at[1] /\ i = at[2] /\ x = Current /\ c = code /\ h = handlers
  OBVIOUS
<1>4. x = c[b].is[i] /\ x.op \notin Terminators /\ x.op # "tryleave"
  BY <1>1, <1>3 DEF Current
<1>5. Sound(c) /\ Standing(c, at, h)
  BY <1>2, <1>3
<1>6. Standing(c, <<b, i + 1>>, h)
  BY <1>3, <1>4, <1>5, NextPlace
<1>7. phase' = "running" => Standing(code, at', handlers')
  <2> SUFFICES ASSUME phase' = "running" PROVE Standing(code, at', handlers')
    OBVIOUS
  <2>1. at' = <<b, i + 1>>
    BY <1>3 DEF NextInstr
  <2> QED BY <1>3, <1>6, <2>1
<1>8. phase' # "generating" /\ phase' # "done"
  BY <1>1
<1> QED BY <1>1, <1>7, <1>8, RunStep

(* A jump to a block where the handlers are right. *)
LEMMA GoTo ==
  ASSUME RInv, phase = "running", UNCHANGED genVars, phase' = phase,
         NEW b, Goto(b), NEW h, h = handlers', At(code, b, h),
         ~Uses("JumpPast"), ~Uses("ReturnPast"), ~Uses("LambdaPast")
  PROVE  RInv'
<1>1. Sound(code)
  BY RunningFacts
<1>2. at' = <<b, 1>>
  BY DEF Goto
<1>3. Standing(code, <<b, 1>>, h)
  BY <1>1, AtBlock
<1>4. Standing(code, at', handlers')
  BY <1>2, <1>3
<1>5. phase' # "generating" /\ phase' # "done"
  OBVIOUS
<1> QED BY <1>4, <1>5, RunStep

(* Before the current instruction. *)
LEMMA CurrentFacts ==
  ASSUME RInv, phase = "running",
         NEW x, x = Current, NEW c, c = code, NEW h, h = handlers
  PROVE  /\ x.op = "br" => \A t \in Targets(x) : At(c, t, h)
         /\ x.op \in {"condbr", "switch", "match"} => \A t \in Targets(x) : At(c, t, h)
         /\ x.op = "try" => At(c, x.yes, Append(h, x.no))
         /\ x.op = "ret" => h = <<>>
         /\ x.op # "br" /\ h # <<>> => At(c, h[Len(h)], Front(h))
         /\ x.op # "br" => h = c[at[1]].within
<1>1. Sound(c) /\ Standing(c, at, h)
  BY RunningFacts
<1>2. PICK b, i, s, w : b = at[1] /\ i = at[2] /\ s = c[b].is /\ w = c[b].within
  OBVIOUS
<1>3. x = s[i]
  BY <1>2 DEF Current
<1>4. (x.op # "br" => h = w) /\ (x.op = "br" => x.no = x.yes /\ At(c, x.yes, h))
  BY <1>1, <1>2, <1>3, StandingFacts
<1>5. x.op \in {"condbr", "switch", "match"} => \A t \in Targets(x) : At(c, t, w)
  <2>1. b \in 1..Len(c) /\ i \in 1..Len(s)
    BY <1>1, <1>2, <1>3, StandingFacts
  <2>2. SeqNests(s, c, w)
    BY <1>1, <1>2, <2>1 DEF Sound, PathsOK
  <2> QED BY <1>3, <2>1, <2>2 DEF SeqNests
<1>6. (x.op = "try" => At(c, x.yes, Append(w, x.no))) /\ (x.op = "ret" => w = <<>>)
  BY <1>1, <1>2, <1>3, StandingFacts, SMTT(30)
<1>7. w # <<>> => At(c, w[Len(w)], Front(w))
  BY <1>1, <1>2, <1>3, StandingFacts
<1>8. x.op = "br" => Targets(x) = {x.yes, x.no}
  BY DEF Targets, Terminators
<1> QED BY <1>2, <1>4, <1>5, <1>6, <1>7, <1>8

(* The instructions that touch no handler. *)
LEMMA PassByR ==
  ASSUME RInv, ~Uses("JumpPast"), ~Uses("ReturnPast"), ~Uses("LambdaPast"),
         \/ ExecNew \/ ExecArm \/ ExecDestroy \/ ExecMove \/ ExecRun \/ ExecNop \/ ExecCall
  PROVE  RInv'
<1>1. \A op \in {"new", "arm", "destroy", "move", "run", "nop", "clear", "call"} :
        op \notin Terminators \cup {"tryleave"}
  BY DEF Terminators
<1>2. PICK ops : /\ Executing(ops) /\ UNCHANGED genVars /\ handlers' = handlers
                 /\ phase' = "fault" \/ (phase' = phase /\ NextInstr)
                 /\ ops \subseteq {"new", "arm", "destroy", "move", "run", "nop", "clear", "call"}
  <2>1. CASE ExecNew
    BY <2>1 DEF ExecNew
  <2>2. CASE ExecArm
    BY <2>2 DEF ExecArm
  <2>3. CASE ExecDestroy
    BY <2>3 DEF ExecDestroy, Settle
  <2>4. CASE ExecMove
    BY <2>4 DEF ExecMove, Settle
  <2>5. CASE ExecRun
    BY <2>5 DEF ExecRun, Settle
  <2>6. CASE ExecNop
    BY <2>6 DEF ExecNop
  <2>7. CASE ExecCall
    BY <2>7 DEF ExecCall
  <2> QED BY <2>1, <2>2, <2>3, <2>4, <2>5, <2>6, <2>7
<1>3. \A op \in ops : op \notin Terminators \cup {"tryleave"}
  BY <1>1, <1>2
<1> QED BY <1>2, <1>3, PassBy

(* A branch, or the type test of a catch clause. *)
LEMMA BranchR ==
  ASSUME RInv, ~Uses("JumpPast"), ~Uses("ReturnPast"), ~Uses("LambdaPast"),
         ExecBranch \/ ExecMatch
  PROVE  RInv'
<1>1. PICK b \in Targets(Current) : /\ Goto(b) /\ UNCHANGED genVars /\ phase' = phase
                                    /\ handlers' = handlers /\ phase = "running"
                                    /\ Current.op \in {"br", "condbr", "switch", "match"}
  <2>1. CASE ExecBranch
    BY <2>1 DEF ExecBranch, Executing
  <2>2. CASE ExecMatch
    <3>1. Current.op = "match"
      BY <2>2 DEF ExecMatch, Executing
    <3>2. Targets(Current) = {Current.yes, Current.no}
      BY <3>1 DEF Targets, Terminators
    <3>3. \E b \in {Current.yes, Current.no} : Goto(b)
      BY <2>2 DEF ExecMatch
    <3> QED BY <2>2, <3>1, <3>2, <3>3 DEF ExecMatch, Executing
  <2> QED BY <2>1, <2>2
<1>2. PICK x, c, h : x = Current /\ c = code /\ h = handlers
  OBVIOUS
<1>3. /\ x.op = "br" => \A t \in Targets(x) : At(c, t, h)
      /\ x.op \in {"condbr", "switch", "match"} => \A t \in Targets(x) : At(c, t, h)
  BY <1>1, <1>2, CurrentFacts
<1>4. At(code, b, handlers')
  BY <1>1, <1>2, <1>3
<1> QED BY <1>1, <1>4, GoTo

(* A try statement is entered. *)
LEMMA TryR ==
  ASSUME RInv, ~Uses("JumpPast"), ~Uses("ReturnPast"), ~Uses("LambdaPast"), ExecTry
  PROVE  RInv'
<1>1. /\ Goto(Current.yes) /\ UNCHANGED genVars /\ phase' = phase /\ phase = "running"
      /\ handlers' = Append(handlers, Current.no) /\ Current.op = "try"
  BY DEF ExecTry, Executing, Stack!Enter
<1>2. PICK x, c, h, b : x = Current /\ c = code /\ h = handlers /\ b = Current.yes
  OBVIOUS
<1>3. x.op = "try" => At(c, x.yes, Append(h, x.no))
  BY <1>1, <1>2, CurrentFacts
<1>4. At(code, b, handlers') /\ Goto(b)
  BY <1>1, <1>2, <1>3
<1> QED BY <1>1, <1>4, GoTo

(* A try body ends without an exception. *)
LEMMA TryLeaveR ==
  ASSUME RInv, ~Uses("JumpPast"), ~Uses("ReturnPast"), ~Uses("LambdaPast"), ExecTryLeave
  PROVE  RInv'
<1>1. /\ NextInstr /\ UNCHANGED genVars /\ phase' = phase /\ phase = "running"
      /\ handlers' = (IF handlers = <<>> THEN handlers ELSE Front(handlers))
      /\ Current.op = "tryleave"
  BY DEF ExecTryLeave, Executing, Stack!Leave, Stack!Pop, Front
<1>2. PICK b, i, x, c, h : b = at[1] /\ i = at[2] /\ x = Current /\ c = code /\ h = handlers
  OBVIOUS
<1>3. x = c[b].is[i] /\ x.op \notin Terminators /\ x.op = "tryleave"
  BY <1>1, <1>2 DEF Current, Terminators
<1>4. Sound(c) /\ Standing(c, at, h)
  BY <1>1, <1>2, RunningFacts
<1>5. h # <<>> /\ Standing(c, <<b, i + 1>>, Front(h))
  BY <1>2, <1>3, <1>4, NextPlace
<1>6. Standing(code, at', handlers')
  <2>1. at' = <<b, i + 1>>
    BY <1>1, <1>2 DEF NextInstr
  <2> QED BY <1>1, <1>2, <1>5, <2>1
<1>7. phase' # "generating" /\ phase' # "done"
  BY <1>1
<1> QED BY <1>1, <1>6, <1>7, RunStep

(* An exception goes to the innermost handler. *)
LEMMA ThrowR ==
  ASSUME RInv, ~Uses("JumpPast"), ~Uses("ReturnPast"), ~Uses("LambdaPast"), ExecThrow
  PROVE  RInv'
<1>1. /\ Goto(handlers[Len(handlers)]) /\ UNCHANGED genVars /\ phase' = phase /\ phase = "running"
      /\ handlers # <<>> /\ handlers' = Front(handlers) /\ Current.op # "br"
  BY DEF ExecThrow, Executing, Stack!Raise, Stack!Top, Stack!Pop, Front
<1>2. PICK x, c, h, b : x = Current /\ c = code /\ h = handlers /\ b = h[Len(h)]
  OBVIOUS
<1>3. x.op # "br" /\ h # <<>> => At(c, h[Len(h)], Front(h))
  BY <1>1, <1>2, CurrentFacts
<1>4. At(code, b, handlers') /\ Goto(b)
  BY <1>1, <1>2, <1>3
<1> QED BY <1>1, <1>4, GoTo

(* The run ends. *)
LEMMA EndR ==
  ASSUME RInv, ~Uses("JumpPast"), ~Uses("ReturnPast"), ~Uses("LambdaPast"), ExecUncaught \/ ExecRet
  PROVE  RInv'
<1>1. CASE ExecUncaught
  <2>1. phase = "running" /\ phase' = "aborted" /\ UNCHANGED genVars
    BY <1>1 DEF ExecUncaught, Executing
  <2>2. phase' # "generating" /\ phase' # "done" /\ phase' # "running"
    BY <2>1
  <2> QED BY <2>1, <2>2, RunStep
<1>2. CASE ExecRet
  <2>1. /\ phase = "running" /\ phase' = "done" /\ UNCHANGED genVars
        /\ Current.op = "ret" /\ handlers' = handlers
    BY <1>2 DEF ExecRet, Executing
  <2>2. PICK x, c, h : x = Current /\ c = code /\ h = handlers
    OBVIOUS
  <2>3. x.op = "ret" => h = <<>>
    BY <2>1, <2>2, CurrentFacts
  <2>4. phase' # "generating" /\ phase' # "running" /\ handlers' = <<>>
    BY <2>1, <2>2, <2>3
  <2> QED BY <2>1, <2>4, RunStep
<1> QED BY <1>1, <1>2

(* The code is accepted and starts to run, or is given up. *)
LEMMA VerifyR ==
  ASSUME RInv, ~Uses("JumpPast"), ~Uses("ReturnPast"), ~Uses("LambdaPast"), Verify
  PROVE  RInv'
<1>1. NInv /\ handlers = <<>> /\ handlers' = handlers /\ UNCHANGED genVars /\ code' = code
  BY DEF RInv, Verify, genVars
<1>2. NInv'
  BY <1>1, StepN
<1>3. CASE Verified
  <2>1. PICK b \in 1..Len(code) : code[b].fn = b /\ Goto(b) /\ phase' = "running"
    BY <1>3 DEF Verify
  <2>2. code \in Seq(Block) /\ PathsOK(code)
    BY <1>1 DEF NInv, IInv, TypeOK
  <2>3. Sound(code)
    BY <1>3, <2>2 DEF Sound, Verified
  <2>4. PICK h : h = <<>>
    OBVIOUS
  <2>5. At(code, b, h)
    <3>1. PlaceOK(code[b], b, code)
      BY <2>2 DEF PathsOK
    <3> QED BY <2>1, <2>4, <3>1 DEF PlaceOK, At
  <2>6. Standing(code, <<b, 1>>, h)
    BY <2>3, <2>5, AtBlock
  <2>7. Standing(code', at', handlers')
    BY <1>1, <2>1, <2>4, <2>6 DEF Goto
  <2>8. Verified'
    BY <1>1, <1>3 DEF Verified
  <2> QED BY <1>2, <2>1, <2>7, <2>8 DEF RInv
<1>4. CASE ~Verified
  <2>1. phase' = "rejected"
    BY <1>4 DEF Verify
  <2> QED BY <1>2, <2>1 DEF RInv
<1> QED BY <1>3, <1>4

LEMMA StepR ==
  ASSUME ~Uses("JumpPast"), ~Uses("ReturnPast"), ~Uses("LambdaPast"), RInv, [Next]_vars
  PROVE  RInv'
<1>1. CASE GenStep
  <2>1. NInv' /\ phase' = "generating" /\ handlers' = <<>>
    <3>1. NInv /\ Generate /\ phase = "generating" /\ handlers = <<>>
      BY <1>1 DEF GenStep, RInv
    <3>2. phase' = phase /\ handlers' = handlers
      BY <1>1 DEF GenStep, runVars
    <3> QED BY <3>1, <3>2, StepN
  <2> QED BY <2>1 DEF RInv
<1>2. CASE Verify
  BY <1>2, VerifyR
<1>3. CASE Execute
  BY <1>3, PassByR, BranchR, TryR, TryLeaveR, ThrowR, EndR DEF Execute
<1>4. CASE Halted \/ UNCHANGED vars
  <2>1. UNCHANGED genVars /\ phase' = phase /\ handlers' = handlers /\ at' = at /\ code' = code
    BY <1>4 DEF Halted, vars, genVars, runVars
  <2>2. NInv'
    BY <2>1, StepN DEF RInv
  <2>3. phase = "running" => Verified' /\ Standing(code', at', handlers')
    <3>1. phase = "running" => Verified /\ Standing(code, at, handlers)
      BY DEF RInv
    <3>2. Verified => Verified'
      BY <2>1 DEF Verified
    <3> QED BY <2>1, <3>1, <3>2
  <2>4. /\ phase = "generating" => handlers = <<>>
        /\ phase = "done" => handlers = <<>>
    BY DEF RInv
  <2> QED BY <2>1, <2>2, <2>3, <2>4 DEF RInv
<1> QED BY <1>1, <1>2, <1>3, <1>4 DEF Next

LEMMA MatchesWhereItRuns == RInv => HandlersMatchNesting
<1> SUFFICES ASSUME RInv PROVE HandlersMatchNesting
  OBVIOUS
<1>1. phase = "done" => handlers = <<>>
  BY DEF RInv
<1>2. phase = "running" /\ Current.op # "br" => handlers = code[at[1]].within
  <2> SUFFICES ASSUME phase = "running", Current.op # "br"
               PROVE  handlers = code[at[1]].within
    OBVIOUS
  <2>1. PICK x, c, h : x = Current /\ c = code /\ h = handlers
    OBVIOUS
  <2>2. x.op # "br" => h = c[at[1]].within
    BY <2>1, CurrentFacts
  <2> QED BY <2>1, <2>2
<1> QED BY <1>1, <1>2 DEF HandlersMatchNesting

(* Wherever control is in a program's code, and whichever way it came      *)
(* there - around loops, out of switches, through catch and finally        *)
(* clauses, by exceptions from any depth - the handlers installed are      *)
(* those of the try bodies it is in, and none is left when the function    *)
(* returns.  The text has no break, continue or return out of a try body,  *)
(* after which a handler does stay (generateReturn, the Break and Continue *)
(* cases of generateStmt), and no lambda that reaches out of itself.       *)
THEOREM HandlersFollowTheText ==
  ASSUME ~Uses("JumpPast"), ~Uses("ReturnPast"), ~Uses("LambdaPast")
  PROVE  Spec => []HandlersMatchNesting
<1>1. Init => RInv
  <2> SUFFICES ASSUME Init PROVE RInv
    OBVIOUS
  <2>1. NInv
    BY InitN DEF Init
  <2>2. phase = "generating" /\ handlers = <<>>
    BY DEF Init, Stack!Init
  <2> QED BY <2>1, <2>2 DEF RInv
<1>2. RInv /\ [Next]_vars => RInv'
  BY StepR
<1>3. RInv => HandlersMatchNesting
  BY MatchesWhereItRuns
<1> QED BY <1>1, <1>2, <1>3, PTL DEF Spec
=============================================================================
