---------------------------- MODULE AnalysisProofs ----------------------------
(***************************************************************************)
(* Theorems about Analysis, for programs of any length: the one set of     *)
(* fields that the analyser keeps serves bodies that are analysed in the   *)
(* middle of each other, as long as programs do not take one of the        *)
(* Liberties; and every declaration and instance is analysed once.         *)
(*                                                                         *)
(* The invariant ties the fields to the declarations under analysis: the   *)
(* scopes are those of the bodies in frames, one after the other; the      *)
(* lambdas are at levels of these scopes, in their order; the namespace is *)
(* that of the last body begun, which each body restores at its end.       *)
(***************************************************************************)
EXTENDS Analysis, FiniteSetTheorems, SequenceTheorems, WellFoundedInduction, TLAPS

-----------------------------------------------------------------------------
(* The invariant. *)

(* All instances that types can name; there are six. *)
Instances == {<<a, "int">> : a \in Templates} \cup {<<a, "Box", "int">> : a \in Templates}

Originals == {<<"Base">>, <<"Node">>, <<"Leaf">>, <<"main">>, <<"helper">>}

Declarations == Originals \cup Instances

Namespaces == {"", "N"}

Variable == [name : Vars, kind : {"plain", "const", "squib"}, used : BOOLEAN]

Level == [vars : SUBSET Variable, kind : {"body", "block", "all", "listed"}]

DeclFrame == [decl : Declarations, part : Nat, inside : BOOLEAN, at : Nat,
              env : Seq(Level), saved : Namespaces, base : Nat]

LambdaState == [all : BOOLEAN, depth : Nat, saved : Nat, recorded : SUBSET Vars, needed : SUBSET Vars]

EventSet ==
  [op : {"declare"}, var : Vars, kind : {"plain", "const", "squib"}]
  \cup [op : {"use"}, var : Vars, assigned : BOOLEAN]
  \cup [op : {"lambda"}, all : BOOLEAN, listed : SUBSET Vars]
  \cup [op : {"type"}, name : Templates \cup {"T"}, arg : {"int", "box", "T"}]
  \cup [op : {"this", "block", "close", "end"}]

PartOf(f) == Parts(f.decl)[f.part]

KeyOf(f) == <<Head(f.decl), PartOf(f)>>

(* What has been read of a body. *)
OpsIn(b, f) == {b[KeyOf(f)][k].op : k \in 1..f.at}

(* A declaration has begun when it is past the fields: it has set the      *)
(* namespace and class.                                                    *)
Begun(f) == f.part # 0 /\ PartOf(f) # "fields"

FrameOK(f) ==
  /\ f.part \in 0..Len(Parts(f.decl))
  /\ f.inside => f.part # 0
  /\ ~f.inside => f.env = <<>> /\ f.at = 0
  /\ f.inside /\ ~Begun(f) => f.env = <<>>
  /\ f.inside /\ Begun(f) => f.env # <<>> /\ f.env[1].kind = "body"
  /\ \A j \in 2..Len(f.env) : f.env[j].kind # "body"

Ceiling(f) == f.base + Len(f.env)

(* Only instances are analysed in the middle of others, each on top of the *)
(* scopes of the body it is in.                                            *)
StackOK(F) ==
  /\ F \in Seq(DeclFrame)
  /\ \A k \in 1..Len(F) : FrameOK(F[k])
  /\ F # <<>> => F[1].base = 0
  /\ \A k, l \in 1..Len(F) : k < l => Ceiling(F[k]) <= F[l].base
  /\ \A k, l \in 1..Len(F) : l = k + 1 =>
       F[k].inside /\ F[l].base = Ceiling(F[k]) /\ IsInstance(F[l].decl)

Height(F) == IF F = <<>> THEN 0 ELSE Ceiling(F[Len(F)])

ScopesOK(F, sc) == sc \in Seq(SUBSET Variable) /\ Len(sc) = Height(F)

(* The frames have read what is written, and left off at a type. *)
ReadOK(b, f) == f.inside => f.at <= Len(b[KeyOf(f)])

ReadsOK(b, F) ==
  /\ \A k \in 1..Len(F) : ReadOK(b, F[k])
  /\ \A k \in 1..Len(F) : k < Len(F) => "type" \in OpsIn(b, F[k])

(* The levels of the scopes that belong to lambdas. *)
IsLambda(level) == level.kind \in {"all", "listed"}

LambdaAt(F, p) == \E k \in 1..Len(F) : \E j \in 1..Len(F[k].env) : p = F[k].base + j /\ IsLambda(F[k].env[j])

(* The lambda t is the last of the first n that captures all. *)
Innermost(ls, n, t) ==
  /\ t \in 0..n
  /\ t # 0 => ls[t].all
  /\ \A m \in 1..n : m > t => ~ls[m].all

LambdasOK(F, ls, t) ==
  /\ ls \in Seq(LambdaState)
  /\ \A m \in 1..Len(ls) : LambdaAt(F, ls[m].depth)
  /\ \A p \in 1..Height(F) : LambdaAt(F, p) => \E m \in 1..Len(ls) : ls[m].depth = p
  /\ \A m, n \in 1..Len(ls) : m < n => ls[m].depth < ls[n].depth
  /\ Innermost(ls, Len(ls), t)
  /\ \A m \in 1..Len(ls) : Innermost(ls, m - 1, ls[m].saved)

(* ns is the namespace of the last declaration that has begun, and each    *)
(* of them has saved that of the one before.                               *)
NamesAre(F, g) ==
  /\ g[0] = ""
  /\ \A k \in 1..Len(F) :
       /\ Begun(F[k]) => g[k] = NamespaceOf(F[k].decl) /\ F[k].saved = g[k - 1]
       /\ ~Begun(F[k]) => g[k] = g[k - 1]

NamesOK(F, ns) == \E g \in [0..Len(F) -> Namespaces] : NamesAre(F, g) /\ g[Len(F)] = ns

(* The program: three declarations, followed by their instances. *)
ProgramOK ==
  /\ decls \in Seq(Declarations) /\ Len(decls) >= 3
  /\ \A i \in 1..3 : decls[i] \in Originals
  /\ \A i \in 1..3 : \A j \in 1..3 : decls[i] = decls[j] => i = j
  /\ instantiated = {decls[i] : i \in 4..Len(decls)} /\ instantiated \subseteq Instances
  /\ Len(decls) = 3 + Cardinality(instantiated)
  /\ next \in 1..4
  /\ rejected \subseteq Classes

(* What has been analysed, or is: the declarations before next and all     *)
(* instances, each once.  With room for all instances none is passed over. *)
Roomy == Cardinality(Instances) <= Room

DoneOK ==
  /\ done \in Seq(Declarations)
  /\ \A i, j \in 1..Len(done) : done[i] = done[j] => i = j
  /\ \A i \in 1..Len(done) : done[i] \in instantiated \/ \E j \in 1..(next - 1) : done[i] = decls[j]
  /\ \A d \in instantiated : \E i \in 1..Len(done) : done[i] = d
  /\ Roomy => \A j \in 1..(next - 1) : \E i \in 1..Len(done) : done[i] = decls[j]

(* There is a body for every part of a declaration at hand. *)
TextOK ==
  /\ bodies \in [DOMAIN bodies -> Seq(EventSet)]
  /\ written \in 0..MaxEvents

BodiesOK ==
  \A d \in Declarations : (d \in Instances \/ \E i \in 1..3 : d = decls[i]) =>
    \A p \in 1..Len(Parts(d)) : <<Head(d), Parts(d)[p]>> \in DOMAIN bodies

DeclsKnown(F) == \A k \in 1..Len(F) : F[k].decl \in Instances \/ \E i \in 1..3 : F[k].decl = decls[i]

Shape ==
  /\ ProgramOK /\ DoneOK /\ TextOK /\ BodiesOK
  /\ StackOK(frames) /\ DeclsKnown(frames) /\ ScopesOK(frames, scopes) /\ ReadsOK(bodies, frames)
  /\ LambdasOK(frames, lambdas, tracker)
  /\ NamesOK(frames, currentNs)

(* The scopes hold what the environments of the frames do. *)
Agree(F, sc) == \A k \in 1..Len(F) : \A j \in 1..Len(F[k].env) : sc[F[k].base + j] = F[k].env[j].vars

(* The class at hand is that of the innermost declaration, until a type    *)
(* has been named; among functions alone there is none.                    *)
ClassOK(b, F, c) ==
  /\ (\A k \in 1..Len(F) : ~IsClass(F[k].decl)) => c = none
  /\ \A k \in 1..Len(F) :
       k = Len(F) /\ F[k].inside /\ Begun(F[k]) /\ IsClass(F[k].decl) /\ "type" \notin OpsIn(b, F[k]) =>
         c = F[k].decl

Lexical == Agree(frames, scopes) /\ ClassOK(bodies, frames, currentClass) /\ agreed /\ CapturesExact

IInv == Shape /\ (Liberties = {} => Lexical)

-----------------------------------------------------------------------------
(* Declarations and sequences. *)

LEMMA DeclFacts ==
  ASSUME NEW d \in Declarations
  PROVE  /\ IsInstance(d) <=> d \in Instances
         /\ IsInstance(d) <=> d \notin Originals
         /\ IsClass(d) => /\ Parts(d) = <<"fields", "constructor", "method", "destructor">>
                          /\ Len(Parts(d)) = 4
         /\ ~IsClass(d) => Parts(d) = <<"function">> /\ Len(Parts(d)) = 1
         /\ IsInstance(d) /\ ~IsClass(d) => Head(d) = "make"
         /\ NamespaceOf(d) \in Namespaces /\ IsClass(d) \in BOOLEAN
<1>1. d \in Originals \/ d \in Instances
  BY DEF Declarations
<1>2. CASE d \in Originals
  BY <1>2 DEF Originals, Instances, IsInstance, IsClass, Templates, Classes, Parts, NamespaceOf, Namespaces
<1>3. CASE d \in Instances
  <2>1. PICK a \in Templates : d = <<a, "int">> \/ d = <<a, "Box", "int">>
    BY <1>3 DEF Instances
  <2>2. Head(d) = a
    BY <2>1
  <2>3. Head(d) \in {"Box", "Pair", "make"}
    BY <2>2 DEF Templates
  <2>4. d \notin Originals
    BY <2>3 DEF Originals
  <2> QED BY <1>3, <2>3, <2>4
        DEF IsInstance, IsClass, Templates, Classes, Parts, NamespaceOf, Namespaces
<1> QED BY <1>1, <1>2, <1>3

(* Where a frame is in its declaration. *)
LEMMA PartFacts ==
  ASSUME NEW f \in DeclFrame, FrameOK(f)
  PROVE  /\ f.decl \in Declarations /\ f.part \in 0..4 /\ f.base \in Nat /\ f.at \in Nat
         /\ f.env \in Seq(Level) /\ Len(f.env) \in Nat /\ f.saved \in Namespaces /\ f.inside \in BOOLEAN
         /\ ~IsClass(f.decl) => f.part \in 0..1
         /\ f.part # 0 => /\ f.part \in 1..Len(Parts(f.decl))
                          /\ PartOf(f) = "fields" <=> IsClass(f.decl) /\ f.part = 1
                          /\ PartOf(f) = "constructor" <=> IsClass(f.decl) /\ f.part = 2
                          /\ PartOf(f) = "method" <=> IsClass(f.decl) /\ f.part = 3
                          /\ PartOf(f) = "function" <=> ~IsClass(f.decl)
         /\ Begun(f) <=> (f.part # 0 /\ (IsClass(f.decl) => f.part # 1))
<1>1. /\ f.decl \in Declarations /\ f.part \in Nat /\ f.base \in Nat /\ f.at \in Nat
      /\ f.env \in Seq(Level) /\ f.saved \in Namespaces /\ f.inside \in BOOLEAN
  BY DEF DeclFrame
<1>2. f.part \in 0..Len(Parts(f.decl))
  BY DEF FrameOK
<1>3. CASE IsClass(f.decl)
  <2>1. /\ Parts(f.decl) = <<"fields", "constructor", "method", "destructor">>
        /\ Len(Parts(f.decl)) = 4
    BY <1>1, <1>3, DeclFacts
  <2>2. f.part = 0 \/ f.part = 1 \/ f.part = 2 \/ f.part = 3 \/ f.part = 4
    BY <1>2, <2>1
  <2> QED BY <1>1, <1>3, <2>1, <2>2 DEF PartOf, Begun
<1>4. CASE ~IsClass(f.decl)
  <2>1. Parts(f.decl) = <<"function">> /\ Len(Parts(f.decl)) = 1
    BY <1>1, <1>4, DeclFacts
  <2>2. f.part = 0 \/ f.part = 1
    BY <1>2, <2>1
  <2> QED BY <1>1, <1>4, <2>1, <2>2 DEF PartOf, Begun
<1> QED BY <1>3, <1>4

LEMMA FrontFacts ==
  ASSUME NEW S, NEW s \in Seq(S), s # <<>>
  PROVE  /\ Front(s) \in Seq(S) /\ Len(Front(s)) = Len(s) - 1 /\ Len(s) \in Nat \ {0}
         /\ \A i \in 1..(Len(s) - 1) : Front(s)[i] = s[i]
<1> DEFINE n == Len(s) - 1
<1>1. n \in Nat /\ Front(s) = SubSeq(s, 1, n) /\ n + 1 = Len(s)
  BY DEF Front
<1>2. \A i \in 1..n : s[i] \in S /\ 1 + i - 1 = i
  BY <1>1
<1> HIDE DEF n
<1>3. /\ SubSeq(s, 1, n) \in Seq(S)
      /\ Len(SubSeq(s, 1, n)) = IF 1 <= n THEN n - 1 + 1 ELSE 0
      /\ \A i \in 1..(n - 1 + 1) : SubSeq(s, 1, n)[i] = s[1 + i - 1]
  BY <1>1, <1>2, SubSeqProperties
<1>4. Len(SubSeq(s, 1, n)) = n /\ \A i \in 1..n : SubSeq(s, 1, n)[i] = s[i]
  BY <1>1, <1>2, <1>3
<1> QED BY <1>1, <1>3, <1>4 DEF n

LEMMA ReplaceFacts ==
  ASSUME NEW S, NEW s \in Seq(S), s # <<>>, NEW e \in S, NEW t, t = [s EXCEPT ![Len(s)] = e]
  PROVE  /\ t \in Seq(S) /\ Len(t) = Len(s) /\ t # <<>> /\ t[Len(s)] = e /\ Len(s) \in Nat \ {0}
         /\ \A i \in 1..Len(s) : i # Len(s) => t[i] = s[i]
  OBVIOUS

-----------------------------------------------------------------------------
(* The stack of frames. *)

LEMMA TopFacts ==
  ASSUME StackOK(frames), frames # <<>>
  PROVE  /\ Len(frames) \in Nat \ {0} /\ Len(frames) \in 1..Len(frames)
         /\ Frame = frames[Len(frames)] /\ Frame \in DeclFrame /\ FrameOK(Frame)
         /\ Env = Frame.env /\ Base = Frame.base /\ Part = PartOf(Frame) /\ Key = KeyOf(Frame)
         /\ Env \in Seq(Level) /\ Len(Env) \in Nat /\ Base \in Nat
         /\ Height(frames) = Base + Len(Env)
         /\ Len(frames) = 1 => Base = 0
         /\ Len(frames) # 1 => IsInstance(Frame.decl)
         /\ \A k \in 1..Len(frames) :
              /\ frames[k] \in DeclFrame /\ FrameOK(frames[k])
              /\ k # Len(frames) => /\ frames[k].inside /\ frames[k].part # 0
                                    /\ Ceiling(frames[k]) <= Base
<1> DEFINE n == Len(frames)
<1>1. /\ frames \in Seq(DeclFrame) /\ n \in Nat \ {0} /\ n \in 1..n /\ Frame = frames[n]
      /\ \A k \in 1..n : frames[k] \in DeclFrame /\ FrameOK(frames[k])
  BY DEF StackOK, Frame, Last
<1>2. Frame \in DeclFrame /\ FrameOK(Frame)
  BY <1>1
<1>3. Frame.env \in Seq(Level) /\ Len(Frame.env) \in Nat /\ Frame.base \in Nat
  BY <1>2, PartFacts
<1>4. Height(frames) = Frame.base + Len(Frame.env)
  BY <1>1 DEF Height, Ceiling
<1>5. n = 1 => Frame.base = 0
  BY <1>1 DEF StackOK
<1>6. n # 1 => IsInstance(Frame.decl)
  <2>1. n \in Nat \ {0}
    BY <1>1
  <2> HIDE DEF n
  <2>2. n # 1 => n - 1 \in 1..n /\ n = (n - 1) + 1
    BY <2>1
  <2> QED BY <1>1, <2>2 DEF StackOK, n
<1>7. ASSUME NEW k \in 1..n, k # n
      PROVE  frames[k].inside /\ frames[k].part # 0 /\ Ceiling(frames[k]) <= Frame.base
  <2>1. k + 1 \in 1..n /\ k < n
    BY <1>1, <1>7
  <2>2. frames[k].inside /\ Ceiling(frames[k]) <= Frame.base
    BY <1>1, <2>1 DEF StackOK
  <2> QED BY <1>1, <2>2 DEF FrameOK
<1> QED BY <1>1, <1>2, <1>3, <1>4, <1>5, <1>6, <1>7 DEF Env, Base, Part, Key, KeyOf, PartOf

(* F is frames with g for its last frame. *)
Turned(F, g) ==
  /\ Len(F) = Len(frames) /\ F # <<>> /\ F[Len(frames)] = g
  /\ \A k \in 1..Len(frames) : k # Len(frames) => F[k] = frames[k]

(* g is as the frame at hand in all that does not change within a part.   *)
SamePart(g) ==
  g.decl = Frame.decl /\ g.part = Frame.part /\ g.saved = Frame.saved /\ g.base = Frame.base

LEMMA TurnedStack ==
  ASSUME StackOK(frames), frames # <<>>, DeclsKnown(frames),
         NEW g \in DeclFrame, FrameOK(g), g.decl = Frame.decl, g.base = Frame.base,
         NEW F, F = WithFrame(g)
  PROVE  /\ Turned(F, g) /\ StackOK(F) /\ DeclsKnown(F)
         /\ Height(F) = Base + Len(g.env)
<1> DEFINE n == Len(frames)
<1>1. /\ frames \in Seq(DeclFrame) /\ n \in Nat \ {0} /\ n \in 1..n /\ Frame = frames[n] /\ Base = Frame.base
  BY TopFacts DEF StackOK
<1>2. F \in Seq(DeclFrame) /\ Turned(F, g)
  BY <1>1, ReplaceFacts DEF WithFrame, Turned
<1>3. \A k \in 1..n : F[k].decl = frames[k].decl /\ F[k].base = frames[k].base
  BY <1>1, <1>2 DEF Turned
<1>4. \A k \in 1..n : FrameOK(F[k])
  BY <1>2 DEF Turned, StackOK
<1>5. \A k, l \in 1..n : k < l => F[k] = frames[k]
  BY <1>1, <1>2 DEF Turned
<1>6. Len(F) = n /\ F # <<>>
  BY <1>2 DEF Turned
<1>7. F[1].base = 0
  BY <1>1, <1>3 DEF StackOK
<1>8. \A k, l \in 1..n : k < l => Ceiling(F[k]) <= F[l].base
  BY <1>3, <1>5 DEF StackOK
<1>9. \A k, l \in 1..n : l = k + 1 => F[k].inside /\ F[l].base = Ceiling(F[k]) /\ IsInstance(F[l].decl)
  <2> SUFFICES ASSUME NEW k \in 1..n, NEW l \in 1..n, l = k + 1
               PROVE  F[k].inside /\ F[l].base = Ceiling(F[k]) /\ IsInstance(F[l].decl)
    OBVIOUS
  <2>1. F[k] = frames[k]
    BY <1>1, <1>5
  <2> QED BY <1>3, <2>1 DEF StackOK
<1>10. StackOK(F)
  BY <1>2, <1>4, <1>6, <1>7, <1>8, <1>9 DEF StackOK
<1>11. DeclsKnown(F)
  BY <1>3, <1>6 DEF DeclsKnown
<1>12. Height(F) = Base + Len(g.env)
  BY <1>1, <1>2, <1>6 DEF Height, Ceiling, Turned
<1> QED BY <1>2, <1>10, <1>11, <1>12

(* The namespaces of a stack whose last frame stays in its part. *)
LEMMA TurnedNames ==
  ASSUME StackOK(frames), frames # <<>>, NEW g, SamePart(g), NEW F, Turned(F, g),
         NEW ns, NamesOK(frames, ns)
  PROVE  NamesOK(F, ns)
<1> DEFINE n == Len(frames)
<1>1. n \in 1..n /\ Frame = frames[n] /\ Len(F) = n
  BY TopFacts DEF Turned
<1>2. \A k \in 1..n : Begun(F[k]) = Begun(frames[k]) /\ F[k].decl = frames[k].decl /\ F[k].saved = frames[k].saved
  BY <1>1 DEF Turned, SamePart, Begun, PartOf
<1>3. \A h : NamesAre(frames, h) => NamesAre(F, h)
  BY <1>1, <1>2 DEF NamesAre
<1> QED BY <1>1, <1>3 DEF NamesOK

(* The levels of lambdas are those below the last frame and those in it. *)
LEMMA LambdaLevels ==
  ASSUME StackOK(frames), frames # <<>>, NEW p \in Nat
  PROVE  /\ LambdaAt(frames, p) /\ p > Base =>
              \E j \in 1..Len(Env) : p = Base + j /\ IsLambda(Env[j])
         /\ \A j \in 1..Len(Env) : IsLambda(Env[j]) => LambdaAt(frames, Base + j)
<1> DEFINE n == Len(frames)
<1>1. n \in 1..n /\ Frame = frames[n] /\ Env = frames[n].env /\ Base = frames[n].base /\ Base \in Nat
  BY TopFacts
<1>2. ASSUME LambdaAt(frames, p), p > Base
      PROVE  \E j \in 1..Len(Env) : p = Base + j /\ IsLambda(Env[j])
  <2>1. PICK k \in 1..n : \E j \in 1..Len(frames[k].env) : p = frames[k].base + j /\ IsLambda(frames[k].env[j])
    BY <1>2 DEF LambdaAt
  <2>2. PICK j \in 1..Len(frames[k].env) : p = frames[k].base + j /\ IsLambda(frames[k].env[j])
    BY <2>1
  <2>3. k = n
    <3>1. frames[k] \in DeclFrame /\ FrameOK(frames[k]) /\ (k # n => Ceiling(frames[k]) <= Base)
      BY TopFacts
    <3>2. frames[k].base \in Nat /\ Len(frames[k].env) \in Nat
      BY <3>1, PartFacts
    <3>3. Ceiling(frames[k]) = frames[k].base + Len(frames[k].env)
      BY DEF Ceiling
    <3>4. j \in Nat /\ j <= Len(frames[k].env) /\ p > Base /\ p = frames[k].base + j
      BY <1>2, <2>2, <3>2
    <3>5. ~(Ceiling(frames[k]) <= Base)
      <4>1. Base \in Nat
        BY <1>1
      <4> QED BY <3>2, <3>3, <3>4, <4>1
    <3> QED BY <3>1, <3>5
  <2> QED BY <1>1, <2>2, <2>3
<1>3. ASSUME NEW j \in 1..Len(Env), IsLambda(Env[j]) PROVE LambdaAt(frames, Base + j)
  BY <1>1, <1>3 DEF LambdaAt
<1> QED BY <1>2, <1>3

LEMMA TurnedLambdaLevels ==
  ASSUME StackOK(frames), frames # <<>>, NEW g, g.base = Frame.base,
         NEW F, Turned(F, g), NEW p \in Nat
  PROVE  /\ p <= Base => (LambdaAt(frames, p) => LambdaAt(F, p))
         /\ LambdaAt(F, p) /\ p <= Base /\ Len(g.env) \in Nat => LambdaAt(frames, p)
         /\ LambdaAt(F, p) /\ p > Base => \E j \in 1..Len(g.env) : p = Base + j /\ IsLambda(g.env[j])
         /\ \A j \in 1..Len(g.env) : IsLambda(g.env[j]) => LambdaAt(F, Base + j)
<1> DEFINE n == Len(frames)
<1>1. n \in 1..n /\ Frame = frames[n] /\ Env = frames[n].env /\ Base = frames[n].base /\ Base \in Nat
      /\ Len(F) = n /\ F[n] = g /\ g.base = Base
  BY TopFacts DEF Turned
<1>2. ASSUME p <= Base, LambdaAt(frames, p) PROVE LambdaAt(F, p)
  <2>1. PICK k \in 1..n : \E j \in 1..Len(frames[k].env) : p = frames[k].base + j /\ IsLambda(frames[k].env[j])
    BY <1>2 DEF LambdaAt
  <2>2. k # n
    BY <1>1, <1>2, <2>1
  <2> QED BY <1>1, <2>1, <2>2 DEF LambdaAt, Turned
<1>3. ASSUME LambdaAt(F, p)
      PROVE  \/ \E j \in 1..Len(g.env) : p = Base + j /\ IsLambda(g.env[j])
             \/ LambdaAt(frames, p) /\ p <= Base
  <2>1. PICK k \in 1..n : \E j \in 1..Len(F[k].env) : p = F[k].base + j /\ IsLambda(F[k].env[j])
    BY <1>1, <1>3 DEF LambdaAt
  <2>2. CASE k = n
    BY <1>1, <2>1, <2>2
  <2>3. CASE k # n
    <3>1. F[k] = frames[k]
      BY <2>3 DEF Turned
    <3>2. frames[k] \in DeclFrame /\ FrameOK(frames[k]) /\ Ceiling(frames[k]) <= Base
      BY <2>3, TopFacts
    <3>3. frames[k].base \in Nat /\ Len(frames[k].env) \in Nat
      BY <3>2, PartFacts
    <3>4. LambdaAt(frames, p)
      BY <2>1, <3>1 DEF LambdaAt
    <3>5. PICK j \in 1..Len(frames[k].env) : p = frames[k].base + j
      BY <2>1, <3>1
    <3> QED BY <1>1, <3>2, <3>3, <3>4, <3>5 DEF Ceiling
  <2> QED BY <2>2, <2>3
<1>4. ASSUME NEW j \in 1..Len(g.env), IsLambda(g.env[j]) PROVE LambdaAt(F, Base + j)
  BY <1>1, <1>4 DEF LambdaAt
<1> QED BY <1>1, <1>2, <1>3, <1>4

-----------------------------------------------------------------------------
(* Reading and writing bodies. *)

(* The bodies b are as they are in c, which may have more at the end. *)
Wider(b, c) ==
  /\ DOMAIN c = DOMAIN b
  /\ \A q \in DOMAIN b : /\ Len(b[q]) \in Nat /\ Len(c[q]) \in Nat /\ Len(b[q]) <= Len(c[q])
                         /\ \A i \in 1..Len(b[q]) : c[q][i] = b[q][i]

LEMMA KeysKnown ==
  ASSUME BodiesOK, DeclsKnown(frames), StackOK(frames), NEW k \in 1..Len(frames), frames[k].part # 0
  PROVE  KeyOf(frames[k]) \in DOMAIN bodies
<1>1. frames[k] \in DeclFrame /\ FrameOK(frames[k])
  BY DEF StackOK
<1>2. frames[k].decl \in Declarations /\ frames[k].part \in 1..Len(Parts(frames[k].decl))
  BY <1>1, PartFacts
<1> QED BY <1>2 DEF BodiesOK, DeclsKnown, KeyOf, PartOf

LEMMA SameOps ==
  ASSUME NEW b, NEW c, Wider(b, c), NEW f, KeyOf(f) \in DOMAIN b, f.at \in Nat, f.at <= Len(b[KeyOf(f)])
  PROVE  OpsIn(c, f) = OpsIn(b, f) /\ f.at <= Len(c[KeyOf(f)])
<1> DEFINE q == KeyOf(f)
           n == f.at
<1>1. n \in Nat /\ Len(b[q]) \in Nat /\ Len(c[q]) \in Nat /\ n <= Len(b[q]) /\ n <= Len(c[q])
  BY DEF Wider
<1>2. \A i \in 1..n : i \in 1..Len(b[q])
  BY <1>1
<1>3. \A i \in 1..n : c[q][i] = b[q][i]
  BY <1>2 DEF Wider
<1> QED BY <1>1, <1>3 DEF OpsIn

(* An event has been read or written; the bodies have not changed else. *)
LEMMA EventText ==
  ASSUME TextOK, BodiesOK, DeclsKnown(frames), StackOK(frames), ReadsOK(bodies, frames),
         NEW e \in EventSet, Event(e)
  PROVE  /\ frames # <<>> /\ Frame.inside /\ Key \in DOMAIN bodies
         /\ TextOK' /\ Wider(bodies, bodies')
         /\ Frame.at + 1 <= Len(bodies'[Key]) /\ bodies'[Key][Frame.at + 1] = e
<1> DEFINE n == Len(frames)
<1>1. frames # <<>> /\ Frame.inside
  BY DEF Event
<1>2. /\ n \in 1..n /\ Frame = frames[n] /\ Frame \in DeclFrame /\ FrameOK(Frame) /\ Key = KeyOf(Frame)
  BY <1>1, TopFacts
<1>3. Frame.at \in Nat /\ Frame.part # 0
  BY <1>1, <1>2, PartFacts DEF FrameOK
<1>4. Key \in DOMAIN bodies
  BY <1>2, <1>3, KeysKnown
<1>5. Frame.at <= Len(Body) /\ Body = bodies[Key]
  BY <1>1, <1>2 DEF ReadsOK, ReadOK, Body
<1>6. \A q \in DOMAIN bodies : bodies[q] \in Seq(EventSet) /\ Len(bodies[q]) \in Nat
  BY DEF TextOK
<1>7. Body \in Seq(EventSet) /\ Len(Body) \in Nat
  BY <1>4, <1>5, <1>6
<1>8. CASE Frame.at < Len(Body)
  <2>1. e = Body[Frame.at + 1] /\ bodies' = bodies /\ written' = written
    BY <1>8 DEF Event, text
  <2>2. Wider(bodies, bodies')
    BY <1>6, <2>1 DEF Wider
  <2> QED BY <1>1, <1>3, <1>4, <1>5, <1>7, <1>8, <2>1, <2>2 DEF TextOK
<1>9. CASE ~(Frame.at < Len(Body))
  <2>1. /\ bodies' = [bodies EXCEPT ![Key] = Append(@, e)]
        /\ written' \in {written, written + 1} /\ written' <= MaxEvents
    BY <1>9 DEF Event
  <2> DEFINE s == Append(Body, e)
  <2>2. /\ s \in Seq(EventSet) /\ Len(s) = Len(Body) + 1 /\ s[Len(Body) + 1] = e
        /\ \A i \in 1..Len(Body) : s[i] = Body[i]
    BY <1>7, AppendProperties
  <2>3. bodies' = [bodies EXCEPT ![Key] = s]
    BY <1>5, <2>1
  <2> HIDE DEF s
  <2>4. DOMAIN bodies' = DOMAIN bodies /\ bodies'[Key] = s /\ \A q \in DOMAIN bodies : q # Key => bodies'[q] = bodies[q]
    BY <1>4, <2>3 DEF TextOK
  <2>5. Wider(bodies, bodies')
    BY <1>5, <1>6, <1>7, <2>2, <2>4 DEF Wider
  <2>6. bodies' \in [DOMAIN bodies' -> Seq(EventSet)]
    BY <1>4, <2>2, <2>3 DEF TextOK
  <2>7. written' \in 0..MaxEvents
    BY <2>1, AnalysisAssumption DEF TextOK
  <2>8. Frame.at = Len(Body)
    BY <1>3, <1>5, <1>7, <1>9
  <2> QED BY <1>1, <1>4, <1>7, <2>2, <2>4, <2>5, <2>6, <2>7, <2>8 DEF TextOK
<1> QED BY <1>8, <1>9

(* The last frame has moved on by an event. *)
Moved(g, env) == g = [Frame EXCEPT !.at = Frame.at + 1, !.env = env]

LEMMA EventStep ==
  ASSUME Shape, NEW e \in EventSet, Event(e), NEW env \in Seq(Level),
         NEW g, Moved(g, env), FrameOK(g),
         NEW F, F = WithFrame(g)
  PROVE  /\ frames # <<>> /\ Frame.inside /\ SamePart(g) /\ g.env = env
         /\ TextOK' /\ DOMAIN bodies' = DOMAIN bodies
         /\ Turned(F, g) /\ StackOK(F) /\ DeclsKnown(F) /\ Height(F) = Base + Len(env)
         /\ ReadsOK(bodies', F) /\ NamesOK(F, currentNs)
         /\ OpsIn(bodies', g) = OpsIn(bodies, Frame) \cup {e.op}
         /\ \A c : ClassOK(bodies, frames, c) => ClassOK(bodies', F, c)
<1> DEFINE n == Len(frames)
<1>1. /\ frames # <<>> /\ Frame.inside /\ Key \in DOMAIN bodies /\ TextOK' /\ Wider(bodies, bodies')
      /\ Frame.at + 1 <= Len(bodies'[Key]) /\ bodies'[Key][Frame.at + 1] = e
  BY EventText DEF Shape
<1>2. /\ n \in Nat \ {0} /\ n \in 1..n /\ Frame = frames[n] /\ Frame \in DeclFrame /\ FrameOK(Frame) /\ Key = KeyOf(Frame)
      /\ \A k \in 1..n : frames[k] \in DeclFrame /\ FrameOK(frames[k])
      /\ \A k \in 1..n : k # n => frames[k].inside /\ frames[k].part # 0
  BY <1>1, TopFacts DEF Shape
<1>3. g \in DeclFrame /\ SamePart(g) /\ g.env = env /\ g.at = Frame.at + 1 /\ Frame.at \in Nat
  <2>1. Frame.at + 1 \in Nat /\ Frame.at \in Nat
    BY <1>2, PartFacts
  <2> QED BY <1>2, <2>1 DEF DeclFrame, SamePart, Moved
<1>4. Turned(F, g) /\ StackOK(F) /\ DeclsKnown(F) /\ Height(F) = Base + Len(env)
  BY <1>1, <1>3, TurnedStack DEF SamePart, Shape
<1>5. NamesOK(F, currentNs)
  BY <1>1, <1>3, <1>4, TurnedNames DEF Shape
<1>6. KeyOf(g) = Key
  BY <1>2, <1>3 DEF KeyOf, PartOf, SamePart
<1>7. Frame.at <= Len(bodies[Key])
  BY <1>1, <1>2 DEF Shape, ReadsOK, ReadOK
<1>8. OpsIn(bodies', g) = OpsIn(bodies, Frame) \cup {e.op}
  <2>1. OpsIn(bodies', Frame) = OpsIn(bodies, Frame)
    BY <1>1, <1>2, <1>3, <1>7, SameOps
  <2>2. \A k : k \in 1..g.at <=> k \in 1..Frame.at \/ k = Frame.at + 1
    BY <1>3
  <2>3. OpsIn(bodies', g) = OpsIn(bodies', Frame) \cup {e.op}
    BY <1>1, <1>2, <1>6, <2>2 DEF OpsIn
  <2> QED BY <2>1, <2>3
<1>9. \A k \in 1..n : k # n => OpsIn(bodies', frames[k]) = OpsIn(bodies, frames[k]) /\ ReadOK(bodies', frames[k])
  <2> SUFFICES ASSUME NEW k \in 1..n, k # n
               PROVE  OpsIn(bodies', frames[k]) = OpsIn(bodies, frames[k]) /\ ReadOK(bodies', frames[k])
    OBVIOUS
  <2>1. frames[k].at \in Nat /\ frames[k].inside /\ frames[k].part # 0
    BY <1>2, PartFacts
  <2>2. KeyOf(frames[k]) \in DOMAIN bodies
    BY <2>1, KeysKnown DEF Shape
  <2>3. frames[k].at <= Len(bodies[KeyOf(frames[k])])
    BY <2>1 DEF Shape, ReadsOK, ReadOK
  <2> QED BY <1>1, <2>1, <2>2, <2>3, SameOps DEF ReadOK
<1>10. ReadsOK(bodies', F)
  <2>1. ReadOK(bodies', g)
    BY <1>1, <1>3, <1>6 DEF ReadOK
  <2>2. \A k \in 1..n : ReadOK(bodies', F[k])
    BY <1>4, <1>9, <2>1 DEF Turned
  <2>3. \A k \in 1..n : k < n => "type" \in OpsIn(bodies', F[k])
    <3> SUFFICES ASSUME NEW k \in 1..n, k < n PROVE "type" \in OpsIn(bodies', F[k])
      OBVIOUS
    <3>1. k # n /\ "type" \in OpsIn(bodies, frames[k])
      BY <1>2 DEF Shape, ReadsOK
    <3> QED BY <1>4, <1>9, <3>1 DEF Turned
  <2> QED BY <1>4, <2>2, <2>3 DEF ReadsOK, Turned
<1>11. ASSUME NEW c, ClassOK(bodies, frames, c) PROVE ClassOK(bodies', F, c)
  <2>1. Len(F) = n /\ F[n] = g /\ \A k \in 1..n : F[k].decl = frames[k].decl
    <3>1. g.decl = frames[n].decl
      BY <1>2, <1>3 DEF SamePart
    <3> QED BY <1>4, <3>1 DEF Turned
  <2>2. (\A k \in 1..n : ~IsClass(F[k].decl)) => c = none
    BY <1>11, <2>1 DEF ClassOK
  <2>3. Begun(g) /\ IsClass(g.decl) /\ "type" \notin OpsIn(bodies', g) => c = g.decl
    <3>1. Begun(g) = Begun(Frame) /\ g.decl = Frame.decl
      BY <1>3 DEF SamePart, Begun, PartOf
    <3> QED BY <1>1, <1>2, <1>8, <1>11, <3>1 DEF ClassOK
  <2> QED BY <2>1, <2>2, <2>3 DEF ClassOK
<1> QED BY <1>1, <1>3, <1>4, <1>5, <1>8, <1>10, <1>11 DEF Wider

-----------------------------------------------------------------------------
(* Lambdas. *)

(* ls differs from lambdas in what has been recorded or is needed only. *)
SameLambdas(ls) ==
  /\ ls \in Seq(LambdaState) /\ Len(ls) = Len(lambdas)
  /\ \A m \in 1..Len(lambdas) :
       /\ ls[m].depth = lambdas[m].depth /\ ls[m].all = lambdas[m].all /\ ls[m].saved = lambdas[m].saved

LEMMA RecordedFacts ==
  ASSUME LambdasOK(frames, lambdas, tracker), NEW xs \in SUBSET Vars
  PROVE  /\ SameLambdas(Recorded(xs))
         /\ \A m \in 1..Len(lambdas) :
              /\ Recorded(xs)[m].recorded = lambdas[m].recorded \cup {x \in xs : m = tracker /\ Outside(Found(x), m)}
              /\ Recorded(xs)[m].needed = lambdas[m].needed \cup {x \in xs : m \in Capturing(x)}
<1> DEFINE R(m) == lambdas[m].recorded \cup {x \in xs : m = tracker /\ Outside(Found(x), m)}
           N(m) == lambdas[m].needed \cup {x \in xs : m \in Capturing(x)}
           r(m) == [lambdas[m] EXCEPT !.recorded = R(m), !.needed = N(m)]
<1>1. Recorded(xs) = [m \in 1..Len(lambdas) |-> r(m)]
  BY DEF Recorded
<1>2. lambdas \in Seq(LambdaState) /\ Len(lambdas) \in Nat /\ \A m \in 1..Len(lambdas) : lambdas[m] \in LambdaState
  BY DEF LambdasOK
<1>3. \A m \in 1..Len(lambdas) : R(m) \in SUBSET Vars /\ N(m) \in SUBSET Vars
  BY <1>2 DEF LambdaState
<1> HIDE DEF R, N
<1>4. \A m \in 1..Len(lambdas) : /\ r(m) \in LambdaState /\ r(m).recorded = R(m) /\ r(m).needed = N(m)
                                 /\ r(m).depth = lambdas[m].depth /\ r(m).all = lambdas[m].all /\ r(m).saved = lambdas[m].saved
  BY <1>2, <1>3 DEF LambdaState
<1> HIDE DEF r
<1>5. Recorded(xs) \in Seq(LambdaState) /\ Len(Recorded(xs)) = Len(lambdas)
      /\ \A m \in 1..Len(lambdas) : Recorded(xs)[m] = r(m)
  BY <1>1, <1>2, <1>4
<1> QED BY <1>4, <1>5 DEF SameLambdas, R, N

(* The last frame has the same levels, of the same kinds. *)
SameKinds(env) == Len(env) = Len(Env) /\ \A j \in 1..Len(Env) : env[j].kind = Env[j].kind

LEMMA KeptLambdas ==
  ASSUME StackOK(frames), frames # <<>>, LambdasOK(frames, lambdas, tracker),
         NEW g, g.base = Frame.base, SameKinds(g.env), NEW F, Turned(F, g), Height(F) = Height(frames),
         NEW ls, SameLambdas(ls)
  PROVE  LambdasOK(F, ls, tracker)
<1>1. /\ lambdas \in Seq(LambdaState) /\ Len(lambdas) \in Nat
      /\ \A m \in 1..Len(lambdas) : lambdas[m].depth \in Nat
  <2>1. lambdas \in Seq(LambdaState)
    BY DEF LambdasOK
  <2>2. Len(lambdas) \in Nat /\ \A m \in 1..Len(lambdas) : lambdas[m] \in LambdaState
    BY <2>1
  <2> QED BY <2>1, <2>2 DEF LambdaState
<1>2. ASSUME NEW p \in Nat PROVE LambdaAt(F, p) <=> LambdaAt(frames, p)
  <2>1. /\ g.base = Frame.base /\ Base \in Nat /\ Len(Env) \in Nat /\ Len(g.env) = Len(Env)
        /\ \A j \in 1..Len(Env) : IsLambda(g.env[j]) <=> IsLambda(Env[j])
    BY TopFacts DEF SamePart, SameKinds, IsLambda
  <2>2. CASE p <= Base
    BY <2>1, <2>2, TurnedLambdaLevels
  <2>3. CASE p > Base
    <3>1. LambdaAt(frames, p) => LambdaAt(F, p)
      <4>1. LambdaAt(frames, p) => \E j \in 1..Len(Env) : p = Base + j /\ IsLambda(Env[j])
        BY <2>3, LambdaLevels
      <4>2. \A j \in 1..Len(g.env) : IsLambda(g.env[j]) => LambdaAt(F, Base + j)
        BY <2>1, TurnedLambdaLevels
      <4> QED BY <2>1, <4>1, <4>2
    <3>2. LambdaAt(F, p) => LambdaAt(frames, p)
      <4>1. LambdaAt(F, p) => \E j \in 1..Len(g.env) : p = Base + j /\ IsLambda(g.env[j])
        BY <2>1, <2>3, TurnedLambdaLevels
      <4>2. \A j \in 1..Len(Env) : IsLambda(Env[j]) => LambdaAt(frames, Base + j)
        BY LambdaLevels
      <4> QED BY <2>1, <4>1, <4>2
    <3> QED BY <3>1, <3>2
  <2> QED BY <2>1, <2>2, <2>3
<1>3. \A m \in 1..Len(ls) : LambdaAt(F, ls[m].depth)
  BY <1>1, <1>2 DEF SameLambdas, LambdasOK
<1>4. \A p \in 1..Height(F) : LambdaAt(F, p) => \E m \in 1..Len(ls) : ls[m].depth = p
  <2>1. Height(frames) \in Nat
    BY TopFacts
  <2> QED BY <1>2, <2>1 DEF SameLambdas, LambdasOK
<1>5. \A m, n \in 1..Len(ls) : m < n => ls[m].depth < ls[n].depth
  BY DEF SameLambdas, LambdasOK
<1>6. ASSUME NEW n \in 0..Len(lambdas), NEW t, Innermost(lambdas, n, t) PROVE Innermost(ls, n, t)
  BY <1>1, <1>6 DEF SameLambdas, Innermost
<1>7. Innermost(ls, Len(ls), tracker)
  BY <1>1, <1>6 DEF SameLambdas, LambdasOK
<1>8. \A m \in 1..Len(ls) : Innermost(ls, m - 1, ls[m].saved)
  <2>1. \A m \in 1..Len(lambdas) : m - 1 \in 0..Len(lambdas) /\ Innermost(lambdas, m - 1, lambdas[m].saved)
    BY <1>1 DEF LambdasOK
  <2>2. \A m \in 1..Len(lambdas) : Innermost(ls, m - 1, lambdas[m].saved)
    BY <1>6, <2>1
  <2> QED BY <2>2 DEF SameLambdas
<1> QED BY <1>3, <1>4, <1>5, <1>7, <1>8 DEF LambdasOK, SameLambdas

-----------------------------------------------------------------------------
(* Steps that leave the levels as they are. *)

(* The declarations and what has become of them. *)
LEMMA SameProgram ==
  ASSUME ProgramOK, DoneOK, BodiesOK, DOMAIN bodies' = DOMAIN bodies,
         UNCHANGED <<decls, next, instantiated, done>>, rejected' \subseteq Classes
  PROVE  ProgramOK' /\ DoneOK' /\ BodiesOK'
<1>1. ProgramOK'
  BY DEF ProgramOK
<1>2. DoneOK'
  BY DEF DoneOK
<1>3. BodiesOK'
  BY DEF BodiesOK
<1> QED BY <1>1, <1>2, <1>3

LEMMA SameKnown ==
  ASSUME NEW F, DeclsKnown(F), \A i \in 1..3 : decls'[i] = decls[i]
  PROVE  DeclsKnown(F)'
BY DEF DeclsKnown

LEMMA QuietStep ==
  ASSUME Shape, NEW e \in EventSet, Event(e), NEW env \in Seq(Level), SameKinds(env), Going(env),
         scopes' \in Seq(SUBSET Variable), Len(scopes') = Len(scopes),
         SameLambdas(lambdas'), tracker' = tracker, UNCHANGED <<program, currentNs>>
  PROVE  /\ Shape'
         /\ \A c : ClassOK(bodies, frames, c) => ClassOK(bodies', frames', c)
         /\ \E g : SamePart(g) /\ g.env = env /\ Turned(frames', g)
<1> DEFINE g == [Frame EXCEPT !.at = Frame.at + 1, !.env = env]
<1>1. frames # <<>> /\ Frame.inside /\ StackOK(frames) /\ LambdasOK(frames, lambdas, tracker)
  BY DEF Event, Shape
<1>2. Frame \in DeclFrame /\ FrameOK(Frame) /\ Env = Frame.env /\ Len(Env) \in Nat /\ Height(frames) = Base + Len(Env)
  BY <1>1, TopFacts
<1>3. frames' = WithFrame(g)
  BY DEF Going
<1>4. g.decl = Frame.decl /\ g.part = Frame.part /\ g.inside = Frame.inside /\ g.env = env
  BY <1>2 DEF DeclFrame
<1> HIDE DEF g
<1>5. FrameOK(g)
  <2>1. Begun(g) = Begun(Frame)
    BY <1>4 DEF Begun, PartOf
  <2>2. Len(env) = Len(Env) /\ (Env = <<>> => env = <<>>) /\ (Env # <<>> => env # <<>> /\ 1 \in 1..Len(Env))
    BY <1>2 DEF SameKinds
  <2>3. \A j \in 2..Len(Env) : j \in 1..Len(Env)
    BY <1>2
  <2> QED BY <1>1, <1>2, <1>4, <2>1, <2>2, <2>3 DEF FrameOK, SameKinds
<1>6. Moved(g, env)
  BY DEF g, Moved
<1>7. /\ SamePart(g) /\ g.env = env /\ TextOK' /\ DOMAIN bodies' = DOMAIN bodies
      /\ Turned(frames', g) /\ StackOK(frames') /\ DeclsKnown(frames') /\ Height(frames') = Base + Len(env)
      /\ ReadsOK(bodies', frames') /\ NamesOK(frames', currentNs)
      /\ \A c : ClassOK(bodies, frames, c) => ClassOK(bodies', frames', c)
  BY <1>3, <1>5, <1>6, EventStep
<1>8. ProgramOK' /\ DoneOK' /\ BodiesOK' /\ \A i \in 1..3 : decls'[i] = decls[i]
  BY <1>7, SameProgram DEF Shape, program, ProgramOK
<1>9. Height(frames') = Height(frames)
  BY <1>2, <1>7 DEF SameKinds
<1>10. LambdasOK(frames', lambdas', tracker)
  BY <1>1, <1>7, <1>9, KeptLambdas DEF SamePart
<1>11. ScopesOK(frames', scopes')
  BY <1>9 DEF ScopesOK, Shape
<1>12. Shape'
  <2>1. (StackOK(frames) /\ ReadsOK(bodies, frames) /\ ScopesOK(frames, scopes))'
    BY <1>7, <1>11
  <2>2. DeclsKnown(frames)'
    BY <1>7, <1>8 DEF DeclsKnown
  <2>3. LambdasOK(frames, lambdas, tracker)' /\ NamesOK(frames, currentNs)'
    BY <1>7, <1>10
  <2> QED BY <1>7, <1>8, <2>1, <2>2, <2>3 DEF Shape
<1> QED BY <1>7, <1>12

-----------------------------------------------------------------------------
(* Looking up variables. *)

Below == OpToRel(<, Nat)

LEMMA BelowHolds == \A x, y \in Nat : x < y => <<x, y>> \in Below
  BY Zenon DEF OpToRel, Below

(* The last position of a set of positions, 0 if there is none. *)
LEMMA LastPosition ==
  ASSUME NEW n \in Nat, NEW I \in SUBSET (1..n), NEW m, m = IF I # {} THEN Max(I) ELSE 0
  PROVE  m \in 0..n /\ (m = 0 <=> I = {}) /\ (I # {} => m \in I) /\ \A i \in I : i <= m
<1>1. CASE I = {}
  BY <1>1
<1>2. CASE I # {}
  <2> DEFINE T == {n - i : i \in I}
  <2>1. T \in SUBSET Nat /\ T # {}
    <3>1. \A i \in I : n - i \in Nat
      OBVIOUS
    <3> QED BY <1>2, <3>1
  <2>2. IsWellFoundedOn(Below, Nat)
    BY NatLessThanWellFounded, Zenon DEF Below
  <2> HIDE DEF T
  <2>3. PICK t \in T : \A y \in T : ~(<<y, t>> \in Below)
    BY <2>1, <2>2, WFMin, Zenon
  <2>4. \A y \in T : ~(y < t)
    BY <2>1, <2>3, BelowHolds, Zenon
  <2>5. PICK j \in I : t = n - j
    BY <2>3 DEF T
  <2>6. \A i \in I : j >= i
    <3> SUFFICES ASSUME NEW i \in I PROVE j >= i
      OBVIOUS
    <3>1. n - i \in T
      BY DEF T
    <3>2. ~(n - i < n - j)
      BY <2>4, <2>5, <3>1
    <3> QED BY <3>2
  <2>7. Max(I) \in I /\ \A i \in I : Max(I) >= i
    BY <2>6 DEF Max
  <2>8. m = Max(I)
    BY <1>2
  <2>9. m \in I /\ \A i \in I : m >= i
    BY <2>7, <2>8
  <2>10. m \in 1..n /\ \A i \in I : i \in 1..n
    BY <2>9
  <2>11. m \in 0..n /\ m # 0 /\ \A i \in I : i <= m
    BY <2>9, <2>10
  <2> QED BY <1>2, <2>9, <2>11
<1> QED BY <1>1, <1>2

(* lookupVar finds the last scope that has the name. *)
LEMMA FoundFacts ==
  ASSUME NEW x, scopes \in Seq(SUBSET Variable)
  PROVE  /\ Found(x) \in 0..Len(scopes) /\ Len(scopes) \in Nat
         /\ Found(x) # 0 => Named(x, scopes[Found(x)])
         /\ \A i \in 1..Len(scopes) : Named(x, scopes[i]) => i <= Found(x) /\ Found(x) # 0
<1> DEFINE I == {i \in 1..Len(scopes) : Named(x, scopes[i])}
<1>1. Found(x) = IF I # {} THEN Max(I) ELSE 0
  BY DEF Found, SelectLastInSeq
<1>2. I \in SUBSET (1..Len(scopes)) /\ Len(scopes) \in Nat
  OBVIOUS
<1> HIDE DEF I
<1>3. Found(x) \in 0..Len(scopes) /\ (Found(x) = 0 <=> I = {}) /\ (I # {} => Found(x) \in I)
      /\ \A i \in I : i <= Found(x)
  BY <1>1, <1>2, LastPosition
<1> QED BY <1>2, <1>3 DEF I

(* The last level of the body at hand that has the name, if no lambda that *)
(* lists its captures is in between.                                       *)
LEMMA MeantFacts ==
  ASSUME NEW x, Env \in Seq(Level)
  PROVE  /\ Meant(x) \in 0..Len(Env) /\ Len(Env) \in Nat
         /\ Meant(x) # 0 =>
              /\ Named(x, Env[Meant(x)].vars)
              /\ \A j \in 1..Len(Env) : Named(x, Env[j].vars) => j <= Meant(x)
<1> DEFINE I == {j \in 1..Len(Env) : Named(x, Env[j].vars)}
           m == IF I # {} THEN Max(I) ELSE 0
<1>1. Meant(x) = IF \E k \in (m + 1)..Len(Env) : Env[k].kind = "listed" THEN 0 ELSE m
  BY DEF Meant, SelectLastInSeq
<1>2. I \in SUBSET (1..Len(Env)) /\ Len(Env) \in Nat
  OBVIOUS
<1>3. m \in 0..Len(Env) /\ (m = 0 <=> I = {}) /\ (I # {} => m \in I) /\ \A j \in I : j <= m
  <2> HIDE DEF I
  <2> QED BY <1>2, LastPosition
<1> HIDE DEF m
<1>4. Meant(x) \in {0, m}
  BY <1>1
<1> QED BY <1>2, <1>3, <1>4

(* The scope found is that of the level meant: with no liberty taken, a    *)
(* name that means nothing is one of a function that is not an instance,   *)
(* below which there is no other body.                                     *)
LEMMA FoundIsMeant ==
  ASSUME Shape, frames # <<>>, Agree(frames, scopes), Liberties = {}, NEW x, Allowed(x)
  PROVE  /\ Found(x) = Place(Meant(x)) /\ Found(x) \in 0..Len(scopes) /\ Meant(x) \in 0..Len(Env)
         /\ Meant(x) # 0 => Found(x) = Base + Meant(x) /\ scopes[Found(x)] = Env[Meant(x)].vars
<1> DEFINE n == Len(frames)
           i == Found(x)
           j == Meant(x)
<1>1. /\ n \in 1..n /\ Frame = frames[n] /\ Env = Frame.env /\ Base = Frame.base /\ Base \in Nat
      /\ Env \in Seq(Level) /\ Len(Env) \in Nat /\ Height(frames) = Base + Len(Env)
      /\ (n = 1 => Base = 0) /\ (n # 1 => IsInstance(Frame.decl))
  BY TopFacts DEF Shape
<1>2. scopes \in Seq(SUBSET Variable) /\ Len(scopes) = Base + Len(Env)
  BY <1>1 DEF Shape, ScopesOK
<1>3. /\ i \in 0..Len(scopes)
      /\ i # 0 => Named(x, scopes[i])
      /\ \A k \in 1..Len(scopes) : Named(x, scopes[k]) => k <= i /\ i # 0
  BY <1>2, FoundFacts
<1>4. /\ j \in 0..Len(Env)
      /\ j # 0 => Named(x, Env[j].vars)
      /\ j # 0 => \A k \in 1..Len(Env) : Named(x, Env[k].vars) => k <= j
  BY <1>1, MeantFacts
<1>5. \A k \in 1..Len(Env) : scopes[Base + k] = Env[k].vars
  BY <1>1 DEF Agree
<1> HIDE DEF i, j
<1>6. CASE j # 0
  <2>1. Base + j \in 1..Len(scopes) /\ Named(x, scopes[Base + j])
    BY <1>1, <1>2, <1>4, <1>5, <1>6
  <2>2. Base + j <= i /\ i # 0
    BY <1>3, <2>1
  <2>3. i - Base \in 1..Len(Env) /\ Base + (i - Base) = i
    <3>1. i \in Nat /\ j \in Nat \ {0} /\ Base \in Nat /\ Len(Env) \in Nat
      BY <1>1, <1>2, <1>3, <1>4, <1>6
    <3>2. i <= Base + Len(Env)
      BY <1>2, <1>3, <3>1
    <3> QED BY <2>2, <3>1, <3>2
  <2>4. Named(x, Env[i - Base].vars)
    BY <1>3, <1>5, <2>2, <2>3
  <2>5. i - Base <= j
    BY <1>4, <1>6, <2>3, <2>4
  <2>6. i = Base + j
    <3>1. i \in Nat /\ j \in Nat /\ Base \in Nat
      BY <1>1, <1>2, <1>3, <1>4
    <3> QED BY <2>2, <2>5, <3>1
  <2> QED BY <1>3, <1>4, <1>5, <1>6, <2>6 DEF Place, i, j
<1>7. CASE j = 0
  <2>1. ~IsInstance(Frame.decl) /\ \A k \in 1..Len(Env) : ~Named(x, Env[k].vars)
    BY <1>7 DEF Allowed, j
  <2>2. n = 1 /\ Base = 0
    BY <1>1, <2>1
  <2>3. \A k \in 1..Len(scopes) : ~Named(x, scopes[k])
    <3> SUFFICES ASSUME NEW k \in 1..Len(scopes) PROVE ~Named(x, scopes[k])
      OBVIOUS
    <3>1. k \in 1..Len(Env) /\ Base + k = k
      BY <1>1, <1>2, <2>2
    <3> QED BY <1>5, <2>1, <3>1
  <2>4. i = 0
    BY <1>3, <2>3
  <2> QED BY <1>3, <1>4, <1>7, <2>4 DEF Place, i, j
<1> QED BY <1>6, <1>7

(* The lambda that records a name is the one lambda that needs it. *)
LEMMA RecordsNeeded ==
  ASSUME Shape, frames # <<>>, Agree(frames, scopes), Liberties = {}, NEW x, Allowed(x),
         NEW m \in 1..Len(lambdas), lambdas[m].all
  PROVE  m = tracker /\ Outside(Found(x), m) <=> m \in Capturing(x)
<1>1. /\ Found(x) = Place(Meant(x)) /\ Found(x) \in 0..Len(scopes) /\ Meant(x) \in 0..Len(Env)
      /\ Meant(x) # 0 => Found(x) = Base + Meant(x)
  BY FoundIsMeant
<1>2. Base \in Nat /\ Len(Env) \in Nat /\ Len(scopes) \in Nat
  BY TopFacts, FoundFacts DEF Shape, ScopesOK
<1>3. /\ lambdas \in Seq(LambdaState) /\ Len(lambdas) \in Nat
      /\ \A k \in 1..Len(lambdas) : lambdas[k] \in LambdaState
      /\ \A k, l \in 1..Len(lambdas) : k < l => lambdas[k].depth < lambdas[l].depth
      /\ tracker \in 0..Len(lambdas)
      /\ \A k \in 1..Len(lambdas) : k > tracker => ~lambdas[k].all
      /\ tracker # 0 => lambdas[tracker].all
  BY DEF Shape, LambdasOK, Innermost
<1>4. \A k \in 1..Len(lambdas) : lambdas[k].depth \in Nat
  BY <1>3 DEF LambdaState
<1>5. m \in Capturing(x) <=> Meant(x) # 0 /\ Base < lambdas[m].depth /\ Place(Meant(x)) < lambdas[m].depth
  BY DEF Capturing
<1>6. ASSUME m = tracker, Outside(Found(x), m) PROVE m \in Capturing(x)
  <2>1. Found(x) \in 1..(lambdas[m].depth - 1)
    BY <1>6 DEF Outside
  <2>2. Meant(x) # 0
    BY <1>1, <2>1 DEF Place
  <2> QED BY <1>1, <1>2, <1>4, <1>5, <2>1, <2>2
<1>7. ASSUME m \in Capturing(x) PROVE m = tracker /\ Outside(Found(x), m)
  <2>1. Meant(x) # 0 /\ Base < lambdas[m].depth /\ Found(x) < lambdas[m].depth /\ Found(x) = Base + Meant(x)
    BY <1>1, <1>5, <1>7
  <2>2. Found(x) \in 1..(lambdas[m].depth - 1)
    BY <1>1, <1>2, <1>4, <2>1
  <2>3. m <= tracker /\ tracker # 0
    BY <1>3
  <2>4. m = tracker
    <3> SUFFICES ASSUME m # tracker PROVE FALSE
      OBVIOUS
    <3>1. m < tracker /\ tracker \in 1..Len(lambdas) /\ lambdas[tracker].all
      BY <1>3, <2>3
    <3>2. lambdas[m].depth < lambdas[tracker].depth
      BY <1>3, <3>1
    <3>3. Base < lambdas[tracker].depth /\ Place(Meant(x)) < lambdas[tracker].depth
      BY <1>1, <1>2, <1>4, <2>1, <3>1, <3>2
    <3>4. {m, tracker} \subseteq Capturing(x)
      BY <1>7, <2>1, <3>1, <3>3 DEF Capturing
    <3>5. Cardinality({m, tracker}) = 2
      <4>1. {m} \cup {tracker} = {m, tracker} /\ tracker \notin {m}
        BY <3>1
      <4>2. IsFiniteSet({m}) /\ Cardinality({m}) = 1
        BY FS_Singleton
      <4>3. Cardinality({m} \cup {tracker}) = Cardinality({m}) + 1
        BY <4>1, <4>2, FS_AddElement
      <4>4. Cardinality({m, tracker}) = 1 + 1
        BY <4>1, <4>2, <4>3, Zenon
      <4> QED BY <4>4
    <3>6. IsFiniteSet(Capturing(x))
      <4>1. Capturing(x) \subseteq 1..Len(lambdas)
        BY DEF Capturing
      <4>2. IsFiniteSet(1..Len(lambdas))
        BY <1>3, FS_Interval
      <4> QED BY <4>1, <4>2, FS_Subset
    <3>7. Cardinality({m, tracker}) <= Cardinality(Capturing(x)) /\ Cardinality(Capturing(x)) \in Nat
      BY <3>4, <3>6, FS_Subset, FS_CardinalityType
    <3>8. Cardinality(Capturing(x)) <= 1
      BY DEF Allowed
    <3> QED BY <3>5, <3>7, <3>8
  <2> QED BY <2>2, <2>4 DEF Outside
<1> QED BY <1>6, <1>7

-----------------------------------------------------------------------------
(* Declarations. *)

Changed(env, j, vs) == env = [Env EXCEPT ![j].vars = vs]

OneChanged(env, j, vs) ==
  /\ env \in Seq(Level) /\ SameKinds(env) /\ env[j].vars = vs
  /\ \A k \in 1..Len(Env) : k # j => env[k] = Env[k]

LEMMA LevelChanged ==
  ASSUME Env \in Seq(Level), NEW j \in 1..Len(Env), NEW vs \in SUBSET Variable,
         NEW env, Changed(env, j, vs)
  PROVE  OneChanged(env, j, vs)
<1> DEFINE level == [Env[j] EXCEPT !.vars = vs]
<1>1. env = [Env EXCEPT ![j] = level]
  BY DEF Changed
<1>2. Env[j] \in Level
  OBVIOUS
<1>3. level \in Level /\ level.vars = vs /\ level.kind = Env[j].kind
  BY <1>2 DEF Level
<1> HIDE DEF level
<1>4. env \in Seq(Level) /\ Len(env) = Len(Env) /\ env[j] = level /\ \A k \in 1..Len(Env) : k # j => env[k] = Env[k]
  BY <1>1, <1>3
<1> QED BY <1>3, <1>4 DEF SameKinds, OneChanged

LEMMA ScopeChanged ==
  ASSUME NEW sc \in Seq(SUBSET Variable), NEW i \in 1..Len(sc), NEW vs \in SUBSET Variable,
         NEW tc, tc = [sc EXCEPT ![i] = vs]
  PROVE  /\ tc \in Seq(SUBSET Variable) /\ Len(tc) = Len(sc) /\ tc[i] = vs
         /\ \A k \in 1..Len(sc) : k # i => tc[k] = sc[k]
  OBVIOUS

(* The scopes of the frames below stay. *)
LEMMA AgreeTurned ==
  ASSUME StackOK(frames), frames # <<>>, Agree(frames, scopes),
         NEW g, g.base = Frame.base, NEW F, Turned(F, g), NEW sc,
         \A p \in 1..Base : sc[p] = scopes[p],
         \A j \in 1..Len(g.env) : sc[Base + j] = g.env[j].vars
  PROVE  Agree(F, sc)
<1> DEFINE n == Len(frames)
<1>1. n \in 1..n /\ Len(F) = n /\ F[n] = g /\ g.base = Base /\ Base \in Nat
  BY TopFacts DEF Turned, SamePart
<1>2. ASSUME NEW k \in 1..n, k # n, NEW j \in 1..Len(F[k].env) PROVE sc[F[k].base + j] = F[k].env[j].vars
  <2>1. F[k] = frames[k]
    BY <1>2 DEF Turned
  <2>2. frames[k] \in DeclFrame /\ FrameOK(frames[k]) /\ Ceiling(frames[k]) <= Base
    BY <1>2, TopFacts
  <2>3. frames[k].base \in Nat /\ Len(frames[k].env) \in Nat
    BY <2>2, PartFacts
  <2>4. frames[k].base + j \in 1..Base
    BY <1>1, <1>2, <2>1, <2>2, <2>3 DEF Ceiling
  <2>5. scopes[frames[k].base + j] = frames[k].env[j].vars
    BY <1>2, <2>1 DEF Agree
  <2> QED BY <2>1, <2>4, <2>5
<1> QED BY <1>1, <1>2 DEF Agree

LEMMA RecordedExact ==
  ASSUME Shape, frames # <<>>, Agree(frames, scopes), Liberties = {}, CapturesExact,
         NEW xs \in SUBSET Vars, \A x \in xs : Allowed(x)
  PROVE  \A m \in 1..Len(lambdas) :
           Recorded(xs)[m].all => Recorded(xs)[m].recorded = Recorded(xs)[m].needed
<1> SUFFICES ASSUME NEW m \in 1..Len(lambdas), Recorded(xs)[m].all
             PROVE  Recorded(xs)[m].recorded = Recorded(xs)[m].needed
  OBVIOUS
<1>1. LambdasOK(frames, lambdas, tracker)
  BY DEF Shape
<1>2. lambdas[m].all
  BY <1>1, RecordedFacts DEF SameLambdas
<1>3. {x \in xs : m = tracker /\ Outside(Found(x), m)} = {x \in xs : m \in Capturing(x)}
  BY <1>2, RecordsNeeded
<1>4. lambdas[m].recorded = lambdas[m].needed
  BY <1>2 DEF CapturesExact
<1>5. /\ Recorded(xs)[m].recorded = lambdas[m].recorded \cup {x \in xs : m = tracker /\ Outside(Found(x), m)}
      /\ Recorded(xs)[m].needed = lambdas[m].needed \cup {x \in xs : m \in Capturing(x)}
  BY <1>1, RecordedFacts
<1> QED BY <1>3, <1>4, <1>5

LEMMA InBodyFacts ==
  ASSUME Shape, InBody
  PROVE  /\ frames # <<>> /\ StackOK(frames) /\ Frame \in DeclFrame /\ FrameOK(Frame) /\ Frame.inside /\ Begun(Frame)
         /\ Env \in Seq(Level) /\ Env # <<>> /\ Len(Env) \in Nat \ {0} /\ Len(Env) \in 1..Len(Env) /\ Base \in Nat
         /\ scopes \in Seq(SUBSET Variable) /\ Len(scopes) = Base + Len(Env) /\ Len(scopes) \in 1..Len(scopes)
         /\ LambdasOK(frames, lambdas, tracker) /\ Height(frames) = Base + Len(Env)
<1>1. frames # <<>> /\ StackOK(frames) /\ Frame.inside /\ Part # "fields"
  BY DEF InBody, Shape
<1>2. /\ Frame \in DeclFrame /\ FrameOK(Frame) /\ Env = Frame.env /\ Part = PartOf(Frame) /\ Base \in Nat
      /\ Env \in Seq(Level) /\ Len(Env) \in Nat /\ Height(frames) = Base + Len(Env)
  BY <1>1, TopFacts
<1>3. Begun(Frame) /\ Env # <<>>
  BY <1>1, <1>2 DEF FrameOK, Begun
<1>4. Len(Env) \in Nat \ {0} /\ Len(Env) \in 1..Len(Env)
  BY <1>2, <1>3
<1>5. scopes \in Seq(SUBSET Variable) /\ Len(scopes) = Base + Len(Env) /\ LambdasOK(frames, lambdas, tracker)
  BY <1>2 DEF Shape, ScopesOK
<1> QED BY <1>1, <1>2, <1>3, <1>4, <1>5

LEMMA DeclareInv == IInv /\ Declare => IInv'
<1> SUFFICES ASSUME IInv, Declare PROVE IInv'
  OBVIOUS
<1>1. PICK x \in Vars, kind \in {"plain", "const", "squib"} :
        /\ InBody /\ Event([op |-> "declare", var |-> x, kind |-> kind])
        /\ LET n == Len(scopes)
               m == Len(Env)
           IN  /\ scopes' = IF Named(x, scopes[n]) THEN scopes ELSE [scopes EXCEPT ![n] = @ \cup {Fresh(x, kind)}]
               /\ Going(IF Named(x, Env[m].vars) THEN Env ELSE [Env EXCEPT ![m].vars = @ \cup {Fresh(x, kind)}])
               /\ agreed' = (Named(x, scopes[n]) = Named(x, Env[m].vars))
        /\ UNCHANGED <<program, currentClass, currentNs, lambdas, tracker>>
  BY DEF Declare
<1> DEFINE e == [op |-> "declare", var |-> x, kind |-> kind]
           n == Len(scopes)
           m == Len(Env)
           ws == scopes[n] \cup {Fresh(x, kind)}
           vs == Env[m].vars \cup {Fresh(x, kind)}
           env == IF Named(x, Env[m].vars) THEN Env ELSE [Env EXCEPT ![m].vars = vs]
<1>2. /\ frames # <<>> /\ StackOK(frames) /\ m \in Nat \ {0} /\ m \in 1..m /\ Env \in Seq(Level) /\ Base \in Nat
      /\ scopes \in Seq(SUBSET Variable) /\ n = Base + m /\ n \in 1..n
      /\ LambdasOK(frames, lambdas, tracker)
  BY <1>1, InBodyFacts DEF IInv
<1>3. e \in EventSet
  BY DEF EventSet
<1>4. ws \in SUBSET Variable /\ vs \in SUBSET Variable
  <2>1. Fresh(x, kind) \in Variable
    BY DEF Fresh, Variable
  <2>2. Env[m] \in Level /\ scopes[n] \in SUBSET Variable
    BY <1>2
  <2> QED BY <2>1, <2>2 DEF Level
<1>5. scopes' = (IF Named(x, scopes[n]) THEN scopes ELSE [scopes EXCEPT ![n] = ws]) /\ Going(env)
  BY <1>1
<1> HIDE DEF ws, vs
<1>6. /\ env \in Seq(Level) /\ SameKinds(env)
      /\ \A j \in 1..m : env[j].vars = IF j = m /\ ~Named(x, Env[m].vars) THEN vs ELSE Env[j].vars
  <2>1. CASE Named(x, Env[m].vars)
    <3>1. env = Env
      BY <2>1
    <3> QED BY <1>2, <2>1, <3>1 DEF SameKinds
  <2>2. CASE ~Named(x, Env[m].vars)
    <3>1. Changed(env, m, vs)
      BY <2>2 DEF Changed
    <3> HIDE DEF env
    <3>2. /\ env \in Seq(Level) /\ SameKinds(env) /\ env[m].vars = vs
          /\ \A k \in 1..Len(Env) : k # m => env[k] = Env[k]
      <4>1. OneChanged(env, m, vs)
        BY <1>2, <1>4, <3>1, LevelChanged
      <4> QED BY <4>1 DEF OneChanged
    <3> QED BY <2>2, <3>2
  <2> QED BY <2>1, <2>2
<1>7. /\ scopes' \in Seq(SUBSET Variable) /\ Len(scopes') = n
      /\ \A k \in 1..n : scopes'[k] = IF k = n /\ ~Named(x, scopes[n]) THEN ws ELSE scopes[k]
  <2>1. CASE Named(x, scopes[n])
    BY <1>2, <1>5, <2>1
  <2>2. CASE ~Named(x, scopes[n])
    <3>1. scopes' = [scopes EXCEPT ![n] = ws]
      BY <1>5, <2>2
    <3>2. /\ scopes' \in Seq(SUBSET Variable) /\ Len(scopes') = Len(scopes) /\ scopes'[n] = ws
          /\ \A k \in 1..Len(scopes) : k # n => scopes'[k] = scopes[k]
      <4>1. scopes \in Seq(SUBSET Variable) /\ n \in 1..Len(scopes) /\ ws \in SUBSET Variable
        BY <1>2, <1>4
      <4> HIDE DEF ws, n
      <4> QED BY <3>1, <4>1, ScopeChanged
    <3> QED BY <2>2, <3>2
  <2> QED BY <2>1, <2>2
<1> HIDE DEF env
<1>8. SameLambdas(lambdas') /\ tracker' = tracker /\ UNCHANGED <<program, currentNs>>
  BY <1>1, <1>2 DEF SameLambdas, LambdasOK
<1>9. /\ Shape'
      /\ \A c : ClassOK(bodies, frames, c) => ClassOK(bodies', frames', c)
      /\ \E g : SamePart(g) /\ g.env = env /\ Turned(frames', g)
  <2>1. Shape /\ Event(e)
    BY <1>1 DEF IInv
  <2> HIDE DEF e
  <2> QED BY <1>3, <1>5, <1>6, <1>7, <1>8, <2>1, QuietStep
<1>10. ASSUME Liberties = {} PROVE Lexical'
  <2>1. Lexical
    BY <1>10 DEF IInv
  <2>2. scopes[n] = Env[m].vars /\ ws = vs
    <3>1. Frame = frames[Len(frames)] /\ Len(frames) \in 1..Len(frames) /\ Env = Frame.env /\ Base = Frame.base
      BY <1>2, TopFacts
    <3>2. \A j \in 1..Len(Env) : scopes[Base + j] = Env[j].vars
      BY <2>1, <3>1 DEF Lexical, Agree
    <3>3. scopes[n] = Env[m].vars
      BY <1>2, <3>2
    <3> QED BY <3>3 DEF ws, vs
  <2>3. PICK g : SamePart(g) /\ g.env = env /\ Turned(frames', g)
    BY <1>9
  <2>4. Agree(frames', scopes')
    <3>1. \A p \in 1..Base : scopes'[p] = scopes[p]
      BY <1>2, <1>7
    <3>2. \A j \in 1..m : scopes[Base + j] = Env[j].vars
      <4>1. Frame = frames[Len(frames)] /\ Len(frames) \in 1..Len(frames) /\ Env = Frame.env /\ Base = Frame.base
        BY <1>2, TopFacts
      <4> QED BY <2>1, <4>1 DEF Lexical, Agree
    <3>3. \A j \in 1..m : scopes'[Base + j] = env[j].vars
      <4> SUFFICES ASSUME NEW j \in 1..m PROVE scopes'[Base + j] = env[j].vars
        OBVIOUS
      <4>1. Base + j \in 1..n /\ (Base + j = n <=> j = m)
        BY <1>2
      <4> QED BY <1>6, <1>7, <2>2, <3>2, <4>1
    <3>4. Len(env) = m
      BY <1>6 DEF SameKinds
    <3> QED BY <1>2, <2>1, <2>3, <3>1, <3>3, <3>4, AgreeTurned DEF Lexical, SamePart
  <2>5. agreed' /\ ClassOK(bodies', frames', currentClass') /\ CapturesExact'
    BY <1>1, <1>9, <2>1, <2>2 DEF Lexical, CapturesExact
  <2> QED BY <2>4, <2>5 DEF Lexical
<1> QED BY <1>9, <1>10 DEF IInv

LEMMA UsedVars == ASSUME NEW vs \in SUBSET Variable, NEW x PROVE Used(vs, x) \in SUBSET Variable
<1>1. \A v \in vs : v \in Variable /\ [v EXCEPT !.used = TRUE] \in Variable
  BY DEF Variable
<1> QED BY <1>1 DEF Used

LEMMA UseInv == IInv /\ Use => IInv'
<1> SUFFICES ASSUME IInv, Use PROVE IInv'
  OBVIOUS
<1>1. PICK x \in Vars, assigned \in BOOLEAN :
        /\ InBody /\ Allowed(x)
        /\ Event([op |-> "use", var |-> x, assigned |-> assigned])
        /\ LET i == Found(x)
               j == Meant(x)
               refused(vs) == Refused(VarIn(vs, x), assigned)
           IN  /\ scopes' = IF i = 0 THEN scopes ELSE [scopes EXCEPT ![i] = Used(@, x)]
               /\ Going(IF j = 0 THEN Env ELSE [Env EXCEPT ![j].vars = Used(@, x)])
               /\ agreed' = (i = Place(j) /\ (i = 0 \/ refused(scopes[i]) = refused(Env[j].vars)))
        /\ lambdas' = Recorded({x})
        /\ UNCHANGED <<program, currentClass, currentNs, tracker>>
  BY DEF Use
<1> DEFINE e == [op |-> "use", var |-> x, assigned |-> assigned]
           n == Len(scopes)
           m == Len(Env)
           i == Found(x)
           j == Meant(x)
           refused(vs) == Refused(VarIn(vs, x), assigned)
           env == IF j = 0 THEN Env ELSE [Env EXCEPT ![j].vars = Used(Env[j].vars, x)]
<1>2. /\ frames # <<>> /\ StackOK(frames) /\ m \in Nat \ {0} /\ m \in 1..m /\ Env \in Seq(Level) /\ Base \in Nat
      /\ scopes \in Seq(SUBSET Variable) /\ n = Base + m /\ n \in 1..n
      /\ LambdasOK(frames, lambdas, tracker)
  BY <1>1, InBodyFacts DEF IInv
<1>3. e \in EventSet
  BY DEF EventSet
<1>4. i \in 0..n /\ j \in 0..m
  BY <1>2, FoundFacts, MeantFacts
<1>5. /\ scopes' = (IF i = 0 THEN scopes ELSE [scopes EXCEPT ![i] = Used(scopes[i], x)])
      /\ Going(env)
      /\ agreed' = (i = Place(j) /\ (i = 0 \/ refused(scopes[i]) = refused(Env[j].vars)))
  BY <1>1
<1> HIDE DEF i, j
<1>6. /\ env \in Seq(Level) /\ SameKinds(env)
      /\ \A l \in 1..m : env[l].vars = IF l = j THEN Used(Env[l].vars, x) ELSE Env[l].vars
  <2>1. CASE j = 0
    <3>1. env = Env
      BY <2>1
    <3> QED BY <1>2, <2>1, <3>1 DEF SameKinds
  <2>2. CASE j # 0
    <3> DEFINE vs == Used(Env[j].vars, x)
    <3>1. Changed(env, j, vs)
      BY <2>2 DEF Changed
    <3>2. j \in 1..Len(Env) /\ vs \in SUBSET Variable
      <4>1. j \in 1..Len(Env)
        BY <1>2, <1>4, <2>2
      <4>2. Env[j] \in Level
        BY <1>2, <4>1
      <4>3. Env[j].vars \in SUBSET Variable
        BY <4>2 DEF Level
      <4> QED BY <4>1, <4>3, UsedVars
    <3> HIDE DEF env, vs
    <3>3. /\ env \in Seq(Level) /\ SameKinds(env) /\ env[j].vars = vs
          /\ \A k \in 1..Len(Env) : k # j => env[k] = Env[k]
      <4>1. Env \in Seq(Level)
        BY <1>2
      <4>2. OneChanged(env, j, vs)
        BY <3>1, <3>2, <4>1, LevelChanged
      <4> QED BY <4>2 DEF OneChanged
    <3> QED BY <3>3 DEF vs
  <2> QED BY <2>1, <2>2
<1>7. /\ scopes' \in Seq(SUBSET Variable) /\ Len(scopes') = n
      /\ \A k \in 1..n : scopes'[k] = IF k = i THEN Used(scopes[k], x) ELSE scopes[k]
  <2>1. CASE i = 0
    BY <1>2, <1>5, <2>1
  <2>2. CASE i # 0
    <3> DEFINE us == Used(scopes[i], x)
    <3>1. scopes' = [scopes EXCEPT ![i] = us]
      BY <1>5, <2>2
    <3>2. i \in 1..Len(scopes) /\ us \in SUBSET Variable
      <4>1. i \in 1..Len(scopes) /\ scopes[i] \in SUBSET Variable
        BY <1>2, <1>4, <2>2
      <4> QED BY <4>1, UsedVars
    <3> HIDE DEF us
    <3>3. /\ scopes' \in Seq(SUBSET Variable) /\ Len(scopes') = Len(scopes) /\ scopes'[i] = us
          /\ \A k \in 1..Len(scopes) : k # i => scopes'[k] = scopes[k]
      BY <1>2, <3>1, <3>2, ScopeChanged
    <3> QED BY <3>3 DEF us
  <2> QED BY <2>1, <2>2
<1> HIDE DEF env
<1>8. SameLambdas(lambdas') /\ tracker' = tracker /\ UNCHANGED <<program, currentNs>>
  BY <1>1, <1>2, RecordedFacts
<1>9. /\ Shape'
      /\ \A c : ClassOK(bodies, frames, c) => ClassOK(bodies', frames', c)
      /\ \E g : SamePart(g) /\ g.env = env /\ Turned(frames', g)
  <2>1. Shape /\ Event(e)
    BY <1>1 DEF IInv
  <2> HIDE DEF e
  <2> QED BY <1>3, <1>5, <1>6, <1>7, <1>8, <2>1, QuietStep
<1>10. ASSUME Liberties = {} PROVE Lexical'
  <2>1. Lexical
    BY <1>10 DEF IInv
  <2>2. /\ i = Place(j)
        /\ j # 0 => i = Base + j /\ scopes[i] = Env[j].vars
    BY <1>1, <1>2, <1>10, <2>1, FoundIsMeant DEF IInv, Lexical, i, j
  <2>3. PICK g : SamePart(g) /\ g.env = env /\ Turned(frames', g)
    BY <1>9
  <2>4. Agree(frames', scopes')
    <3>1. \A p \in 1..Base : scopes'[p] = scopes[p]
      BY <1>2, <1>4, <1>7, <2>2 DEF Place
    <3>2. \A l \in 1..m : scopes[Base + l] = Env[l].vars
      <4>1. Frame = frames[Len(frames)] /\ Len(frames) \in 1..Len(frames) /\ Env = Frame.env /\ Base = Frame.base
        BY <1>2, TopFacts
      <4> QED BY <2>1, <4>1 DEF Lexical, Agree
    <3>3. \A l \in 1..m : scopes'[Base + l] = env[l].vars
      <4> SUFFICES ASSUME NEW l \in 1..m PROVE scopes'[Base + l] = env[l].vars
        OBVIOUS
      <4>1. Base + l \in 1..n /\ (Base + l = i <=> l = j)
        BY <1>2, <1>4, <2>2 DEF Place
      <4> QED BY <1>6, <1>7, <3>2, <4>1
    <3>4. Len(env) = m
      BY <1>6 DEF SameKinds
    <3>5. /\ g.base = Frame.base /\ Turned(frames', g) /\ Agree(frames, scopes)
          /\ \A l \in 1..Len(g.env) : scopes'[Base + l] = g.env[l].vars
      BY <2>1, <2>3, <3>3, <3>4 DEF Lexical, SamePart
    <3> QED BY <1>2, <3>1, <3>5, AgreeTurned
  <2>5. agreed'
    <3>1. i = 0 \/ refused(scopes[i]) = refused(Env[j].vars)
      BY <2>2 DEF Place
    <3> QED BY <1>5, <2>2, <3>1
  <2>6. CapturesExact'
    <3>1. \A k \in 1..Len(lambdas) :
            Recorded({x})[k].all => Recorded({x})[k].recorded = Recorded({x})[k].needed
      <4>1. Shape /\ Agree(frames, scopes) /\ CapturesExact /\ {x} \in SUBSET Vars /\ \A y \in {x} : Allowed(y)
        BY <1>1, <2>1 DEF IInv, Lexical
      <4> QED BY <1>2, <1>10, <4>1, RecordedExact
    <3>2. Len(lambdas') = Len(lambdas) /\ lambdas' = Recorded({x})
      BY <1>1, <1>8 DEF SameLambdas
    <3> QED BY <3>1, <3>2 DEF CapturesExact
  <2>7. ClassOK(bodies', frames', currentClass')
    BY <1>1, <1>9, <2>1 DEF Lexical
  <2> QED BY <2>4, <2>5, <2>6, <2>7 DEF Lexical
<1> QED BY <1>9, <1>10 DEF IInv

(* this is the class of the declaration at hand, or none. *)
LEMMA ThisInv == IInv /\ This => IInv'
<1> SUFFICES ASSUME IInv, This PROVE IInv'
  OBVIOUS
<1> DEFINE e == [op |-> "this"]
<1>1. /\ InBody /\ Event(e) /\ Going(Env)
      /\ "this" \in Liberties \/ ("type" \notin Before /\ Head(Frame.decl) # "make")
      /\ agreed' = (currentClass = IF IsClass(Frame.decl) THEN Frame.decl ELSE none)
      /\ UNCHANGED <<program, scopes, currentClass, currentNs, lambdas, tracker>>
  BY DEF This
<1>2. /\ frames # <<>> /\ StackOK(frames) /\ Env \in Seq(Level) /\ Base \in Nat
      /\ Frame \in DeclFrame /\ FrameOK(Frame) /\ Frame.inside /\ Begun(Frame)
      /\ scopes \in Seq(SUBSET Variable) /\ LambdasOK(frames, lambdas, tracker)
  BY <1>1, InBodyFacts DEF IInv
<1>3. e \in EventSet
  BY DEF EventSet
<1>4. SameKinds(Env) /\ SameLambdas(lambdas') /\ scopes' \in Seq(SUBSET Variable) /\ Len(scopes') = Len(scopes)
      /\ tracker' = tracker /\ UNCHANGED <<program, currentNs>>
  BY <1>1, <1>2 DEF SameKinds, SameLambdas, LambdasOK
<1>5. /\ Shape'
      /\ \A c : ClassOK(bodies, frames, c) => ClassOK(bodies', frames', c)
      /\ \E g : SamePart(g) /\ g.env = Env /\ Turned(frames', g)
  <2>1. Shape
    BY DEF IInv
  <2> HIDE DEF e
  <2> QED BY <1>1, <1>2, <1>3, <1>4, <2>1, QuietStep
<1>6. ASSUME Liberties = {} PROVE Lexical'
  <2>1. Lexical
    BY <1>6 DEF IInv
  <2>2. PICK g : SamePart(g) /\ g.env = Env /\ Turned(frames', g)
    BY <1>5
  <2> DEFINE n == Len(frames)
  <2>3. /\ n \in 1..n /\ n \in Nat /\ Frame = frames[n] /\ Key = KeyOf(Frame)
        /\ Env = Frame.env /\ Base = Frame.base
        /\ n # 1 => IsInstance(Frame.decl)
    BY <1>2, TopFacts
  <2>4. Agree(frames', scopes')
    <3>1. \A l \in 1..Len(Env) : scopes'[Base + l] = Env[l].vars
      BY <1>1, <2>1, <2>3 DEF Lexical, Agree
    <3>2. \A p \in 1..Base : scopes'[p] = scopes[p]
      BY <1>1
    <3> QED BY <1>2, <2>1, <2>2, <3>1, <3>2, AgreeTurned DEF Lexical, SamePart
  <2>5. agreed'
    <3>1. "type" \notin OpsIn(bodies, Frame) /\ Head(Frame.decl) # "make"
      BY <1>1, <1>6, <2>3 DEF Before, OpsIn, Body
    <3>2. CASE IsClass(Frame.decl)
      BY <1>1, <1>2, <2>1, <2>3, <3>1, <3>2 DEF Lexical, ClassOK
    <3>3. CASE ~IsClass(Frame.decl)
      <4>1. ~IsInstance(Frame.decl)
        <5>1. Frame.decl \in Declarations
          BY <1>2, PartFacts
        <5> QED BY <3>1, <3>3, <5>1, DeclFacts
      <4>2. n = 1
        BY <2>3, <4>1
      <4>3. \A k \in 1..n : ~IsClass(frames[k].decl)
        BY <2>3, <3>3, <4>2
      <4> QED BY <1>1, <2>1, <3>3, <4>3 DEF Lexical, ClassOK
    <3> QED BY <3>2, <3>3
  <2>6. ClassOK(bodies', frames', currentClass') /\ CapturesExact'
    BY <1>1, <1>5, <2>1 DEF Lexical, CapturesExact
  <2> QED BY <2>4, <2>5, <2>6 DEF Lexical
<1> QED BY <1>5, <1>6 DEF IInv

-----------------------------------------------------------------------------
(* Blocks and lambdas: a level more, or one less. *)

(* A level of a lambda is one of the scopes. *)
LEMMA LambdaBound ==
  ASSUME StackOK(frames), frames # <<>>, NEW p, LambdaAt(frames, p)
  PROVE  p \in Nat /\ 1 <= p /\ p <= Height(frames)
<1> DEFINE n == Len(frames)
<1>1. PICK k \in 1..n : \E j \in 1..Len(frames[k].env) : p = frames[k].base + j
  BY DEF LambdaAt
<1>2. PICK j \in 1..Len(frames[k].env) : p = frames[k].base + j
  BY <1>1
<1>3. /\ frames[k] \in DeclFrame /\ FrameOK(frames[k]) /\ (k # n => Ceiling(frames[k]) <= Base)
      /\ Base \in Nat /\ Len(Env) \in Nat /\ Height(frames) = Base + Len(Env)
      /\ (k = n => frames[k].base = Base /\ frames[k].env = Env)
  BY TopFacts
<1>4. frames[k].base \in Nat /\ Len(frames[k].env) \in Nat
  BY <1>3, PartFacts
<1>5. CASE k = n
  BY <1>2, <1>3, <1>4, <1>5
<1>6. CASE k # n
  <2>1. frames[k].base + Len(frames[k].env) <= Base
    BY <1>3, <1>6 DEF Ceiling
  <2> QED BY <1>2, <1>3, <1>4, <2>1
<1> QED BY <1>5, <1>6

(* Levels that both environments have are of lambdas in both or in none. *)
LEMMA CommonLevels ==
  ASSUME StackOK(frames), frames # <<>>, NEW g, g.base = Frame.base, NEW F, Turned(F, g),
         NEW c \in Nat, c <= Len(Env), c <= Len(g.env), Len(g.env) \in Nat,
         \A j \in 1..c : g.env[j].kind = Env[j].kind,
         NEW p \in Nat
  PROVE  /\ p <= Base + c => (LambdaAt(F, p) <=> LambdaAt(frames, p))
         /\ \A j \in 1..Len(g.env) : p = Base + j => (LambdaAt(F, p) <=> IsLambda(g.env[j]))
<1>1. Base \in Nat /\ Len(Env) \in Nat /\ g.base = Base
  BY TopFacts
<1>2. /\ p <= Base => (LambdaAt(frames, p) <=> LambdaAt(F, p))
      /\ LambdaAt(F, p) /\ p > Base => \E j \in 1..Len(g.env) : p = Base + j /\ IsLambda(g.env[j])
      /\ \A j \in 1..Len(g.env) : IsLambda(g.env[j]) => LambdaAt(F, Base + j)
  BY TurnedLambdaLevels
<1>3. /\ LambdaAt(frames, p) /\ p > Base => \E j \in 1..Len(Env) : p = Base + j /\ IsLambda(Env[j])
      /\ \A j \in 1..Len(Env) : IsLambda(Env[j]) => LambdaAt(frames, Base + j)
  BY LambdaLevels
<1>4. \A j \in 1..c : IsLambda(g.env[j]) <=> IsLambda(Env[j])
  BY DEF IsLambda
<1>5. ASSUME p <= Base + c, p > Base PROVE LambdaAt(F, p) <=> LambdaAt(frames, p)
  <2>1. LambdaAt(F, p) => LambdaAt(frames, p)
    <3> SUFFICES ASSUME LambdaAt(F, p) PROVE LambdaAt(frames, p)
      OBVIOUS
    <3>1. PICK j \in 1..Len(g.env) : p = Base + j /\ IsLambda(g.env[j])
      BY <1>2, <1>5
    <3>2. j \in 1..c /\ j \in 1..Len(Env)
      BY <1>1, <1>5, <3>1
    <3> QED BY <1>3, <1>4, <3>1, <3>2
  <2>2. LambdaAt(frames, p) => LambdaAt(F, p)
    <3> SUFFICES ASSUME LambdaAt(frames, p) PROVE LambdaAt(F, p)
      OBVIOUS
    <3>1. PICK j \in 1..Len(Env) : p = Base + j /\ IsLambda(Env[j])
      BY <1>3, <1>5
    <3>2. j \in 1..c /\ j \in 1..Len(g.env)
      BY <1>1, <1>5, <3>1
    <3> QED BY <1>2, <1>4, <3>1, <3>2
  <2> QED BY <2>1, <2>2
<1>6. ASSUME NEW j \in 1..Len(g.env), p = Base + j PROVE LambdaAt(F, p) <=> IsLambda(g.env[j])
  <2>1. IsLambda(g.env[j]) => LambdaAt(F, p)
    BY <1>2, <1>6
  <2>2. ASSUME LambdaAt(F, p) PROVE IsLambda(g.env[j])
    <3>1. PICK i \in 1..Len(g.env) : p = Base + i /\ IsLambda(g.env[i])
      BY <1>1, <1>2, <1>6, <2>2
    <3>2. i = j
      BY <1>1, <1>6, <3>1
    <3> QED BY <3>1, <3>2
  <2> QED BY <2>1, <2>2
<1>7. p <= Base \/ p > Base
  BY <1>1
<1> QED BY <1>2, <1>5, <1>6, <1>7

(* The lambdas ls are those that there were, as far as levels go. *)
LEMMA DepthFacts ==
  ASSUME StackOK(frames), frames # <<>>, LambdasOK(frames, lambdas, tracker), NEW ls, SameLambdas(ls)
  PROVE  /\ ls \in Seq(LambdaState) /\ Len(ls) \in Nat /\ Len(ls) = Len(lambdas)
         /\ \A m \in 1..Len(ls) : /\ ls[m] \in LambdaState /\ ls[m].depth \in 1..Height(frames)
                                  /\ LambdaAt(frames, ls[m].depth)
                                  /\ Innermost(ls, m - 1, ls[m].saved)
         /\ \A p \in 1..Height(frames) : LambdaAt(frames, p) => \E m \in 1..Len(ls) : ls[m].depth = p
         /\ \A m, n \in 1..Len(ls) : m < n => ls[m].depth < ls[n].depth
         /\ Innermost(ls, Len(ls), tracker)
<1>1. /\ ls \in Seq(LambdaState) /\ Len(ls) \in Nat /\ Len(ls) = Len(lambdas)
      /\ \A m \in 1..Len(ls) : ls[m] \in LambdaState
  BY DEF SameLambdas
<1>2. /\ \A m \in 1..Len(ls) : LambdaAt(frames, ls[m].depth)
      /\ \A p \in 1..Height(frames) : LambdaAt(frames, p) => \E m \in 1..Len(ls) : ls[m].depth = p
      /\ \A m, n \in 1..Len(ls) : m < n => ls[m].depth < ls[n].depth
  BY DEF SameLambdas, LambdasOK
<1>3. \A m \in 1..Len(ls) : ls[m].depth \in 1..Height(frames)
  <2> SUFFICES ASSUME NEW m \in 1..Len(ls) PROVE ls[m].depth \in 1..Height(frames)
    OBVIOUS
  <2> DEFINE p == ls[m].depth
  <2>1. LambdaAt(frames, p)
    BY <1>2
  <2> HIDE DEF p
  <2>2. p \in Nat /\ 1 <= p /\ p <= Height(frames)
    BY <2>1, LambdaBound
  <2>3. Height(frames) \in Nat
    BY TopFacts
  <2> QED BY <2>2, <2>3 DEF p
<1>4. ASSUME NEW n \in 0..Len(ls), NEW t, Innermost(lambdas, n, t) PROVE Innermost(ls, n, t)
  BY <1>1, <1>4 DEF SameLambdas, Innermost
<1>5. Innermost(ls, Len(ls), tracker)
  BY <1>1, <1>4 DEF LambdasOK
<1>6. ASSUME NEW m \in 1..Len(ls) PROVE Innermost(ls, m - 1, ls[m].saved)
  <2>1. m - 1 \in 0..Len(ls) /\ Innermost(lambdas, m - 1, lambdas[m].saved) /\ ls[m].saved = lambdas[m].saved
    BY <1>1 DEF LambdasOK, SameLambdas
  <2> QED BY <1>4, <2>1
<1> QED BY <1>1, <1>2, <1>3, <1>5, <1>6

(* The last frame has a level more, or one less. *)
Pushed(g, level) == g.base = Frame.base /\ g.env = Append(Env, level)
Popped(g) == g.base = Frame.base /\ g.env = Front(Env)

LEMMA PushedLevels ==
  ASSUME StackOK(frames), frames # <<>>, NEW level \in Level, NEW g, Pushed(g, level), NEW F, Turned(F, g),
         NEW p \in Nat
  PROVE  /\ p <= Height(frames) => (LambdaAt(F, p) <=> LambdaAt(frames, p))
         /\ p = Height(frames) + 1 => (LambdaAt(F, p) <=> IsLambda(level))
<1>1. Env \in Seq(Level) /\ Len(Env) \in Nat /\ Base \in Nat /\ Height(frames) = Base + Len(Env)
  BY TopFacts
<1>2. /\ Len(g.env) = Len(Env) + 1 /\ g.env[Len(Env) + 1] = level /\ g.base = Frame.base
      /\ \A j \in 1..Len(Env) : g.env[j] = Env[j]
  BY <1>1, AppendProperties DEF Pushed
<1> DEFINE c == Len(Env)
<1>3. c \in Nat /\ c <= Len(Env) /\ c <= Len(g.env) /\ Len(g.env) \in Nat /\ c + 1 \in 1..Len(g.env)
      /\ \A j \in 1..c : g.env[j].kind = Env[j].kind
  BY <1>1, <1>2
<1> HIDE DEF c
<1>4. /\ p <= Base + c => (LambdaAt(F, p) <=> LambdaAt(frames, p))
      /\ \A j \in 1..Len(g.env) : p = Base + j => (LambdaAt(F, p) <=> IsLambda(g.env[j]))
  BY <1>2, <1>3, CommonLevels
<1>5. p = Base + (c + 1) => (LambdaAt(F, p) <=> IsLambda(g.env[c + 1]))
  BY <1>3, <1>4
<1> QED BY <1>1, <1>2, <1>3, <1>4, <1>5 DEF c

LEMMA PushedBlock ==
  ASSUME StackOK(frames), frames # <<>>, LambdasOK(frames, lambdas, tracker),
         NEW level \in Level, ~IsLambda(level), NEW g, Pushed(g, level), NEW F, Turned(F, g),
         Height(F) = Height(frames) + 1, NEW ls, SameLambdas(ls)
  PROVE  LambdasOK(F, ls, tracker)
<1> DEFINE h == Height(frames)
<1>1. h \in Nat
  BY TopFacts
<1>2. /\ ls \in Seq(LambdaState) /\ Len(ls) \in Nat
      /\ \A m \in 1..Len(ls) : ls[m].depth \in 1..h /\ LambdaAt(frames, ls[m].depth) /\ Innermost(ls, m - 1, ls[m].saved)
      /\ \A p \in 1..h : LambdaAt(frames, p) => \E m \in 1..Len(ls) : ls[m].depth = p
      /\ \A m, n \in 1..Len(ls) : m < n => ls[m].depth < ls[n].depth
      /\ Innermost(ls, Len(ls), tracker)
  BY DepthFacts
<1>3. \A p \in 1..h : LambdaAt(F, p) <=> LambdaAt(frames, p)
  BY <1>1, PushedLevels
<1>4. ~LambdaAt(F, h + 1)
  BY <1>1, PushedLevels
<1> HIDE DEF h
<1>5. \A m \in 1..Len(ls) : LambdaAt(F, ls[m].depth)
  BY <1>2, <1>3
<1>6. \A p \in 1..Height(F) : LambdaAt(F, p) => \E m \in 1..Len(ls) : ls[m].depth = p
  <2>1. \A p \in 1..Height(F) : p \in 1..h \/ p = h + 1
    BY <1>1 DEF h
  <2> QED BY <1>2, <1>3, <1>4, <2>1
<1> QED BY <1>2, <1>5, <1>6 DEF LambdasOK

LEMMA PushedLambda ==
  ASSUME StackOK(frames), frames # <<>>, LambdasOK(frames, lambdas, tracker),
         NEW level \in Level, IsLambda(level), NEW g, Pushed(g, level), NEW F, Turned(F, g),
         Height(F) = Height(frames) + 1, NEW ks, SameLambdas(ks),
         NEW l \in LambdaState, l.depth = Height(frames) + 1, l.saved = tracker,
         NEW ls, ls = Append(ks, l), NEW t, t = IF l.all THEN Len(ls) ELSE tracker
  PROVE  LambdasOK(F, ls, t)
<1> DEFINE h == Height(frames)
           L == Len(ks)
<1>1. h \in Nat
  BY TopFacts
<1>2. /\ ks \in Seq(LambdaState) /\ L \in Nat
      /\ \A m \in 1..L : ks[m].depth \in 1..h /\ LambdaAt(frames, ks[m].depth) /\ Innermost(ks, m - 1, ks[m].saved)
      /\ \A p \in 1..h : LambdaAt(frames, p) => \E m \in 1..L : ks[m].depth = p
      /\ \A m, n \in 1..L : m < n => ks[m].depth < ks[n].depth
      /\ Innermost(ks, L, tracker)
  BY DepthFacts
<1>3. \A p \in 1..h : LambdaAt(F, p) <=> LambdaAt(frames, p)
  BY <1>1, PushedLevels
<1>4. LambdaAt(F, h + 1)
  BY <1>1, PushedLevels
<1>5. ls \in Seq(LambdaState) /\ Len(ls) = L + 1 /\ ls[L + 1] = l /\ \A m \in 1..L : ls[m] = ks[m]
  BY <1>2, AppendProperties
<1>6. l.depth = h + 1 /\ Height(F) = h + 1
  OBVIOUS
<1> HIDE DEF h, L
<1>7. \A m \in 1..Len(ls) : m \in 1..L \/ m = L + 1
  BY <1>2, <1>5
<1>8. \A m \in 1..Len(ls) : LambdaAt(F, ls[m].depth)
  BY <1>2, <1>3, <1>4, <1>5, <1>6, <1>7
<1>9. \A p \in 1..Height(F) : LambdaAt(F, p) => \E m \in 1..Len(ls) : ls[m].depth = p
  <2> SUFFICES ASSUME NEW p \in 1..Height(F), LambdaAt(F, p) PROVE \E m \in 1..Len(ls) : ls[m].depth = p
    OBVIOUS
  <2>1. CASE p \in 1..h
    <3>1. PICK m \in 1..L : ks[m].depth = p
      BY <1>2, <1>3, <2>1
    <3>2. m \in 1..Len(ls) /\ ls[m].depth = p
      BY <1>2, <1>5, <3>1
    <3> QED BY <3>2
  <2>2. CASE p = h + 1
    <3>1. L + 1 \in 1..Len(ls) /\ ls[L + 1].depth = p
      BY <1>2, <1>5, <1>6, <2>2
    <3> QED BY <3>1
  <2> QED BY <1>1, <1>6, <2>1, <2>2
<1>10. \A m, n \in 1..Len(ls) : m < n => ls[m].depth < ls[n].depth
  <2> SUFFICES ASSUME NEW m \in 1..Len(ls), NEW n \in 1..Len(ls), m < n PROVE ls[m].depth < ls[n].depth
    OBVIOUS
  <2>1. m \in 1..L
    BY <1>2, <1>5
  <2>2. CASE n \in 1..L
    BY <1>2, <1>5, <2>1, <2>2
  <2>3. CASE n = L + 1
    <3>1. ks[m].depth \in 1..h
      BY <1>2, <2>1
    <3> QED BY <1>1, <1>5, <1>6, <2>1, <2>3, <3>1
  <2> QED BY <1>7, <2>2, <2>3
<1>11. ASSUME NEW n \in 0..L, NEW s, Innermost(ks, n, s) PROVE Innermost(ls, n, s)
  BY <1>2, <1>5, <1>11 DEF Innermost
<1>12. Innermost(ls, Len(ls), t)
  <2>1. CASE l.all
    <3>1. t = L + 1
      BY <1>5, <2>1
    <3> QED BY <1>2, <1>5, <2>1, <3>1 DEF Innermost
  <2>2. CASE ~l.all
    <3>1. t = tracker /\ Innermost(ls, L, tracker) /\ L \in 0..L
      BY <1>2, <1>11, <2>2
    <3> QED BY <1>2, <1>5, <1>7, <2>2, <3>1 DEF Innermost
  <2> QED BY <2>1, <2>2
<1>13. \A m \in 1..Len(ls) : Innermost(ls, m - 1, ls[m].saved)
  <2> SUFFICES ASSUME NEW m \in 1..Len(ls) PROVE Innermost(ls, m - 1, ls[m].saved)
    OBVIOUS
  <2>1. CASE m \in 1..L
    <3>1. m - 1 \in 0..L /\ Innermost(ks, m - 1, ks[m].saved) /\ ls[m] = ks[m]
      BY <1>2, <1>5, <2>1
    <3> QED BY <1>11, <3>1
  <2>2. CASE m = L + 1
    <3>1. m - 1 = L /\ L \in 0..L /\ ls[m].saved = tracker
      BY <1>2, <1>5, <2>2
    <3> QED BY <1>2, <1>11, <3>1
  <2> QED BY <1>7, <2>1, <2>2
<1> QED BY <1>5, <1>8, <1>9, <1>10, <1>12, <1>13 DEF LambdasOK

LEMMA PoppedLevels ==
  ASSUME StackOK(frames), frames # <<>>, Env # <<>>, NEW g, Popped(g), NEW F, Turned(F, g), NEW p \in Nat
  PROVE  /\ p <= Height(frames) - 1 => (LambdaAt(F, p) <=> LambdaAt(frames, p))
         /\ p = Height(frames) => (LambdaAt(frames, p) <=> IsLambda(Last(Env)))
<1> DEFINE n == Len(Env)
           c == n - 1
<1>1. Env \in Seq(Level) /\ n \in Nat \ {0} /\ Base \in Nat /\ Height(frames) = Base + n /\ Last(Env) = Env[n]
  BY TopFacts DEF Last
<1>2. g.base = Frame.base /\ g.env = Front(Env)
  BY DEF Popped
<1>3. Len(g.env) = n - 1 /\ \A j \in 1..(n - 1) : g.env[j] = Env[j]
  BY <1>1, <1>2, FrontFacts
<1>4. c \in Nat /\ c <= n /\ c <= Len(g.env) /\ Len(g.env) \in Nat /\ \A j \in 1..c : g.env[j].kind = Env[j].kind
  BY <1>1, <1>3
<1> HIDE DEF c
<1>5. p <= Base + c => (LambdaAt(F, p) <=> LambdaAt(frames, p))
  BY <1>2, <1>4, CommonLevels
<1>6. p = Base + n => (LambdaAt(frames, p) <=> IsLambda(Env[n]))
  <2>1. /\ LambdaAt(frames, p) /\ p > Base => \E j \in 1..n : p = Base + j /\ IsLambda(Env[j])
        /\ \A j \in 1..n : IsLambda(Env[j]) => LambdaAt(frames, Base + j)
    BY LambdaLevels
  <2> QED BY <1>1, <2>1
<1> QED BY <1>1, <1>5, <1>6 DEF c

LEMMA PoppedBlock ==
  ASSUME StackOK(frames), frames # <<>>, Env # <<>>, LambdasOK(frames, lambdas, tracker),
         ~IsLambda(Last(Env)), NEW g, Popped(g), NEW F, Turned(F, g), Height(F) = Height(frames) - 1
  PROVE  LambdasOK(F, lambdas, tracker)
<1> DEFINE h == Height(frames)
<1>1. h \in Nat
  BY TopFacts
<1>2. /\ lambdas \in Seq(LambdaState) /\ Len(lambdas) \in Nat
      /\ \A m \in 1..Len(lambdas) : lambdas[m].depth \in 1..h /\ LambdaAt(frames, lambdas[m].depth)
      /\ \A p \in 1..h : LambdaAt(frames, p) => \E m \in 1..Len(lambdas) : lambdas[m].depth = p
  <2>1. SameLambdas(lambdas)
    BY DEF SameLambdas, LambdasOK
  <2> QED BY <2>1, DepthFacts
<1>3. \A p \in 1..(h - 1) : LambdaAt(F, p) <=> LambdaAt(frames, p)
  BY <1>1, PoppedLevels
<1>4. ~LambdaAt(frames, h)
  BY <1>1, PoppedLevels
<1> HIDE DEF h
<1>5. \A m \in 1..Len(lambdas) : LambdaAt(F, lambdas[m].depth)
  <2> SUFFICES ASSUME NEW m \in 1..Len(lambdas) PROVE LambdaAt(F, lambdas[m].depth)
    OBVIOUS
  <2>1. lambdas[m].depth \in 1..h /\ lambdas[m].depth # h /\ LambdaAt(frames, lambdas[m].depth)
    BY <1>2, <1>4
  <2>2. lambdas[m].depth \in 1..(h - 1)
    BY <1>1, <2>1
  <2> QED BY <1>3, <2>1, <2>2
<1>6. \A p \in 1..Height(F) : LambdaAt(F, p) => \E m \in 1..Len(lambdas) : lambdas[m].depth = p
  <2>1. \A p \in 1..Height(F) : p \in 1..(h - 1) /\ p \in 1..h
    BY <1>1 DEF h
  <2> QED BY <1>2, <1>3, <2>1
<1> QED BY <1>5, <1>6 DEF LambdasOK

(* The last lambda is that of the last level. *)
LEMMA PoppedLambda ==
  ASSUME StackOK(frames), frames # <<>>, Env # <<>>, LambdasOK(frames, lambdas, tracker),
         IsLambda(Last(Env)), NEW g, Popped(g), NEW F, Turned(F, g), Height(F) = Height(frames) - 1
  PROVE  lambdas # <<>> /\ LambdasOK(F, Front(lambdas), Last(lambdas).saved)
<1> DEFINE h == Height(frames)
           L == Len(lambdas)
           ls == Front(lambdas)
<1>1. h \in Nat \ {0}
  BY TopFacts
<1>2. /\ lambdas \in Seq(LambdaState) /\ L \in Nat
      /\ \A m \in 1..L : lambdas[m].depth \in 1..h /\ LambdaAt(frames, lambdas[m].depth)
                         /\ Innermost(lambdas, m - 1, lambdas[m].saved)
      /\ \A p \in 1..h : LambdaAt(frames, p) => \E m \in 1..L : lambdas[m].depth = p
      /\ \A m, n \in 1..L : m < n => lambdas[m].depth < lambdas[n].depth
  <2>1. SameLambdas(lambdas)
    BY DEF SameLambdas, LambdasOK
  <2> QED BY <2>1, DepthFacts
<1>3. \A p \in 1..(h - 1) : LambdaAt(F, p) <=> LambdaAt(frames, p)
  BY <1>1, PoppedLevels
<1>4. LambdaAt(frames, h)
  BY <1>1, PoppedLevels
<1>5. Height(F) = h - 1
  OBVIOUS
<1> HIDE DEF h
<1>6. PICK m \in 1..L : lambdas[m].depth = h
  BY <1>1, <1>2, <1>4
<1>7. m = L /\ L \in 1..L /\ lambdas # <<>>
  <2>1. L \in 1..L
    BY <1>2
  <2>2. ~(m < L)
    <3>1. m < L => lambdas[m].depth < lambdas[L].depth /\ lambdas[L].depth \in 1..h
      BY <1>2, <2>1
    <3> QED BY <1>1, <1>6, <3>1
  <2> QED BY <1>2, <2>1, <2>2
<1>8. ls \in Seq(LambdaState) /\ Len(ls) = L - 1 /\ \A k \in 1..(L - 1) : ls[k] = lambdas[k]
  BY <1>2, <1>7, FrontFacts
<1> HIDE DEF ls
<1>9. \A k \in 1..Len(ls) : k \in 1..(L - 1) /\ k \in 1..L /\ k < L
  BY <1>2, <1>8
<1>10. \A k \in 1..Len(ls) : LambdaAt(F, ls[k].depth)
  <2> SUFFICES ASSUME NEW k \in 1..Len(ls) PROVE LambdaAt(F, ls[k].depth)
    OBVIOUS
  <2>1. lambdas[k].depth \in 1..h /\ lambdas[k].depth < h /\ LambdaAt(frames, lambdas[k].depth)
    BY <1>2, <1>6, <1>7, <1>9
  <2>2. lambdas[k].depth \in 1..(h - 1)
    BY <1>1, <2>1
  <2> QED BY <1>3, <1>8, <1>9, <2>1, <2>2
<1>11. \A p \in 1..Height(F) : LambdaAt(F, p) => \E k \in 1..Len(ls) : ls[k].depth = p
  <2> SUFFICES ASSUME NEW p \in 1..(h - 1), LambdaAt(F, p) PROVE \E k \in 1..Len(ls) : ls[k].depth = p
    BY <1>5
  <2>1. LambdaAt(frames, p) /\ p \in 1..h /\ p # h
    BY <1>1, <1>3
  <2>2. PICK k \in 1..L : lambdas[k].depth = p
    BY <1>2, <2>1
  <2>3. k \in 1..Len(ls) /\ k \in 1..(L - 1)
    BY <1>2, <1>6, <1>7, <1>8, <2>1, <2>2
  <2> QED BY <1>8, <2>2, <2>3
<1>12. \A k, n \in 1..Len(ls) : k < n => ls[k].depth < ls[n].depth
  BY <1>2, <1>8, <1>9
<1>13. ASSUME NEW n \in 0..(L - 1), NEW s, Innermost(lambdas, n, s) PROVE Innermost(ls, n, s)
  <2>1. /\ s \in 0..n /\ n \in Nat
        /\ s # 0 => lambdas[s].all
        /\ \A k \in 1..n : k > s => ~lambdas[k].all
    BY <1>2, <1>13 DEF Innermost
  <2>2. \A k \in 1..n : k \in 1..(L - 1) /\ ls[k] = lambdas[k]
    BY <1>2, <1>8
  <2>3. s # 0 => s \in 1..n
    BY <2>1
  <2> QED BY <2>1, <2>2, <2>3 DEF Innermost
<1>14. Innermost(ls, Len(ls), lambdas[L].saved)
  <2>1. L - 1 \in 0..(L - 1) /\ Innermost(lambdas, L - 1, lambdas[L].saved)
    BY <1>2, <1>7
  <2> QED BY <1>8, <1>13, <2>1
<1>15. \A k \in 1..Len(ls) : Innermost(ls, k - 1, ls[k].saved)
  <2> SUFFICES ASSUME NEW k \in 1..Len(ls) PROVE Innermost(ls, k - 1, ls[k].saved)
    OBVIOUS
  <2>1. k - 1 \in 0..(L - 1) /\ Innermost(lambdas, k - 1, lambdas[k].saved) /\ ls[k] = lambdas[k]
    <3>1. k \in 1..(L - 1) /\ k \in 1..L
      BY <1>9
    <3>2. k - 1 \in 0..(L - 1)
      BY <1>2, <3>1
    <3> QED BY <1>2, <1>8, <3>1, <3>2
  <2> QED BY <1>13, <2>1
<1>16. Last(lambdas) = lambdas[L]
  BY DEF Last
<1> QED BY <1>7, <1>8, <1>10, <1>11, <1>12, <1>14, <1>15, <1>16 DEF LambdasOK, ls

(* A body that goes on with other levels. *)
LEMMA LevelFrame ==
  ASSUME Shape, InBody, NEW env \in Seq(Level), env # <<>>, env[1].kind = "body",
         \A j \in 2..Len(env) : env[j].kind # "body",
         NEW g, Moved(g, env)
  PROVE  FrameOK(g) /\ g.env = env
<1>1. Frame \in DeclFrame /\ FrameOK(Frame) /\ Frame.inside /\ Begun(Frame)
  BY InBodyFacts
<1>2. g.decl = Frame.decl /\ g.part = Frame.part /\ g.inside = Frame.inside /\ g.env = env
  BY <1>1 DEF DeclFrame, Moved
<1>3. Begun(g) /\ g.inside /\ g.part # 0 /\ g.part \in 0..Len(Parts(g.decl))
  BY <1>1, <1>2 DEF Begun, PartOf, FrameOK
<1> QED BY <1>2, <1>3 DEF FrameOK

LEMMA LevelStep ==
  ASSUME Shape, InBody, NEW e \in EventSet, Event(e), NEW env \in Seq(Level), env # <<>>, env[1].kind = "body",
         \A j \in 2..Len(env) : env[j].kind # "body", Going(env),
         scopes' \in Seq(SUBSET Variable), Len(scopes') = Base + Len(env),
         UNCHANGED <<program, currentNs>>
  PROVE  /\ LambdasOK(frames', lambdas', tracker') => Shape'
         /\ \A c : ClassOK(bodies, frames, c) => ClassOK(bodies', frames', c)
         /\ Height(frames') = Base + Len(env)
         /\ \E g : SamePart(g) /\ g.env = env /\ Turned(frames', g)
<1> DEFINE g == [Frame EXCEPT !.at = Frame.at + 1, !.env = env]
<1>1. frames' = WithFrame(g)
  BY DEF Going
<1>2. Moved(g, env)
  BY DEF Moved
<1> HIDE DEF g
<1>3. FrameOK(g)
  BY <1>2, LevelFrame
<1>4. /\ SamePart(g) /\ g.env = env /\ TextOK' /\ DOMAIN bodies' = DOMAIN bodies
      /\ Turned(frames', g) /\ StackOK(frames') /\ DeclsKnown(frames') /\ Height(frames') = Base + Len(env)
      /\ ReadsOK(bodies', frames') /\ NamesOK(frames', currentNs)
      /\ \A c : ClassOK(bodies, frames, c) => ClassOK(bodies', frames', c)
  BY <1>1, <1>2, <1>3, EventStep
<1>5. ProgramOK' /\ DoneOK' /\ BodiesOK' /\ \A i \in 1..3 : decls'[i] = decls[i]
  BY <1>4, SameProgram DEF Shape, program, ProgramOK
<1>6. ScopesOK(frames', scopes')
  BY <1>4 DEF ScopesOK
<1>7. ASSUME LambdasOK(frames', lambdas', tracker') PROVE Shape'
  <2>1. (StackOK(frames) /\ ReadsOK(bodies, frames) /\ ScopesOK(frames, scopes))'
    BY <1>4, <1>6
  <2>2. DeclsKnown(frames)'
    BY <1>4, <1>5 DEF DeclsKnown
  <2>3. LambdasOK(frames, lambdas, tracker)' /\ NamesOK(frames, currentNs)'
    BY <1>4, <1>7
  <2> QED BY <1>4, <1>5, <2>1, <2>2, <2>3 DEF Shape
<1> QED BY <1>4, <1>7

LEMMA OpenedStep ==
  ASSUME Shape, InBody, NEW e \in EventSet, Event(e), NEW kind \in {"block", "all", "listed"},
         NEW vs \in SUBSET Variable, Opened(kind, vs), UNCHANGED <<program, currentNs>>
  PROVE  /\ LambdasOK(frames', lambdas', tracker') => Shape'
         /\ \A c : ClassOK(bodies, frames, c) => ClassOK(bodies', frames', c)
         /\ Agree(frames, scopes) => Agree(frames', scopes')
         /\ Height(frames') = Height(frames) + 1 /\ Height(frames) = Len(scopes)
         /\ [vars |-> vs, kind |-> kind] \in Level
         /\ \E g : Pushed(g, [vars |-> vs, kind |-> kind]) /\ Turned(frames', g)
<1> DEFINE level == [vars |-> vs, kind |-> kind]
           env == Append(Env, level)
           m == Len(Env)
<1>1. /\ frames # <<>> /\ StackOK(frames) /\ m \in Nat \ {0} /\ Env \in Seq(Level) /\ Base \in Nat
      /\ scopes \in Seq(SUBSET Variable) /\ Len(scopes) = Base + m /\ Height(frames) = Base + m
      /\ FrameOK(Frame) /\ Frame.inside /\ Begun(Frame)
  BY InBodyFacts
<1>2. level \in Level /\ level.vars = vs
  BY DEF Level
<1>3. /\ Going(env) /\ scopes' = Append(scopes, vs)
  BY DEF Opened
<1>4. Env[1].kind = "body" /\ \A j \in 2..m : Env[j].kind # "body"
  BY <1>1 DEF FrameOK, Env
<1>5. level.kind # "body"
  OBVIOUS
<1> HIDE DEF level
<1>6. /\ env \in Seq(Level) /\ Len(env) = m + 1 /\ env[m + 1] = level /\ env # <<>>
      /\ \A j \in 1..m : env[j] = Env[j]
  BY <1>1, <1>2, AppendProperties
<1>7. env[1].kind = "body" /\ \A j \in 2..Len(env) : env[j].kind # "body"
  <2>1. 1 \in 1..m /\ \A j \in 2..Len(env) : j = m + 1 \/ (j \in 2..m /\ j \in 1..m)
    BY <1>1, <1>6
  <2> QED BY <1>4, <1>5, <1>6, <2>1
<1>8. /\ scopes' \in Seq(SUBSET Variable) /\ Len(scopes') = Base + Len(env)
      /\ scopes'[Len(scopes) + 1] = vs /\ \A p \in 1..Len(scopes) : scopes'[p] = scopes[p]
  BY <1>1, <1>3, <1>6, AppendProperties
<1>9. /\ LambdasOK(frames', lambdas', tracker') => Shape'
      /\ \A c : ClassOK(bodies, frames, c) => ClassOK(bodies', frames', c)
      /\ Height(frames') = Base + Len(env)
      /\ \E g : SamePart(g) /\ g.env = env /\ Turned(frames', g)
  <2> HIDE DEF env
  <2> QED BY <1>3, <1>6, <1>7, <1>8, LevelStep
<1>10. PICK g : SamePart(g) /\ g.env = env /\ Turned(frames', g)
  BY <1>9
<1>11. Pushed(g, level)
  BY <1>10 DEF Pushed, SamePart
<1>12. ASSUME Agree(frames, scopes) PROVE Agree(frames', scopes')
  <2>1. \A p \in 1..Base : scopes'[p] = scopes[p]
    BY <1>1, <1>8
  <2>2. \A j \in 1..m : scopes[Base + j] = Env[j].vars
    <3>1. Frame = frames[Len(frames)] /\ Len(frames) \in 1..Len(frames) /\ Env = Frame.env /\ Base = Frame.base
      BY <1>1, TopFacts
    <3> QED BY <1>12, <3>1 DEF Agree
  <2>3. \A j \in 1..Len(env) : scopes'[Base + j] = env[j].vars
    <3> SUFFICES ASSUME NEW j \in 1..Len(env) PROVE scopes'[Base + j] = env[j].vars
      OBVIOUS
    <3>1. CASE j \in 1..m
      <4>1. Base + j \in 1..Len(scopes)
        BY <1>1, <3>1
      <4> QED BY <1>6, <1>8, <2>2, <3>1, <4>1
    <3>2. CASE j = m + 1
      <4>1. Base + j = Len(scopes) + 1
        BY <1>1, <3>2
      <4> QED BY <1>2, <1>6, <1>8, <3>2, <4>1
    <3>3. j \in 1..m \/ j = m + 1
      BY <1>1, <1>6
    <3> QED BY <3>1, <3>2, <3>3
  <2> HIDE DEF env
  <2>4. /\ StackOK(frames) /\ frames # <<>> /\ Agree(frames, scopes)
        /\ g.base = Frame.base /\ Turned(frames', g)
    BY <1>1, <1>10, <1>12 DEF SamePart
  <2>5. \A j \in 1..Len(g.env) : scopes'[Base + j] = g.env[j].vars
    BY <1>10, <2>3
  <2> QED BY <2>1, <2>4, <2>5, AgreeTurned
<1>13. Height(frames') = Height(frames) + 1 /\ Height(frames) = Len(scopes)
  BY <1>1, <1>6, <1>9
<1> QED BY <1>2, <1>9, <1>10, <1>11, <1>12, <1>13 DEF level

LEMMA BlockInv == IInv /\ Block => IInv'
<1> SUFFICES ASSUME IInv, Block PROVE IInv'
  OBVIOUS
<1> DEFINE e == [op |-> "block"]
           level == [vars |-> {}, kind |-> "block"]
<1>1. /\ InBody /\ Event(e) /\ Opened("block", {}) /\ UNCHANGED <<program, currentNs>> /\ Shape
      /\ UNCHANGED <<currentClass, lambdas, tracker, agreed>>
  BY DEF Block, IInv
<1>2. e \in EventSet /\ {} \in SUBSET Variable /\ "block" \in {"block", "all", "listed"}
  BY DEF EventSet
<1>3. ~IsLambda(level)
  BY DEF IsLambda
<1>4. frames # <<>> /\ StackOK(frames) /\ LambdasOK(frames, lambdas, tracker)
  BY <1>1, InBodyFacts
<1>5. SameLambdas(lambdas)
  BY <1>4 DEF SameLambdas, LambdasOK
<1> HIDE DEF e
<1>6. /\ LambdasOK(frames', lambdas', tracker') => Shape'
      /\ \A c : ClassOK(bodies, frames, c) => ClassOK(bodies', frames', c)
      /\ Agree(frames, scopes) => Agree(frames', scopes')
      /\ Height(frames') = Height(frames) + 1
      /\ level \in Level
      /\ \E g : Pushed(g, level) /\ Turned(frames', g)
  BY <1>1, <1>2, OpenedStep
<1> HIDE DEF level
<1>7. LambdasOK(frames', lambdas, tracker)
  BY <1>3, <1>4, <1>5, <1>6, PushedBlock
<1>8. Shape'
  BY <1>1, <1>6, <1>7
<1>9. Lexical => Lexical'
  BY <1>1, <1>6 DEF Lexical, CapturesExact
<1> QED BY <1>8, <1>9 DEF IInv

LEMMA LambdaInv == IInv /\ Lambda => IInv'
<1> SUFFICES ASSUME IInv, Lambda PROVE IInv'
  OBVIOUS
<1>1. PICK all \in BOOLEAN, listed \in SUBSET Vars :
        /\ InBody /\ \A x \in listed : Allowed(x)
        /\ Event([op |-> "lambda", all |-> all, listed |-> listed])
        /\ Opened(IF all THEN "all" ELSE "listed", {Fresh(x, "plain") : x \in {y \in listed : Found(y) # 0}})
        /\ lambdas' = Append(Recorded(listed), [all |-> all, depth |-> Len(scopes) + 1, saved |-> tracker,
                                                recorded |-> {}, needed |-> {}])
        /\ tracker' = IF all THEN Len(lambdas') ELSE tracker
        /\ agreed' = (\A x \in listed : Found(x) = Place(Meant(x)))
        /\ UNCHANGED <<program, currentClass, currentNs>>
  BY DEF Lambda
<1> DEFINE e == [op |-> "lambda", all |-> all, listed |-> listed]
           kind == IF all THEN "all" ELSE "listed"
           vs == {Fresh(x, "plain") : x \in {y \in listed : Found(y) # 0}}
           level == [vars |-> vs, kind |-> kind]
           l == [all |-> all, depth |-> Len(scopes) + 1, saved |-> tracker, recorded |-> {}, needed |-> {}]
           ks == Recorded(listed)
<1>2. Shape /\ e \in EventSet /\ kind \in {"block", "all", "listed"} /\ vs \in SUBSET Variable
  <2>1. \A x \in Vars : Fresh(x, "plain") \in Variable
    BY DEF Fresh, Variable
  <2> QED BY <2>1 DEF EventSet, IInv
<1>3. IsLambda(level)
  BY DEF IsLambda
<1>4. /\ frames # <<>> /\ StackOK(frames) /\ LambdasOK(frames, lambdas, tracker)
      /\ scopes \in Seq(SUBSET Variable) /\ Len(scopes) \in Nat
  BY <1>1, <1>2, InBodyFacts
<1>5. SameLambdas(ks) /\ Len(ks) = Len(lambdas) /\ ks \in Seq(LambdaState)
  BY <1>4, RecordedFacts DEF SameLambdas
<1>6. l \in LambdaState /\ l.depth = Len(scopes) + 1 /\ l.saved = tracker /\ l.all = all /\ l.recorded = l.needed
  <2>1. tracker \in Nat
    BY <1>4 DEF LambdasOK, Innermost
  <2> QED BY <1>4, <2>1 DEF LambdaState
<1>7. /\ InBody /\ Event(e) /\ Opened(kind, vs) /\ lambdas' = Append(ks, l)
      /\ tracker' = (IF l.all THEN Len(lambdas') ELSE tracker)
      /\ UNCHANGED <<program, currentNs>> /\ currentClass' = currentClass
  BY <1>1, <1>6
<1> HIDE DEF e, kind, vs, l, ks
<1>8. /\ LambdasOK(frames', lambdas', tracker') => Shape'
      /\ \A c : ClassOK(bodies, frames, c) => ClassOK(bodies', frames', c)
      /\ Agree(frames, scopes) => Agree(frames', scopes')
      /\ Height(frames') = Height(frames) + 1 /\ Height(frames) = Len(scopes)
      /\ level \in Level
      /\ \E g : Pushed(g, level) /\ Turned(frames', g)
  BY <1>2, <1>7, OpenedStep
<1> HIDE DEF level
<1>9. LambdasOK(frames', lambdas', tracker')
  BY <1>3, <1>4, <1>5, <1>6, <1>7, <1>8, PushedLambda
<1>10. Shape'
  BY <1>8, <1>9
<1>11. ASSUME Liberties = {} PROVE Lexical'
  <2>1. Lexical
    BY <1>11 DEF IInv
  <2>2. agreed'
    <3>1. \A x \in listed : Found(x) = Place(Meant(x))
      BY <1>1, <1>2, <1>4, <1>11, <2>1, FoundIsMeant DEF Lexical
    <3> QED BY <1>1, <3>1
  <2>3. CapturesExact'
    <3>1. \A m \in 1..Len(lambdas) : ks[m].all => ks[m].recorded = ks[m].needed
      BY <1>1, <1>2, <1>4, <1>11, <2>1, RecordedExact DEF Lexical, ks
    <3>2. Len(lambdas') = Len(ks) + 1 /\ lambdas'[Len(ks) + 1] = l /\ \A m \in 1..Len(ks) : lambdas'[m] = ks[m]
      BY <1>5, <1>6, <1>7, AppendProperties
    <3>3. \A m \in 1..Len(lambdas') : m \in 1..Len(lambdas) \/ m = Len(ks) + 1
      BY <1>5, <3>2
    <3> QED BY <1>5, <1>6, <3>1, <3>2, <3>3 DEF CapturesExact
  <2> QED BY <1>7, <1>8, <2>1, <2>2, <2>3 DEF Lexical
<1> QED BY <1>10, <1>11 DEF IInv

LEMMA CloseInv == IInv /\ Close => IInv'
<1> SUFFICES ASSUME IInv, Close PROVE IInv'
  OBVIOUS
<1> DEFINE e == [op |-> "close"]
           m == Len(Env)
           env == Front(Env)
           n == Len(scopes)
<1>1. /\ InBody /\ Last(Env).kind # "body" /\ Event(e) /\ scopes' = Front(scopes) /\ Going(env)
      /\ IF Last(Env).kind = "block" THEN UNCHANGED <<lambdas, tracker>>
         ELSE lambdas' = Front(lambdas) /\ tracker' = Last(lambdas).saved
      /\ UNCHANGED <<program, currentNs>> /\ UNCHANGED <<currentClass, agreed>>
  BY DEF Close, TrackerAfter
<1>2. /\ frames # <<>> /\ StackOK(frames) /\ LambdasOK(frames, lambdas, tracker)
      /\ scopes \in Seq(SUBSET Variable) /\ n = Base + m /\ Height(frames) = Base + m
      /\ Env \in Seq(Level) /\ Env # <<>> /\ m \in Nat \ {0} /\ Base \in Nat
      /\ FrameOK(Frame) /\ Frame.inside /\ Begun(Frame)
  BY <1>1, InBodyFacts DEF IInv
<1>3. e \in EventSet /\ Shape
  BY DEF EventSet, IInv
<1>4. Env[1].kind = "body" /\ \A j \in 2..m : Env[j].kind # "body"
  BY <1>2 DEF FrameOK, Env
<1>5. Last(Env) = Env[m] /\ Last(Env) \in Level
  BY <1>2 DEF Last
<1>6. m >= 2
  BY <1>1, <1>2, <1>4, <1>5
<1>7. env \in Seq(Level) /\ Len(env) = m - 1 /\ \A j \in 1..(m - 1) : env[j] = Env[j]
  BY <1>2, FrontFacts
<1> HIDE DEF env, e
<1>8. env # <<>> /\ env[1].kind = "body" /\ \A j \in 2..Len(env) : env[j].kind # "body"
  <2>1. 1 \in 1..(m - 1) /\ \A j \in 2..Len(env) : j \in 1..(m - 1) /\ j \in 2..m
    BY <1>2, <1>6, <1>7
  <2> QED BY <1>4, <1>7, <2>1
<1>9. /\ scopes' \in Seq(SUBSET Variable) /\ Len(scopes') = Base + Len(env)
      /\ \A p \in 1..(n - 1) : scopes'[p] = scopes[p]
  <2>1. scopes # <<>> /\ n \in Nat \ {0}
    BY <1>2
  <2>2. /\ Front(scopes) \in Seq(SUBSET Variable) /\ Len(Front(scopes)) = n - 1
        /\ \A p \in 1..(n - 1) : Front(scopes)[p] = scopes[p]
    BY <1>2, <2>1, FrontFacts
  <2> QED BY <1>1, <1>2, <1>7, <2>2
<1>10. /\ LambdasOK(frames', lambdas', tracker') => Shape'
       /\ \A c : ClassOK(bodies, frames, c) => ClassOK(bodies', frames', c)
       /\ Height(frames') = Base + Len(env)
       /\ \E g : SamePart(g) /\ g.env = env /\ Turned(frames', g)
  BY <1>1, <1>3, <1>7, <1>8, <1>9, LevelStep
<1>11. PICK g : SamePart(g) /\ g.env = env /\ Turned(frames', g)
  BY <1>10
<1>12. Popped(g) /\ Height(frames') = Height(frames) - 1
  BY <1>2, <1>7, <1>10, <1>11 DEF Popped, SamePart, env
<1>13. ASSUME Last(Env).kind = "block" PROVE Shape'
  <2>1. ~IsLambda(Last(Env)) /\ UNCHANGED <<lambdas, tracker>>
    BY <1>1, <1>13 DEF IsLambda
  <2>2. LambdasOK(frames', lambdas, tracker)
    BY <1>2, <1>11, <1>12, <2>1, PoppedBlock
  <2> QED BY <1>10, <2>1, <2>2
<1>14. ASSUME Last(Env).kind # "block" PROVE Shape'
  <2>1. IsLambda(Last(Env)) /\ lambdas' = Front(lambdas) /\ tracker' = Last(lambdas).saved
    BY <1>1, <1>5, <1>14 DEF IsLambda, Level
  <2>2. lambdas # <<>> /\ LambdasOK(frames', Front(lambdas), Last(lambdas).saved)
    BY <1>2, <1>11, <1>12, <2>1, PoppedLambda
  <2> QED BY <1>10, <2>1, <2>2
<1>15. Shape'
  BY <1>10, <1>13, <1>14
<1>16. ASSUME Liberties = {} PROVE Lexical'
  <2>1. Lexical
    BY <1>16 DEF IInv
  <2>2. Agree(frames', scopes')
    <3>1. \A p \in 1..Base : scopes'[p] = scopes[p]
      <4>1. \A p \in 1..Base : p \in 1..(n - 1)
        BY <1>2, <1>6
      <4> QED BY <1>9, <4>1
    <3>2. \A j \in 1..m : scopes[Base + j] = Env[j].vars
      <4>1. Frame = frames[Len(frames)] /\ Len(frames) \in 1..Len(frames) /\ Env = Frame.env /\ Base = Frame.base
        BY <1>2, TopFacts
      <4> QED BY <2>1, <4>1 DEF Lexical, Agree
    <3>3. \A j \in 1..Len(env) : scopes'[Base + j] = env[j].vars
      <4> SUFFICES ASSUME NEW j \in 1..(m - 1) PROVE scopes'[Base + j] = env[j].vars
        BY <1>7
      <4>1. Base + j \in 1..(n - 1) /\ j \in 1..m
        BY <1>2
      <4> QED BY <1>7, <1>9, <3>2, <4>1
    <3> QED BY <1>2, <1>11, <2>1, <3>1, <3>3, AgreeTurned DEF Lexical, SamePart
  <2>3. CapturesExact'
    <3>1. (lambdas # <<>> /\ lambdas' = Front(lambdas)) \/ lambdas' = lambdas
      <4>1. Last(Env).kind # "block" => lambdas # <<>>
        <5> SUFFICES ASSUME Last(Env).kind # "block" PROVE lambdas # <<>>
          OBVIOUS
        <5>1. IsLambda(Last(Env))
          BY <1>1, <1>5 DEF IsLambda, Level
        <5> QED BY <1>2, <1>11, <1>12, <5>1, PoppedLambda
      <4> QED BY <1>1, <4>1
    <3>2. CASE lambdas' = lambdas
      BY <2>1, <3>2 DEF Lexical, CapturesExact
    <3>3. CASE lambdas # <<>> /\ lambdas' = Front(lambdas)
      <4>1. lambdas \in Seq(LambdaState)
        BY <1>2 DEF LambdasOK
      <4>2. /\ Len(lambdas') = Len(lambdas) - 1 /\ Len(lambdas) \in Nat \ {0}
            /\ \A k \in 1..(Len(lambdas) - 1) : lambdas'[k] = lambdas[k]
        BY <3>3, <4>1, FrontFacts
      <4>3. \A k \in 1..Len(lambdas') : k \in 1..Len(lambdas) /\ lambdas'[k] = lambdas[k]
        BY <4>2
      <4> QED BY <2>1, <4>3 DEF Lexical, CapturesExact
    <3> QED BY <3>1, <3>2, <3>3
  <2> QED BY <1>1, <1>10, <2>1, <2>2, <2>3 DEF Lexical
<1> QED BY <1>15, <1>16 DEF IInv

-----------------------------------------------------------------------------
(* A declaration is entered in the middle of another, or left.             *)

LEMMA HeightNat == ASSUME NEW F, StackOK(F) PROVE Height(F) \in Nat /\ Len(F) \in Nat
<1>1. F \in Seq(DeclFrame) /\ Len(F) \in Nat
  BY DEF StackOK
<1>2. ASSUME F # <<>> PROVE Ceiling(F[Len(F)]) \in Nat
  <2>1. Len(F) \in 1..Len(F)
    BY <1>1, <1>2
  <2> DEFINE f == F[Len(F)]
  <2>2. f \in DeclFrame /\ FrameOK(f)
    BY <2>1 DEF StackOK
  <2> HIDE DEF f
  <2>3. f.base \in Nat /\ Len(f.env) \in Nat
    BY <2>2, PartFacts
  <2>4. Ceiling(f) \in Nat
    BY <2>3 DEF Ceiling
  <2> QED BY <2>4 DEF f
<1> QED BY <1>1, <1>2 DEF Height

(* H is F with the frame f on top. *)
Topped(F, f, H) ==
  /\ Len(H) = Len(F) + 1 /\ H # <<>> /\ H[Len(F) + 1] = f
  /\ \A k \in 1..Len(F) : H[k] = F[k]

Entered(f, d, b) ==
  /\ f.decl = d /\ f.part = 0 /\ ~f.inside /\ f.at = 0 /\ f.env = <<>> /\ f.base = b
  /\ f \in DeclFrame /\ FrameOK(f)

LEMMA EnterFrame ==
  ASSUME NEW d \in Declarations, NEW b \in Nat
  PROVE  Entered(Enter(d, b), d, b)
<1>1. <<>> \in Seq(Level) /\ Len(<<>>) = 0
  OBVIOUS
<1>2. Enter(d, b) \in DeclFrame
  BY <1>1 DEF Enter, DeclFrame, Namespaces
<1>3. Len(Parts(d)) \in Nat
  BY DeclFacts
<1>4. FrameOK(Enter(d, b))
  BY <1>1, <1>3 DEF Enter, FrameOK, Begun
<1> QED BY <1>2, <1>4 DEF Entered, Enter

LEMMA ToppedStack ==
  ASSUME NEW F, StackOK(F), NEW d, NEW f, Entered(f, d, Height(F)),
         F # <<>> => F[Len(F)].inside /\ IsInstance(d),
         NEW H, H = Append(F, f)
  PROVE  Topped(F, f, H) /\ StackOK(H) /\ Height(H) = Height(F)
<1> DEFINE n == Len(F)
           h == Height(F)
<1>1. F \in Seq(DeclFrame) /\ n \in Nat /\ h \in Nat
  BY HeightNat DEF StackOK
<1>2. f \in DeclFrame /\ FrameOK(f) /\ f.base = h /\ f.decl = d /\ f.env = <<>> /\ Ceiling(f) = h
  BY <1>1 DEF Entered, Ceiling
<1>3. H \in Seq(DeclFrame) /\ Len(H) = n + 1 /\ H[n + 1] = f /\ \A k \in 1..n : H[k] = F[k]
  BY <1>1, <1>2, AppendProperties
<1>4. Topped(F, f, H)
  BY <1>1, <1>3 DEF Topped
<1>5. \A k \in 1..n : F[k] \in DeclFrame /\ FrameOK(F[k]) /\ Ceiling(F[k]) <= h
  <2> SUFFICES ASSUME NEW k \in 1..n PROVE Ceiling(F[k]) <= h
    BY DEF StackOK
  <2>1. n \in 1..n /\ F # <<>> /\ h = Ceiling(F[n])
    BY <1>1 DEF Height
  <2>2. CASE k = n
    BY <1>1, <2>1, <2>2
  <2>3. CASE k # n
    <3>1. Ceiling(F[k]) <= F[n].base
      BY <1>1, <2>1, <2>3 DEF StackOK
    <3>2. F[k] \in DeclFrame /\ FrameOK(F[k]) /\ F[n] \in DeclFrame /\ FrameOK(F[n])
      BY <2>1 DEF StackOK
    <3>3. F[k].base \in Nat /\ Len(F[k].env) \in Nat /\ F[n].base \in Nat /\ Len(F[n].env) \in Nat
      BY <3>2, PartFacts
    <3>4. Ceiling(F[k]) = F[k].base + Len(F[k].env) /\ h = F[n].base + Len(F[n].env)
      BY <2>1 DEF Ceiling
    <3> QED BY <3>1, <3>3, <3>4
  <2> QED BY <2>2, <2>3
<1> HIDE DEF h
<1>6. \A k \in 1..Len(H) : k \in 1..n \/ k = n + 1
  BY <1>1, <1>3
<1>7. \A k \in 1..Len(H) : FrameOK(H[k])
  BY <1>2, <1>3, <1>5, <1>6
<1>8. H[1].base = 0
  <2>1. CASE n = 0
    BY <1>1, <1>2, <1>3, <2>1 DEF h, Height
  <2>2. CASE n # 0
    <3>1. 1 \in 1..n /\ F # <<>>
      BY <1>1, <2>2
    <3> QED BY <1>3, <3>1 DEF StackOK
  <2> QED BY <2>1, <2>2
<1>9. \A k, l \in 1..Len(H) : k < l => Ceiling(H[k]) <= H[l].base
  <2> SUFFICES ASSUME NEW k \in 1..Len(H), NEW l \in 1..Len(H), k < l PROVE Ceiling(H[k]) <= H[l].base
    OBVIOUS
  <2>1. k \in 1..n
    BY <1>1, <1>3
  <2>2. CASE l \in 1..n
    BY <1>3, <2>1, <2>2 DEF StackOK
  <2>3. CASE l = n + 1
    BY <1>2, <1>3, <1>5, <2>1, <2>3
  <2> QED BY <1>6, <2>2, <2>3
<1>10. \A k, l \in 1..Len(H) : l = k + 1 => H[k].inside /\ H[l].base = Ceiling(H[k]) /\ IsInstance(H[l].decl)
  <2> SUFFICES ASSUME NEW k \in 1..Len(H), NEW l \in 1..Len(H), l = k + 1
               PROVE  H[k].inside /\ H[l].base = Ceiling(H[k]) /\ IsInstance(H[l].decl)
    OBVIOUS
  <2>1. k \in 1..n
    BY <1>1, <1>3
  <2>2. CASE l \in 1..n
    BY <1>3, <2>1, <2>2 DEF StackOK
  <2>3. CASE l = n + 1
    <3>1. k = n /\ F # <<>> /\ h = Ceiling(F[n])
      BY <1>1, <2>1, <2>3 DEF h, Height
    <3> QED BY <1>2, <1>3, <2>1, <2>3, <3>1
  <2> QED BY <1>6, <2>2, <2>3
<1>11. StackOK(H)
  BY <1>3, <1>4, <1>7, <1>8, <1>9, <1>10 DEF StackOK, Topped
<1>12. Height(H) = h
  BY <1>2, <1>3, <1>4 DEF Height, Topped
<1> QED BY <1>4, <1>11, <1>12 DEF h

LEMMA ToppedFacts ==
  ASSUME NEW F, Len(F) \in Nat, NEW d, NEW f, NEW b, Entered(f, d, b), NEW H, Topped(F, f, H)
  PROVE  /\ \A p : LambdaAt(H, p) <=> LambdaAt(F, p)
         /\ \A ns : NamesOK(F, ns) => NamesOK(H, ns)
         /\ \A sc : Agree(F, sc) => Agree(H, sc)
         /\ \A c, t : ClassOK(t, F, c) => ClassOK(t, H, c)
         /\ \A t : ReadsOK(t, F) /\ (F # <<>> => "type" \in OpsIn(t, F[Len(F)])) => ReadsOK(t, H)
<1> DEFINE n == Len(F)
<1>1. n \in Nat /\ Len(H) = n + 1 /\ H[n + 1] = f /\ \A k \in 1..n : H[k] = F[k]
  BY DEF Topped
<1>2. f.env = <<>> /\ Len(f.env) = 0 /\ ~f.inside /\ ~Begun(f)
  BY DEF Entered, Begun
<1>3. \A k : k \in 1..Len(H) <=> k \in 1..n \/ k = n + 1
  BY <1>1
<1> HIDE DEF n
<1>4. ASSUME NEW p PROVE LambdaAt(H, p) <=> LambdaAt(F, p)
  BY <1>1, <1>2, <1>3 DEF LambdaAt, n
<1>5. ASSUME NEW ns, NamesOK(F, ns) PROVE NamesOK(H, ns)
  <2>1. PICK g \in [0..n -> Namespaces] : NamesAre(F, g) /\ g[n] = ns
    BY <1>5 DEF NamesOK, n
  <2> DEFINE G == [k \in 0..(n + 1) |-> IF k = n + 1 THEN ns ELSE g[k]]
  <2>2. \A k \in 0..n : k # n + 1 /\ k \in 0..(n + 1) /\ g[k] \in Namespaces
    BY <1>1
  <2>3. 0 \in 0..n /\ n \in 0..n /\ n + 1 \in 0..(n + 1) /\ ns \in Namespaces
    BY <1>1, <2>1
  <2>4. G \in [0..(n + 1) -> Namespaces] /\ G[n + 1] = ns /\ \A k \in 0..n : G[k] = g[k]
    <3>1. \A k \in 0..(n + 1) : k = n + 1 \/ k \in 0..n
      BY <1>1
    <3> QED BY <2>2, <2>3, <3>1
  <2> HIDE DEF G
  <2>5. \A k \in 1..n : k \in 0..n /\ k - 1 \in 0..n
    BY <1>1
  <2>6. NamesAre(H, G)
    <3>1. G[0] = ""
      BY <2>1, <2>3, <2>4 DEF NamesAre
    <3>2. ASSUME NEW k \in 1..n
          PROVE  /\ Begun(H[k]) => G[k] = NamespaceOf(H[k].decl) /\ H[k].saved = G[k - 1]
                 /\ ~Begun(H[k]) => G[k] = G[k - 1]
      BY <1>1, <2>1, <2>4, <2>5 DEF NamesAre, n
    <3>3. ~Begun(H[n + 1]) /\ G[n + 1] = G[(n + 1) - 1]
      BY <1>1, <1>2, <2>1, <2>3, <2>4
    <3> QED BY <1>3, <3>1, <3>2, <3>3 DEF NamesAre
  <2> QED BY <1>1, <2>4, <2>6 DEF NamesOK
<1>6. ASSUME NEW sc, Agree(F, sc) PROVE Agree(H, sc)
  BY <1>1, <1>2, <1>3, <1>6 DEF Agree, n
<1>7. ASSUME NEW c, NEW t, ClassOK(t, F, c) PROVE ClassOK(t, H, c)
  <2>1. (\A k \in 1..Len(H) : ~IsClass(H[k].decl)) => c = none
    <3>1. (\A k \in 1..n : ~IsClass(F[k].decl)) => c = none
      BY <1>7 DEF ClassOK, n
    <3>2. \A k \in 1..n : k \in 1..Len(H)
      BY <1>3
    <3> QED BY <1>1, <3>1, <3>2
  <2> QED BY <1>1, <1>2, <2>1 DEF ClassOK
<1>8. ASSUME NEW t, ReadsOK(t, F), F # <<>> => "type" \in OpsIn(t, F[n]) PROVE ReadsOK(t, H)
  <2>1. \A k \in 1..Len(H) : ReadOK(t, H[k])
    BY <1>1, <1>2, <1>3, <1>8 DEF ReadsOK, ReadOK, n
  <2>2. \A k \in 1..Len(H) : k < Len(H) => "type" \in OpsIn(t, H[k])
    <3> SUFFICES ASSUME NEW k \in 1..n PROVE "type" \in OpsIn(t, F[k])
      BY <1>1, <1>3
    <3>1. CASE k = n
      <4>1. F # <<>>
        BY <1>1, <3>1 DEF n
      <4> QED BY <1>8, <3>1, <4>1
    <3>2. CASE k # n
      BY <1>1, <1>8, <3>2 DEF ReadsOK, n
    <3> QED BY <3>1, <3>2
  <2> QED BY <2>1, <2>2 DEF ReadsOK
<1> QED BY <1>4, <1>5, <1>6, <1>7, <1>8 DEF n

-----------------------------------------------------------------------------
(* Types. *)

LEMMA FiniteInstances == IsFiniteSet(Instances) /\ Cardinality(Instances) \in Nat
<1> DEFINE i1 == {<<"Box", "int">>}
           i2 == {<<"Pair", "int">>}
           i3 == {<<"make", "int">>}
           i4 == {<<"Box", "Box", "int">>}
           i5 == {<<"Pair", "Box", "int">>}
           i6 == {<<"make", "Box", "int">>}
<1>1. Instances = i1 \cup (i2 \cup (i3 \cup (i4 \cup (i5 \cup i6))))
  BY DEF Instances, Templates
<1>2. /\ IsFiniteSet(i1) /\ IsFiniteSet(i2) /\ IsFiniteSet(i3)
      /\ IsFiniteSet(i4) /\ IsFiniteSet(i5) /\ IsFiniteSet(i6)
  BY FS_Singleton
<1> HIDE DEF i1, i2, i3, i4, i5, i6
<1>3. IsFiniteSet(i5 \cup i6)
  BY <1>2, FS_Union
<1>4. IsFiniteSet(i4 \cup (i5 \cup i6))
  BY <1>2, <1>3, FS_Union
<1>5. IsFiniteSet(i3 \cup (i4 \cup (i5 \cup i6)))
  BY <1>2, <1>4, FS_Union
<1>6. IsFiniteSet(i2 \cup (i3 \cup (i4 \cup (i5 \cup i6))))
  BY <1>2, <1>5, FS_Union
<1>7. IsFiniteSet(Instances)
  BY <1>1, <1>2, <1>6, FS_Union
<1> QED BY <1>7, FS_CardinalityType

LEMMA TailFacts ==
  ASSUME NEW a, NEW b, NEW c
  PROVE  Tail(<<a, b>>) = <<b>> /\ Tail(<<a, b, c>>) = <<b, c>>
<1>1. Tail(<<a, b>>) = <<b>>
  OBVIOUS
<1>2. Tail(<<a, b, c>>) = <<b, c>>
  OBVIOUS
<1> QED BY <1>1, <1>2

LEMMA ConsFacts ==
  ASSUME NEW a, NEW b, NEW c
  PROVE  <<a>> \o <<b>> = <<a, b>> /\ <<a>> \o <<b, c>> = <<a, b, c>>
<1> DEFINE S == {a, b, c}
<1>1. <<a>> \in Seq(S) /\ <<b>> \in Seq(S) /\ <<a, b>> \in Seq(S) /\ <<b, c>> \in Seq(S) /\ <<a, b, c>> \in Seq(S)
  OBVIOUS
<1>2. <<a>> \o <<b>> = <<a, b>>
  <2>1. /\ <<a>> \o <<b>> \in Seq(S) /\ Len(<<a>> \o <<b>>) = 2
        /\ \A i \in 1..2 : (<<a>> \o <<b>>)[i] = IF i <= 1 THEN <<a>>[i] ELSE <<b>>[i - 1]
    BY <1>1
  <2>2. \A i \in 1..2 : (<<a>> \o <<b>>)[i] = <<a, b>>[i]
    BY <2>1
  <2> QED BY <1>1, <2>1, <2>2, SeqEqual
<1>3. <<a>> \o <<b, c>> = <<a, b, c>>
  <2>1. /\ <<a>> \o <<b, c>> \in Seq(S) /\ Len(<<a>> \o <<b, c>>) = 3
        /\ \A i \in 1..3 : (<<a>> \o <<b, c>>)[i] = IF i <= 1 THEN <<a>>[i] ELSE <<b, c>>[i - 1]
    BY <1>1
  <2>2. \A i \in 1..3 : (<<a>> \o <<b, c>>)[i] = <<a, b, c>>[i]
    BY <2>1
  <2> QED BY <1>1, <2>1, <2>2, SeqEqual
<1> QED BY <1>2, <1>3

(* What types name: int, or an instance. *)
LEMMA TypeNamedFacts ==
  ASSUME Frame.decl \in Declarations, NEW e \in TypeEvents
  PROVE  e \in EventSet /\ e.op = "type" /\ TypeNamed(e) \in Instances \cup {<<"int">>}
<1>1. /\ e \in [op : {"type"}, name : Templates \cup {"T"}, arg : {"int", "box", "T"}]
      /\ e.name = "T" \/ e.arg = "T" => IsInstance(Frame.decl) /\ e.arg = "T" /\ e.name \in {"T", "Box", "Pair"}
      /\ e.arg # "T" => e.name \in Templates
  BY DEF TypeEvents, Templates
<1>2. e \in EventSet /\ e.op = "type"
  BY <1>1 DEF EventSet
<1>3. CASE e.arg = "T"
  <2>1. Frame.decl \in Instances
    BY <1>1, <1>3, DeclFacts
  <2>2. PICK a \in Templates : Frame.decl = <<a, "int">> \/ Frame.decl = <<a, "Box", "int">>
    BY <2>1 DEF Instances
  <2>3. Tail(Frame.decl) = <<"int">> \/ Tail(Frame.decl) = <<"Box", "int">>
    <3>1. Tail(<<a, "int">>) = <<"int">> /\ Tail(<<a, "Box", "int">>) = <<"Box", "int">>
      BY TailFacts
    <3>2. Tail(Frame.decl) = Tail(<<a, "int">>) \/ Tail(Frame.decl) = Tail(<<a, "Box", "int">>)
      BY <2>2
    <3> QED BY <3>1, <3>2
  <2>4. CASE e.name = "T"
    <3>1. TypeNamed(e) = Tail(Frame.decl)
      BY <1>3, <2>4 DEF TypeNamed
    <3> QED BY <1>2, <2>3, <3>1 DEF Instances, Templates
  <2>5. CASE e.name # "T"
    <3>1. TypeNamed(e) = <<e.name>> \o Tail(Frame.decl) /\ e.name \in Templates
      BY <1>1, <1>3, <2>5 DEF TypeNamed, Templates
    <3>2. TypeNamed(e) = <<e.name, "int">> \/ TypeNamed(e) = <<e.name, "Box", "int">>
      BY <2>3, <3>1, ConsFacts
    <3> QED BY <1>2, <3>1, <3>2 DEF Instances
  <2> QED BY <2>4, <2>5
<1>4. CASE e.arg # "T"
  <2>1. TypeNamed(e) \in {<<e.name, "Box", "int">>, <<e.name, "int">>} /\ e.name \in Templates
    BY <1>1, <1>4 DEF TypeNamed
  <2> QED BY <1>2, <2>1 DEF Instances
<1> QED BY <1>3, <1>4

(* An instance more. *)
LEMMA InstanceAdded ==
  ASSUME ProgramOK, DoneOK, BodiesOK, DOMAIN bodies' = DOMAIN bodies, NEW t \in Instances, t \notin instantiated,
         instantiated' = instantiated \cup {t}, decls' = Append(decls, t), done' = Append(done, t),
         next' = next, rejected' = rejected
  PROVE  ProgramOK' /\ DoneOK' /\ BodiesOK' /\ \A i \in 1..3 : decls'[i] = decls[i]
<1> DEFINE n == Len(decls)
           m == Len(done)
<1>1. /\ decls \in Seq(Declarations) /\ n \in Nat /\ n >= 3
      /\ \A i \in 1..3 : decls[i] \in Originals
      /\ instantiated = {decls[i] : i \in 4..n} /\ instantiated \subseteq Instances
      /\ n = 3 + Cardinality(instantiated) /\ next \in 1..4
  <2>1. decls \in Seq(Declarations) /\ n >= 3 /\ n = 3 + Cardinality(instantiated) /\ next \in 1..4
    BY DEF ProgramOK
  <2>2. n \in Nat
    BY <2>1
  <2>3. /\ \A i \in 1..3 : decls[i] \in Originals
        /\ instantiated = {decls[i] : i \in 4..n} /\ instantiated \subseteq Instances
    BY DEF ProgramOK
  <2> QED BY <2>1, <2>2, <2>3
<1>2. t \in Declarations
  BY DEF Declarations
<1>3. decls' \in Seq(Declarations) /\ Len(decls') = n + 1 /\ decls'[n + 1] = t /\ \A i \in 1..n : decls'[i] = decls[i]
  <2>1. decls \in Seq(Declarations)
    BY <1>1
  <2> QED BY <1>2, <2>1, AppendProperties
<1>4. \A i \in 1..3 : i \in 1..n /\ decls'[i] = decls[i]
  BY <1>1, <1>3
<1>5. ProgramOK'
  <2>1. Cardinality(instantiated') = Cardinality(instantiated) + 1 /\ Cardinality(instantiated) \in Nat
    <3>1. IsFiniteSet(instantiated)
      BY <1>1, FiniteInstances, FS_Subset
    <3> QED BY <3>1, FS_AddElement, FS_CardinalityType
  <2>2. instantiated' = {decls'[i] : i \in 4..Len(decls')}
    <3>1. \A i : i \in 4..(n + 1) <=> i \in 4..n \/ i = n + 1
      BY <1>1
    <3>2. \A i \in 4..n : i \in 1..n
      BY <1>1
    <3>3. instantiated' = instantiated \cup {t} /\ instantiated = {decls[i] : i \in 4..n}
      BY <1>1
    <3> HIDE DEF n
    <3>4. {decls'[i] : i \in 4..(n + 1)} = {decls[i] : i \in 4..n} \cup {t}
      BY <1>3, <3>1, <3>2
    <3> QED BY <1>3, <3>3, <3>4
  <2>3. \A i \in 1..3 : \A j \in 1..3 : decls'[i] = decls'[j] => i = j
    BY <1>4 DEF ProgramOK
  <2>4. decls'\in Seq(Declarations) /\ Len(decls') >= 3 /\ Len(decls') = 3 + Cardinality(instantiated')
    BY <1>1, <1>3, <2>1
  <2>5. (\A i \in 1..3 : decls'[i] \in Originals) /\ instantiated' \subseteq Instances /\ next' \in 1..4
    BY <1>1, <1>4
  <2>6. rejected' \subseteq Classes
    BY DEF ProgramOK
  <2> QED BY <2>2, <2>3, <2>4, <2>5, <2>6 DEF ProgramOK
<1>6. DoneOK'
  <2>1. /\ done \in Seq(Declarations) /\ m \in Nat
        /\ \A i, j \in 1..m : done[i] = done[j] => i = j
        /\ \A i \in 1..m : done[i] \in instantiated \/ \E j \in 1..(next - 1) : done[i] = decls[j]
        /\ \A d \in instantiated : \E i \in 1..m : done[i] = d
        /\ Roomy => \A j \in 1..(next - 1) : \E i \in 1..m : done[i] = decls[j]
    BY DEF DoneOK
  <2>2. done' \in Seq(Declarations) /\ Len(done') = m + 1 /\ done'[m + 1] = t /\ \A i \in 1..m : done'[i] = done[i]
    BY <1>2, <2>1, AppendProperties
  <2>3. \A i : i \in 1..Len(done') <=> i \in 1..m \/ i = m + 1
    BY <2>1, <2>2
  <2>4. \A j \in 1..(next - 1) : j \in 1..3
    BY <1>1
  <2>5. \A i \in 1..m : done[i] # t
    <3>1. t \notin Originals
      BY <1>2, DeclFacts
    <3>2. \A j \in 1..(next - 1) : decls[j] # t
      BY <1>1, <2>4, <3>1
    <3> QED BY <2>1, <3>2
  <2>6. \A i, j \in 1..Len(done') : done'[i] = done'[j] => i = j
    BY <2>1, <2>2, <2>3, <2>5
  <2>7. \A i \in 1..Len(done') : done'[i] \in instantiated' \/ \E j \in 1..(next - 1) : done'[i] = decls'[j]
    BY <1>4, <2>1, <2>2, <2>3, <2>4
  <2>8. \A d \in instantiated' : \E i \in 1..Len(done') : done'[i] = d
    BY <2>1, <2>2, <2>3
  <2>9. Roomy => \A j \in 1..(next - 1) : \E i \in 1..Len(done') : done'[i] = decls'[j]
    BY <1>4, <2>1, <2>2, <2>3, <2>4
  <2> QED BY <2>2, <2>6, <2>7, <2>8, <2>9 DEF DoneOK
<1>7. BodiesOK'
  BY <1>4 DEF BodiesOK
<1> QED BY <1>4, <1>5, <1>6, <1>7

LEMMA NameTypeInv == IInv /\ NameType => IInv'
<1> SUFFICES ASSUME IInv, NameType PROVE IInv'
  OBVIOUS
<1>1. PICK e \in TypeEvents :
        LET t == TypeNamed(e)
            inst == Enter(t, Base + Len(Env))
        IN  /\ Part = "fields" => "field" \in Liberties \/ NamespaceOf(t) = ""
            /\ Event(e)
            /\ agreed' = (Unknown(t, currentNs) = Unknown(t, NamespaceOf(Frame.decl)))
            /\ LET going == WithFrame([Frame EXCEPT !.at = @ + 1])
               IN  IF t = <<"int">> \/ t \in instantiated \/ Unknown(t, currentNs)
                   THEN frames' = going /\ UNCHANGED <<instantiated, decls, done>>
                   ELSE /\ frames' = Append(going, inst)
                        /\ instantiated' = instantiated \cup {t}
                        /\ decls' = Append(decls, t) /\ done' = Append(done, t)
  BY DEF NameType, Marked
<1> DEFINE t == TypeNamed(e)
           g == [Frame EXCEPT !.at = Frame.at + 1]
           F == WithFrame(g)
           inst == Enter(t, Base + Len(Env))
           same == t = <<"int">> \/ t \in instantiated \/ Unknown(t, currentNs)
<1>2. /\ frames # <<>> /\ Frame.inside /\ Shape /\ Event(e)
      /\ agreed' = (Unknown(t, currentNs) = Unknown(t, NamespaceOf(Frame.decl)))
      /\ Part = "fields" => "field" \in Liberties \/ NamespaceOf(t) = ""
      /\ UNCHANGED <<table, next, rejected, scopes, currentClass, currentNs, lambdas, tracker>>
  BY <1>1 DEF NameType, IInv
<1>3. /\ StackOK(frames) /\ Frame \in DeclFrame /\ FrameOK(Frame) /\ Env = Frame.env /\ Base = Frame.base
      /\ Env \in Seq(Level) /\ Len(Env) \in Nat /\ Base \in Nat /\ Height(frames) = Base + Len(Env)
      /\ Part = PartOf(Frame) /\ Frame.decl \in Declarations
      /\ Len(frames) \in 1..Len(frames) /\ Frame = frames[Len(frames)]
  <2>1. StackOK(frames) /\ frames # <<>>
    BY <1>2 DEF Shape
  <2>2. Frame \in DeclFrame /\ FrameOK(Frame)
    BY <2>1, TopFacts
  <2>3. Frame.decl \in Declarations
    BY <2>2, PartFacts
  <2> QED BY <2>1, <2>3, TopFacts
<1>4. e \in EventSet /\ e.op = "type" /\ t \in Instances \cup {<<"int">>}
  BY <1>3, TypeNamedFacts
<1>5. Moved(g, Env) /\ g.env = Env
  <2>1. Frame \in DeclFrame
    BY <1>3
  <2>2. g = [Frame EXCEPT !.at = Frame.at + 1, !.env = Frame.env] /\ g.env = Frame.env
    BY <2>1 DEF DeclFrame
  <2> QED BY <1>3, <2>2 DEF Moved
<1>6. FrameOK(g)
  <2>1. g.decl = Frame.decl /\ g.part = Frame.part /\ g.inside = Frame.inside /\ g.env = Frame.env
    BY <1>3 DEF DeclFrame
  <2>2. Begun(g) = Begun(Frame)
    BY <2>1 DEF Begun, PartOf
  <2> QED BY <1>2, <1>3, <2>1, <2>2 DEF FrameOK
<1>7. IF same THEN frames' = F /\ UNCHANGED <<instantiated, decls, done>>
      ELSE /\ frames' = Append(F, inst) /\ instantiated' = instantiated \cup {t}
           /\ decls' = Append(decls, t) /\ done' = Append(done, t)
  BY <1>1
<1>8. F = WithFrame(g)
  OBVIOUS
<1> HIDE DEF t, g, F
<1>9. /\ SamePart(g) /\ TextOK' /\ DOMAIN bodies' = DOMAIN bodies
      /\ Turned(F, g) /\ StackOK(F) /\ DeclsKnown(F) /\ Height(F) = Base + Len(Env)
      /\ ReadsOK(bodies', F) /\ NamesOK(F, currentNs)
      /\ OpsIn(bodies', g) = OpsIn(bodies, Frame) \cup {e.op}
      /\ \A c : ClassOK(bodies, frames, c) => ClassOK(bodies', F, c)
  <2>1. Shape /\ e \in EventSet /\ Event(e) /\ Env \in Seq(Level)
    BY <1>2, <1>3, <1>4
  <2> QED BY <1>5, <1>6, <1>8, <2>1, EventStep
<1>10. LambdasOK(F, lambdas, tracker)
  <2>1. LambdasOK(frames, lambdas, tracker)
    BY <1>2 DEF Shape
  <2>2. SameKinds(g.env) /\ SameLambdas(lambdas) /\ Height(F) = Height(frames) /\ g.base = Frame.base
    BY <1>3, <1>5, <1>9, <2>1 DEF SameKinds, SameLambdas, LambdasOK, SamePart
  <2> QED BY <1>2, <1>3, <1>9, <2>1, <2>2, KeptLambdas
<1>11. Agree(frames, scopes) => Agree(F, scopes)
  <2> SUFFICES ASSUME Agree(frames, scopes) PROVE Agree(F, scopes)
    OBVIOUS
  <2>1. \A j \in 1..Len(g.env) : scopes[Base + j] = g.env[j].vars
    BY <1>3, <1>5 DEF Agree
  <2>2. g.base = Frame.base /\ Turned(F, g)
    BY <1>9 DEF SamePart
  <2> QED BY <1>2, <1>3, <2>1, <2>2, AgreeTurned
<1>12. ScopesOK(F, scopes)
  BY <1>2, <1>3, <1>9 DEF Shape, ScopesOK
(* What is true of F holds of the frames, with or without the instance. *)
<1>13. /\ ProgramOK' /\ DoneOK' /\ BodiesOK' /\ StackOK(frames)' /\ DeclsKnown(frames)'
       /\ ScopesOK(frames, scopes)' /\ ReadsOK(bodies, frames)' /\ LambdasOK(frames, lambdas, tracker)'
       /\ NamesOK(frames, currentNs)'
       /\ Agree(F, scopes) => Agree(frames', scopes')
       /\ ClassOK(bodies', F, currentClass) => ClassOK(bodies', frames', currentClass')
  <2>1. CASE same
    <3>1. frames' = F /\ UNCHANGED <<instantiated, decls, done>>
      BY <1>7, <2>1
    <3>2. ProgramOK' /\ DoneOK' /\ BodiesOK'
      <4>1. rejected' \subseteq Classes
        BY <1>2 DEF Shape, ProgramOK
      <4> QED BY <1>2, <1>9, <3>1, <4>1, SameProgram DEF Shape
    <3>3. DeclsKnown(frames)'
      BY <1>9, <3>1 DEF DeclsKnown
    <3> QED BY <1>2, <1>9, <1>10, <1>12, <3>1, <3>2, <3>3
  <2>2. CASE ~same
    <3>1. /\ frames' = Append(F, inst) /\ instantiated' = instantiated \cup {t}
          /\ decls' = Append(decls, t) /\ done' = Append(done, t)
      BY <1>7, <2>2
    <3>2. t \in Instances /\ t \notin instantiated /\ t \in Declarations
      BY <1>4, <2>2 DEF Declarations
    <3>3. ProgramOK' /\ DoneOK' /\ BodiesOK' /\ \A i \in 1..3 : decls'[i] = decls[i]
      BY <1>2, <1>9, <3>1, <3>2, InstanceAdded DEF Shape
    <3>4. Entered(inst, t, Base + Len(Env)) /\ IsInstance(t)
      BY <1>3, <3>2, EnterFrame, DeclFacts
    <3> HIDE DEF inst
    <3>5. F # <<>> /\ Len(F) = Len(frames) /\ F[Len(F)] = g /\ F[Len(F)].inside
      <4>1. g.inside
        BY <1>2, <1>3 DEF g, DeclFrame
      <4> QED BY <1>9, <4>1 DEF Turned
    <3>6. Topped(F, inst, frames') /\ StackOK(frames') /\ Height(frames') = Height(F)
      <4>1. Entered(inst, t, Height(F)) /\ StackOK(F)
        BY <1>9, <3>4
      <4>2. F # <<>> => F[Len(F)].inside /\ IsInstance(t)
        BY <3>4, <3>5
      <4> QED BY <3>1, <4>1, <4>2, ToppedStack
    <3>7. "type" \in OpsIn(bodies', F[Len(F)])
      BY <1>4, <1>9, <3>5
    <3>8. /\ \A p : LambdaAt(frames', p) <=> LambdaAt(F, p)
          /\ \A ns : NamesOK(F, ns) => NamesOK(frames', ns)
          /\ \A sc : Agree(F, sc) => Agree(frames', sc)
          /\ \A c, b : ClassOK(b, F, c) => ClassOK(b, frames', c)
          /\ \A b : ReadsOK(b, F) /\ (F # <<>> => "type" \in OpsIn(b, F[Len(F)])) => ReadsOK(b, frames')
      BY <1>3, <3>4, <3>5, <3>6, ToppedFacts
    <3>9. LambdasOK(frames', lambdas, tracker)
      BY <1>10, <3>6, <3>8 DEF LambdasOK
    <3>10. DeclsKnown(frames)'
      <4>1. inst.decl = t /\ Len(frames') = Len(F) + 1 /\ frames'[Len(F) + 1] = inst
            /\ \A k \in 1..Len(F) : frames'[k] = F[k]
        BY <3>4, <3>6 DEF Entered, Topped
      <4>2. \A k \in 1..Len(F) : F[k].decl \in Instances \/ \E i \in 1..3 : F[k].decl = decls[i]
        BY <1>9 DEF DeclsKnown
      <4>3. \A k \in 1..(Len(F) + 1) : k \in 1..Len(F) \/ k = Len(F) + 1
        BY <1>3, <3>5
      <4> QED BY <3>2, <3>3, <4>1, <4>2, <4>3 DEF DeclsKnown
    <3>11. ScopesOK(frames', scopes)
      BY <1>12, <3>6 DEF ScopesOK
    <3>12. ReadsOK(bodies', frames') /\ NamesOK(frames', currentNs)
      BY <1>9, <3>7, <3>8
    <3> QED BY <1>2, <3>3, <3>6, <3>8, <3>9, <3>10, <3>11, <3>12
  <2> QED BY <2>1, <2>2
<1>14. Shape'
  BY <1>9, <1>13 DEF Shape
<1>15. ASSUME Liberties = {} PROVE Lexical'
  <2>1. Lexical
    BY <1>15 DEF IInv
  <2>2. agreed'
    <3>1. CASE Begun(Frame)
      <4>1. currentNs = NamespaceOf(Frame.decl)
        BY <1>2, <1>3, <3>1 DEF Shape, NamesOK, NamesAre
      <4> QED BY <1>2, <4>1
    <3>2. CASE ~Begun(Frame)
      <4>1. Part = "fields"
        BY <1>2, <1>3, <3>2 DEF Begun, FrameOK
      <4>2. NamespaceOf(t) = ""
        BY <1>2, <1>15, <4>1
      <4> QED BY <1>2, <4>2 DEF Unknown
    <3> QED BY <3>1, <3>2
  <2>3. Agree(frames', scopes') /\ ClassOK(bodies', frames', currentClass')
    BY <1>9, <1>11, <1>13, <2>1 DEF Lexical
  <2>4. CapturesExact'
    BY <1>2, <2>1 DEF Lexical, CapturesExact
  <2> QED BY <2>2, <2>3, <2>4 DEF Lexical
<1> QED BY <1>14, <1>15 DEF IInv

-----------------------------------------------------------------------------
(* The parts of declarations.                                              *)

BodyLevel == [vars |-> {}, kind |-> "body"]

LEMMA BeginPartInv == IInv /\ BeginPart => IInv'
<1> SUFFICES ASSUME IInv, BeginPart PROVE IInv'
  OBVIOUS
<1> DEFINE p == Parts(Frame.decl)[Frame.part + 1]
           first == p \in {"constructor", "function"}
           env == IF p = "fields" THEN <<>> ELSE <<BodyLevel>>
           saved == IF first THEN currentNs ELSE Frame.saved
           g == [Frame EXCEPT !.part = Frame.part + 1, !.inside = TRUE, !.env = env, !.saved = saved]
           n == Len(frames)
           d == Frame.decl
<1>1. /\ frames # <<>> /\ ~Frame.inside /\ Frame.part < Len(Parts(d))
      /\ frames' = WithFrame(g)
      /\ scopes' = (IF p = "fields" THEN scopes ELSE Append(scopes, {}))
      /\ currentClass' = (IF p \in {"fields", "function"} THEN currentClass ELSE d)
      /\ currentNs' = (IF first THEN NamespaceOf(d) ELSE currentNs)
      /\ UNCHANGED <<program, text, lambdas, tracker, agreed>> /\ Shape
  BY DEF BeginPart, IInv, BodyLevel
<1>2. /\ StackOK(frames) /\ Frame \in DeclFrame /\ FrameOK(Frame) /\ Env = Frame.env /\ Base = Frame.base
      /\ Base \in Nat /\ Height(frames) = Base + Len(Env)
      /\ n \in 1..n /\ n \in Nat \ {0} /\ Frame = frames[n] /\ LambdasOK(frames, lambdas, tracker)
  <2>1. StackOK(frames) /\ LambdasOK(frames, lambdas, tracker)
    BY <1>1 DEF Shape
  <2> QED BY <1>1, <2>1, TopFacts
<1>3. /\ d \in Declarations /\ Frame.part \in Nat /\ Env = <<>> /\ Frame.at = 0 /\ Len(Env) = 0
  <2>1. d \in Declarations /\ Frame.part \in 0..4
    BY <1>2, PartFacts
  <2>2. Frame.env = <<>> /\ Frame.at = 0
    BY <1>1, <1>2 DEF FrameOK
  <2> QED BY <1>2, <2>1, <2>2
(* The next part, and what there was. *)
<1>4. /\ Frame.part + 1 \in 1..Len(Parts(d))
      /\ p = "fields" <=> IsClass(d) /\ Frame.part = 0
      /\ p = "constructor" <=> IsClass(d) /\ Frame.part = 1
      /\ p = "function" <=> ~IsClass(d)
      /\ p = "function" => Frame.part = 0
      /\ first => ~Begun(Frame)
      /\ ~first /\ p # "fields" => Begun(Frame)
      /\ p = "fields" => ~Begun(Frame)
  <2>1. CASE IsClass(d)
    <3>1. Parts(d) = <<"fields", "constructor", "method", "destructor">> /\ Len(Parts(d)) = 4
      BY <1>3, <2>1, DeclFacts
    <3>2. Frame.part = 0 \/ Frame.part = 1 \/ Frame.part = 2 \/ Frame.part = 3
      BY <1>1, <1>3, <3>1
    <3>3. Begun(Frame) <=> Frame.part # 0 /\ Frame.part # 1
      BY <1>2, <2>1, PartFacts
    <3> QED BY <2>1, <3>1, <3>2, <3>3
  <2>2. CASE ~IsClass(d)
    <3>1. Parts(d) = <<"function">> /\ Len(Parts(d)) = 1
      BY <1>3, <2>2, DeclFacts
    <3>2. Frame.part = 0
      BY <1>1, <1>3, <3>1
    <3>3. ~Begun(Frame)
      BY <3>2 DEF Begun
    <3> QED BY <2>2, <3>1, <3>2, <3>3
  <2> QED BY <2>1, <2>2
<1>5. PICK h \in [0..n -> Namespaces] : NamesAre(frames, h) /\ h[n] = currentNs
  BY <1>1 DEF Shape, NamesOK
<1>6. currentNs \in Namespaces /\ Frame.saved \in Namespaces /\ NamespaceOf(d) \in Namespaces
  <2>1. n \in 0..n
    BY <1>2
  <2> QED BY <1>2, <1>3, <1>5, <2>1, DeclFacts DEF DeclFrame
<1>7. BodyLevel \in Level /\ BodyLevel.kind = "body" /\ ~IsLambda(BodyLevel) /\ BodyLevel.vars = {}
  BY DEF BodyLevel, Level, IsLambda
<1>8. /\ env \in Seq(Level) /\ Len(env) = IF p = "fields" THEN 0 ELSE 1
      /\ p = "fields" => env = <<>>
      /\ p # "fields" => env # <<>> /\ env[1] = BodyLevel
  BY <1>7
<1>9. saved \in Namespaces
  BY <1>6
<1>10. /\ g.decl = d /\ g.part = Frame.part + 1 /\ g.inside /\ g.env = env /\ g.saved = saved
       /\ g.base = Frame.base /\ g.at = 0 /\ g \in DeclFrame
  <2> HIDE DEF env, saved
  <2>1. /\ Frame \in DeclFrame /\ Frame.part + 1 \in Nat /\ env \in Seq(Level) /\ saved \in Namespaces
        /\ Frame.at = 0
    BY <1>2, <1>3, <1>8, <1>9
  <2> QED BY <2>1 DEF DeclFrame
<1> HIDE DEF g
<1>11. PartOf(g) = p /\ g.part # 0 /\ (Begun(g) <=> p # "fields")
  BY <1>3, <1>10 DEF PartOf, Begun
<1> HIDE DEF env, p
<1>12. FrameOK(g)
  <2>1. \A j \in 2..Len(g.env) : g.env[j].kind # "body"
    <3>1. Len(g.env) = 0 \/ Len(g.env) = 1
      BY <1>8, <1>10
    <3> QED BY <3>1
  <2>2. g.part \in 0..Len(Parts(g.decl))
    BY <1>4, <1>10
  <2>3. ~Begun(g) => g.env = <<>>
    BY <1>8, <1>10, <1>11
  <2>4. Begun(g) => g.env # <<>> /\ g.env[1].kind = "body"
    BY <1>7, <1>8, <1>10, <1>11
  <2> QED BY <1>10, <1>11, <2>1, <2>2, <2>3, <2>4 DEF FrameOK
<1> DEFINE F == frames'
<1>13. Turned(F, g) /\ StackOK(F) /\ DeclsKnown(F) /\ Height(F) = Base + Len(env)
  BY <1>1, <1>2, <1>10, <1>12, TurnedStack DEF Shape
<1>14. /\ Len(F) = n /\ F[n] = g /\ \A k \in 1..n : k # n => F[k] = frames[k]
  BY <1>13 DEF Turned
<1> HIDE DEF F
<1>15. LambdasOK(F, lambdas, tracker)
  <2>1. SameLambdas(lambdas)
    BY <1>2 DEF SameLambdas, LambdasOK
  <2>2. CASE p = "fields"
    <3>1. g.base = Frame.base /\ SameKinds(g.env) /\ Height(F) = Height(frames)
      BY <1>2, <1>3, <1>8, <1>10, <1>13, <2>2 DEF SameKinds
    <3> QED BY <1>1, <1>2, <1>13, <2>1, <3>1, KeptLambdas
  <2>3. CASE p # "fields"
    <3>1. Append(<<>>, BodyLevel) = <<BodyLevel>>
      OBVIOUS
    <3>2. Pushed(g, BodyLevel)
      BY <1>3, <1>10, <2>3, <3>1 DEF Pushed, env
    <3>3. Height(F) = Height(frames) + 1
      BY <1>2, <1>3, <1>8, <1>13, <2>3
    <3> QED BY <1>1, <1>2, <1>7, <1>13, <2>1, <3>2, <3>3, PushedBlock
  <2> QED BY <2>2, <2>3
<1>16. /\ scopes' \in Seq(SUBSET Variable) /\ Len(scopes') = Base + Len(env)
       /\ \A i \in 1..Base : scopes'[i] = scopes[i]
       /\ \A j \in 1..Len(env) : scopes'[Base + j] = env[j].vars
  <2>1. scopes \in Seq(SUBSET Variable) /\ Len(scopes) = Base
    BY <1>1, <1>2, <1>3 DEF Shape, ScopesOK
  <2>2. CASE p = "fields"
    BY <1>1, <1>2, <1>8, <2>1, <2>2
  <2>3. CASE p # "fields"
    <3>1. scopes' = Append(scopes, {}) /\ {} \in SUBSET Variable
      BY <1>1, <2>3
    <3>2. /\ scopes' \in Seq(SUBSET Variable) /\ Len(scopes') = Base + 1 /\ scopes'[Base + 1] = {}
          /\ \A i \in 1..Base : scopes'[i] = scopes[i]
      BY <2>1, <3>1, AppendProperties
    <3>3. Len(env) = 1 /\ env[1].vars = {} /\ \A j \in 1..1 : j = 1
      BY <1>7, <1>8, <2>3
    <3> QED BY <3>2, <3>3
  <2> QED BY <2>2, <2>3
<1>17. ReadsOK(bodies', F)
  <2>1. bodies' = bodies /\ Len(bodies[KeyOf(g)]) >= 0
    <3>1. bodies' = bodies
      BY <1>1 DEF text
    <3>2. BodiesOK /\ TextOK /\ (d \in Instances \/ \E i \in 1..3 : d = decls[i])
      BY <1>1, <1>2 DEF Shape, DeclsKnown
    <3>3. KeyOf(g) \in DOMAIN bodies
      BY <1>3, <1>4, <1>10, <3>2 DEF BodiesOK, KeyOf, PartOf
    <3>4. bodies[KeyOf(g)] \in Seq(EventSet)
      BY <3>2, <3>3 DEF TextOK
    <3> QED BY <3>1, <3>4
  <2>2. ReadOK(bodies, g)
    BY <1>10, <2>1 DEF ReadOK
  <2>3. ReadsOK(bodies, frames)
    BY <1>1 DEF Shape
  <2> QED BY <1>2, <1>14, <2>1, <2>2, <2>3 DEF ReadsOK
<1>18. NamesOK(F, currentNs')
  <2> DEFINE G == [h EXCEPT ![n] = currentNs']
  <2>1. n \in 0..n /\ n - 1 \in 0..n /\ n - 1 # n /\ 0 # n /\ 0 \in 0..n
    BY <1>2
  <2>2. currentNs' \in Namespaces
    BY <1>1, <1>6
  <2>3. G \in [0..n -> Namespaces] /\ G[n] = currentNs' /\ \A k \in 0..n : k # n => G[k] = h[k]
    BY <1>5, <2>1, <2>2
  <2> HIDE DEF G
  <2>4. NamesAre(F, G)
    <3>1. G[0] = ""
      BY <1>5, <2>1, <2>3 DEF NamesAre
    <3>2. ASSUME NEW k \in 1..n, k # n
          PROVE  /\ Begun(F[k]) => G[k] = NamespaceOf(F[k].decl) /\ F[k].saved = G[k - 1]
                 /\ ~Begun(F[k]) => G[k] = G[k - 1]
      <4>1. k \in 0..n /\ k - 1 \in 0..n /\ k - 1 # n
        BY <1>2, <3>2
      <4>2. F[k] = frames[k] /\ G[k] = h[k] /\ G[k - 1] = h[k - 1]
        BY <1>14, <2>3, <3>2, <4>1
      <4> QED BY <1>5, <4>2 DEF NamesAre
    <3>3. /\ Begun(g) => G[n] = NamespaceOf(g.decl) /\ g.saved = G[n - 1]
          /\ ~Begun(g) => G[n] = G[n - 1]
      <4>1. /\ Begun(Frame) => h[n] = NamespaceOf(d) /\ Frame.saved = h[n - 1]
            /\ ~Begun(Frame) => h[n] = h[n - 1]
        BY <1>2, <1>5 DEF NamesAre
      <4>2. G[n] = currentNs' /\ G[n - 1] = h[n - 1] /\ h[n] = currentNs
        BY <1>5, <2>1, <2>3
      <4>3. CASE first
        BY <1>1, <1>4, <1>10, <1>11, <4>1, <4>2, <4>3
      <4>4. CASE ~first
        BY <1>1, <1>4, <1>10, <1>11, <4>1, <4>2, <4>4
      <4> QED BY <4>3, <4>4
    <3> QED BY <1>14, <3>1, <3>2, <3>3 DEF NamesAre
  <2> QED BY <1>14, <2>3, <2>4 DEF NamesOK
<1>19. Shape'
  <2>1. ProgramOK' /\ DoneOK' /\ BodiesOK' /\ TextOK' /\ DeclsKnown(frames)'
    <3>1. bodies' = bodies /\ written' = written /\ UNCHANGED <<decls, next, instantiated, done, rejected>>
      BY <1>1 DEF text, program
    <3>2. ProgramOK' /\ DoneOK' /\ BodiesOK'
      BY <1>1, <3>1, SameProgram DEF Shape, ProgramOK
    <3>3. TextOK'
      BY <1>1, <3>1 DEF Shape, TextOK
    <3>4. DeclsKnown(frames)'
      BY <1>13, <3>1 DEF DeclsKnown, F
    <3> QED BY <3>2, <3>3, <3>4
  <2>2. (StackOK(frames) /\ ScopesOK(frames, scopes) /\ ReadsOK(bodies, frames))'
    BY <1>13, <1>16, <1>17 DEF ScopesOK, F
  <2>3. LambdasOK(frames, lambdas, tracker)' /\ NamesOK(frames, currentNs)'
    BY <1>1, <1>15, <1>18 DEF F
  <2> QED BY <2>1, <2>2, <2>3 DEF Shape
<1>20. Lexical => Lexical'
  <2> SUFFICES ASSUME Lexical PROVE Lexical'
    OBVIOUS
  <2>1. Agree(F, scopes')
    <3>1. Agree(frames, scopes)
      BY DEF Lexical
    <3>2. g.base = Frame.base /\ \A j \in 1..Len(g.env) : scopes'[Base + j] = g.env[j].vars
      BY <1>10, <1>16
    <3>3. \A i \in 1..Base : scopes'[i] = scopes[i]
      BY <1>16
    <3>4. StackOK(frames) /\ frames # <<>> /\ Turned(F, g)
      BY <1>1, <1>2, <1>13
    <3> QED BY <3>1, <3>2, <3>3, <3>4, AgreeTurned
  <2>2. ClassOK(bodies', F, currentClass')
    <3>1. (\A k \in 1..n : ~IsClass(F[k].decl)) => currentClass' = none
      <4> SUFFICES ASSUME \A k \in 1..n : ~IsClass(F[k].decl) PROVE currentClass' = none
        OBVIOUS
      <4>1. \A k \in 1..n : ~IsClass(frames[k].decl)
        BY <1>2, <1>10, <1>14
      <4>2. ~IsClass(d)
        BY <1>2, <4>1
      <4>3. currentClass = none
        BY <4>1 DEF Lexical, ClassOK
      <4> QED BY <1>1, <1>4, <4>2, <4>3
    <3>2. Begun(g) /\ IsClass(g.decl) => currentClass' = g.decl
      BY <1>1, <1>4, <1>10, <1>11
    <3> QED BY <1>14, <3>1, <3>2 DEF ClassOK
  <2>3. agreed' /\ CapturesExact'
    BY <1>1 DEF Lexical, CapturesExact
  <2> QED BY <2>1, <2>2, <2>3 DEF Lexical, F
<1> QED BY <1>19, <1>20 DEF IInv

LEMMA EndPartInv == IInv /\ EndPart => IInv'
<1> SUFFICES ASSUME IInv, EndPart PROVE IInv'
  OBVIOUS
<1> DEFINE e == [op |-> "end"]
           g == [Frame EXCEPT !.inside = FALSE, !.at = 0, !.env = <<>>]
           n == Len(frames)
<1>1. /\ frames # <<>> /\ Frame.inside /\ Len(Env) <= 1 /\ Event(e) /\ Shape
      /\ frames' = WithFrame(g)
      /\ scopes' = (IF Part = "fields" THEN scopes ELSE Front(scopes))
      /\ currentClass' = (IF Part = "method" THEN none ELSE currentClass)
      /\ UNCHANGED <<program, currentNs, lambdas, tracker, agreed>>
  BY DEF EndPart, IInv
<1>2. /\ StackOK(frames) /\ Frame \in DeclFrame /\ FrameOK(Frame) /\ Env = Frame.env /\ Base = Frame.base
      /\ Base \in Nat /\ Height(frames) = Base + Len(Env) /\ Env \in Seq(Level) /\ Len(Env) \in Nat
      /\ Part = PartOf(Frame)
      /\ n \in 1..n /\ n \in Nat \ {0} /\ Frame = frames[n] /\ LambdasOK(frames, lambdas, tracker)
      /\ scopes \in Seq(SUBSET Variable) /\ Len(scopes) = Base + Len(Env)
      /\ \A k \in 1..n : frames[k] \in DeclFrame /\ FrameOK(frames[k])
                         /\ (k # n => frames[k].inside /\ frames[k].part # 0)
  <2>1. StackOK(frames) /\ LambdasOK(frames, lambdas, tracker) /\ ScopesOK(frames, scopes)
    BY <1>1 DEF Shape
  <2>2. scopes \in Seq(SUBSET Variable) /\ Len(scopes) = Base + Len(Env)
    BY <1>1, <2>1, TopFacts DEF ScopesOK
  <2> QED BY <1>1, <2>1, <2>2, TopFacts
<1>3. TextOK' /\ Wider(bodies, bodies')
  <2>1. e \in EventSet
    BY DEF EventSet
  <2>2. TextOK /\ BodiesOK /\ DeclsKnown(frames) /\ ReadsOK(bodies, frames)
    BY <1>1 DEF Shape
  <2> HIDE DEF e
  <2> QED BY <1>1, <1>2, <2>1, <2>2, EventText
<1>4. /\ g.decl = Frame.decl /\ g.part = Frame.part /\ ~g.inside /\ g.env = <<>> /\ g.saved = Frame.saved
      /\ g.base = Frame.base /\ g.at = 0 /\ g \in DeclFrame /\ Len(g.env) = 0
  <2>1. <<>> \in Seq(Level)
    OBVIOUS
  <2> QED BY <1>2, <2>1 DEF DeclFrame
<1> HIDE DEF g
<1>5. FrameOK(g) /\ SamePart(g) /\ Begun(g) = Begun(Frame)
  <2>1. g.part \in 0..Len(Parts(g.decl))
    BY <1>2, <1>4 DEF FrameOK
  <2> QED BY <1>4, <2>1 DEF FrameOK, SamePart, Begun, PartOf
<1>6. Part = "fields" => Env = <<>> /\ Len(Env) = 0
  BY <1>1, <1>2 DEF FrameOK, Begun
<1>7. Part # "fields" => Len(Env) = 1 /\ Env # <<>> /\ Env[1].kind = "body"
  <2> SUFFICES ASSUME Part # "fields" PROVE Len(Env) = 1 /\ Env # <<>> /\ Env[1].kind = "body"
    OBVIOUS
  <2>1. Begun(Frame)
    BY <1>1, <1>2 DEF FrameOK, Begun
  <2>2. Env # <<>> /\ Env[1].kind = "body"
    BY <1>1, <1>2, <2>1 DEF FrameOK
  <2> DEFINE m == Len(Env)
  <2>3. Env \in Seq(Level) /\ m \in Nat /\ m <= 1
    BY <1>1, <1>2
  <2>4. m # 0
    BY <2>2, <2>3
  <2> HIDE DEF m
  <2>5. m = 1
    BY <2>3, <2>4
  <2> QED BY <2>2, <2>5 DEF m
<1> DEFINE F == frames'
<1>8. Turned(F, g) /\ StackOK(F) /\ DeclsKnown(F) /\ Height(F) = Base
  <2>1. DeclsKnown(frames)
    BY <1>1 DEF Shape
  <2>2. Turned(F, g) /\ StackOK(F) /\ DeclsKnown(F) /\ Height(F) = Base + Len(g.env)
    BY <1>1, <1>2, <1>4, <1>5, <2>1, TurnedStack
  <2> QED BY <1>2, <1>4, <2>2
<1> HIDE DEF F
<1>9. /\ Len(F) = n /\ F[n] = g /\ \A k \in 1..n : k # n => F[k] = frames[k]
  BY <1>8 DEF Turned
<1>10. LambdasOK(F, lambdas, tracker)
  <2>1. CASE Part = "fields"
    <3>1. g.base = Frame.base /\ SameKinds(g.env) /\ Height(F) = Height(frames)
      BY <1>2, <1>4, <1>6, <1>8, <2>1 DEF SameKinds
    <3>2. SameLambdas(lambdas)
      BY <1>2 DEF SameLambdas, LambdasOK
    <3> QED BY <1>1, <1>2, <1>8, <3>1, <3>2, KeptLambdas
  <2>2. CASE Part # "fields"
    <3>1. Front(Env) = <<>>
      <4>1. Front(Env) \in Seq(Level) /\ Len(Front(Env)) = Len(Env) - 1
        BY <1>2, <1>7, <2>2, FrontFacts
      <4>2. Len(Front(Env)) = 0
        BY <1>7, <2>2, <4>1
      <4> QED BY <4>1, <4>2
    <3>2. Popped(g)
      BY <1>4, <3>1 DEF Popped
    <3>3. ~IsLambda(Last(Env))
      <4>1. Last(Env) = Env[1]
        BY <1>7, <2>2 DEF Last
      <4> QED BY <1>7, <2>2, <4>1 DEF IsLambda
    <3>4. Height(F) = Height(frames) - 1 /\ Env # <<>>
      <4>1. Base \in Nat /\ Height(frames) = Base + Len(Env) /\ Len(Env) = 1 /\ Height(F) = Base /\ Env # <<>>
        BY <1>2, <1>7, <1>8, <2>2
      <4> QED BY <4>1
    <3>5. StackOK(frames) /\ frames # <<>> /\ LambdasOK(frames, lambdas, tracker) /\ Turned(F, g)
      BY <1>1, <1>2, <1>8
    <3> QED BY <3>2, <3>3, <3>4, <3>5, PoppedBlock
  <2> QED BY <2>1, <2>2
<1>11. /\ scopes' \in Seq(SUBSET Variable) /\ Len(scopes') = Base
       /\ \A i \in 1..Base : scopes'[i] = scopes[i]
  <2>1. CASE Part = "fields"
    BY <1>1, <1>2, <1>6, <2>1
  <2>2. CASE Part # "fields"
    <3>1. Len(scopes) = Base + 1 /\ scopes # <<>>
      <4>1. scopes \in Seq(SUBSET Variable) /\ Len(scopes) = Base + Len(Env) /\ Base \in Nat /\ Len(Env) = 1
        BY <1>2, <1>7, <2>2
      <4> QED BY <4>1
    <3>2. /\ Front(scopes) \in Seq(SUBSET Variable) /\ Len(Front(scopes)) = Len(scopes) - 1
          /\ \A i \in 1..(Len(scopes) - 1) : Front(scopes)[i] = scopes[i]
      BY <1>2, <3>1, FrontFacts
    <3>3. Len(scopes) - 1 = Base
      BY <1>2, <3>1
    <3> QED BY <1>1, <2>2, <3>2, <3>3
  <2> QED BY <2>1, <2>2
<1>12. ASSUME NEW k \in 1..n, k # n
       PROVE  OpsIn(bodies', frames[k]) = OpsIn(bodies, frames[k]) /\ ReadOK(bodies', frames[k])
  <2>1. frames[k].at \in Nat /\ frames[k].inside /\ frames[k].part # 0
    BY <1>2, <1>12, PartFacts
  <2>2. KeyOf(frames[k]) \in DOMAIN bodies
    BY <1>1, <2>1, KeysKnown DEF Shape
  <2>3. frames[k].at <= Len(bodies[KeyOf(frames[k])])
    BY <1>1, <2>1 DEF Shape, ReadsOK, ReadOK
  <2> QED BY <1>3, <2>1, <2>2, <2>3, SameOps DEF ReadOK
<1>13. ReadsOK(bodies', F)
  <2>1. ReadOK(bodies', g)
    BY <1>4 DEF ReadOK
  <2>2. \A k \in 1..n : ReadOK(bodies', F[k])
    BY <1>9, <1>12, <2>1
  <2>3. \A k \in 1..n : k < n => "type" \in OpsIn(bodies', F[k])
    <3> SUFFICES ASSUME NEW k \in 1..n, k < n PROVE "type" \in OpsIn(bodies', F[k])
      OBVIOUS
    <3>1. k # n /\ "type" \in OpsIn(bodies, frames[k])
      BY <1>1, <1>2 DEF Shape, ReadsOK
    <3> QED BY <1>9, <1>12, <3>1
  <2> QED BY <1>9, <2>2, <2>3 DEF ReadsOK
<1>14. NamesOK(F, currentNs)
  BY <1>1, <1>2, <1>5, <1>8, TurnedNames DEF Shape
<1>15. Shape'
  <2>1. ProgramOK' /\ DoneOK' /\ BodiesOK' /\ DeclsKnown(frames)'
    <3>1. DOMAIN bodies' = DOMAIN bodies /\ UNCHANGED <<decls, next, instantiated, done, rejected>>
      BY <1>1, <1>3 DEF Wider, program
    <3>2. ProgramOK' /\ DoneOK' /\ BodiesOK'
      BY <1>1, <3>1, SameProgram DEF Shape, ProgramOK
    <3>3. DeclsKnown(frames)'
      BY <1>8, <3>1 DEF DeclsKnown, F
    <3> QED BY <3>2, <3>3
  <2>2. (StackOK(frames) /\ ScopesOK(frames, scopes) /\ ReadsOK(bodies, frames))'
    BY <1>8, <1>11, <1>13 DEF ScopesOK, F
  <2>3. LambdasOK(frames, lambdas, tracker)' /\ NamesOK(frames, currentNs)'
    BY <1>1, <1>10, <1>14 DEF F
  <2> QED BY <1>3, <2>1, <2>2, <2>3 DEF Shape
<1>16. Lexical => Lexical'
  <2> SUFFICES ASSUME Lexical PROVE Lexical'
    OBVIOUS
  <2>1. Agree(F, scopes')
    <3>1. Agree(frames, scopes)
      BY DEF Lexical
    <3>2. g.base = Frame.base /\ \A j \in 1..Len(g.env) : scopes'[Base + j] = g.env[j].vars
      BY <1>4
    <3>3. StackOK(frames) /\ frames # <<>> /\ Turned(F, g)
      BY <1>1, <1>2, <1>8
    <3> QED BY <1>11, <3>1, <3>2, <3>3, AgreeTurned
  <2>2. ClassOK(bodies', F, currentClass')
    <3>1. (\A k \in 1..n : ~IsClass(F[k].decl)) => currentClass' = none
      <4> SUFFICES ASSUME \A k \in 1..n : ~IsClass(F[k].decl) PROVE currentClass' = none
        OBVIOUS
      <4>1. \A k \in 1..n : ~IsClass(frames[k].decl)
        BY <1>2, <1>4, <1>9
      <4>2. currentClass = none
        BY <4>1 DEF Lexical, ClassOK
      <4> QED BY <1>1, <4>2
    <3> QED BY <1>4, <1>9, <3>1 DEF ClassOK
  <2>3. agreed' /\ CapturesExact'
    BY <1>1 DEF Lexical, CapturesExact
  <2> QED BY <2>1, <2>2, <2>3 DEF Lexical, F
<1> QED BY <1>15, <1>16 DEF IInv

LEMMA EndDeclInv == IInv /\ EndDecl => IInv'
<1> SUFFICES ASSUME IInv, EndDecl PROVE IInv'
  OBVIOUS
<1> DEFINE n == Len(frames)
           F == Front(frames)
<1>1. /\ frames # <<>> /\ ~Frame.inside /\ Frame.part = Len(Parts(Frame.decl)) /\ frames' = F /\ Shape
      /\ currentClass' = (IF IsClass(Frame.decl) THEN none ELSE currentClass)
      /\ currentNs' = Frame.saved
      /\ UNCHANGED <<program, text, scopes, lambdas, tracker, agreed>>
  BY DEF EndDecl, NsAfter, IInv
<1>2. /\ StackOK(frames) /\ Frame \in DeclFrame /\ FrameOK(Frame) /\ Env = Frame.env /\ Base = Frame.base
      /\ Base \in Nat /\ Height(frames) = Base + Len(Env)
      /\ n \in 1..n /\ n \in Nat \ {0} /\ Frame = frames[n]
  <2>1. StackOK(frames)
    BY <1>1 DEF Shape
  <2> QED BY <1>1, <2>1, TopFacts
<1>3. Frame.env = <<>> /\ Len(Frame.env) = 0 /\ Height(frames) = Base /\ Begun(Frame)
  <2>1. Frame.env = <<>>
    BY <1>1, <1>2 DEF FrameOK
  <2>2. Begun(Frame)
    <3>1. Frame.decl \in Declarations /\ (Begun(Frame) <=> (Frame.part # 0 /\ (IsClass(Frame.decl) => Frame.part # 1)))
      BY <1>2, PartFacts
    <3>2. Frame.part = 1 \/ Frame.part = 4
      BY <1>1, <3>1, DeclFacts
    <3>3. IsClass(Frame.decl) => Frame.part = 4
      BY <1>1, <3>1, DeclFacts
    <3> QED BY <3>1, <3>2, <3>3
  <2> QED BY <1>2, <2>1, <2>2
<1>4. F \in Seq(DeclFrame) /\ Len(F) = n - 1 /\ \A k \in 1..(n - 1) : F[k] = frames[k]
  BY <1>1, <1>2, FrontFacts DEF StackOK
<1>5. F = <<>> \/ (n - 1 \in 1..n /\ F # <<>>)
  BY <1>2, <1>4
<1>6. \A k \in 1..Len(F) : k \in 1..n /\ k # n /\ F[k] = frames[k]
  BY <1>2, <1>4
<1> HIDE DEF F
<1>7. StackOK(F) /\ Height(F) = Base
  <2>1. StackOK(F)
    <3>1. \A k \in 1..Len(F) : FrameOK(F[k])
      BY <1>2, <1>6 DEF StackOK
    <3>2. F # <<>> => F[1].base = 0
      <4>1. F # <<>> => 1 \in 1..Len(F)
        BY <1>4
      <4> QED BY <1>1, <1>2, <1>6, <4>1 DEF StackOK
    <3>3. \A k, l \in 1..Len(F) : k < l => Ceiling(F[k]) <= F[l].base
      BY <1>2, <1>6 DEF StackOK
    <3>4. \A k, l \in 1..Len(F) : l = k + 1 => F[k].inside /\ F[l].base = Ceiling(F[k]) /\ IsInstance(F[l].decl)
      <4> SUFFICES ASSUME NEW k \in 1..Len(F), NEW l \in 1..Len(F), l = k + 1
                   PROVE  F[k].inside /\ F[l].base = Ceiling(F[k]) /\ IsInstance(F[l].decl)
        OBVIOUS
      <4>1. F[k] = frames[k] /\ F[l] = frames[l] /\ k \in 1..n /\ l \in 1..n
        BY <1>6
      <4>2. frames[k].inside /\ frames[l].base = Ceiling(frames[k]) /\ IsInstance(frames[l].decl)
        BY <1>2, <4>1 DEF StackOK
      <4> QED BY <4>1, <4>2
    <3> QED BY <1>4, <3>1, <3>2, <3>3, <3>4 DEF StackOK
  <2>2. Height(F) = Base
    <3>1. CASE F = <<>>
      <4>1. n = 1
        BY <1>2, <1>4, <3>1
      <4>2. frames[1].base = 0
        BY <1>1, <1>2 DEF StackOK
      <4> QED BY <1>2, <3>1, <4>1, <4>2 DEF Height
    <3>2. CASE F # <<>>
      <4>1. n - 1 \in 1..n /\ n = (n - 1) + 1 /\ Len(F) \in 1..Len(F) /\ Len(F) = n - 1
        BY <1>2, <1>4, <1>5, <3>2
      <4>2. frames[n].base = Ceiling(frames[n - 1])
        BY <1>2, <4>1 DEF StackOK
      <4> QED BY <1>2, <1>6, <3>2, <4>1, <4>2 DEF Height
    <3> QED BY <3>1, <3>2
  <2> QED BY <2>1, <2>2
<1>8. \A p : LambdaAt(F, p) <=> LambdaAt(frames, p)
  <2> SUFFICES ASSUME NEW p PROVE LambdaAt(F, p) <=> LambdaAt(frames, p)
    OBVIOUS
  <2>1. LambdaAt(F, p) => LambdaAt(frames, p)
    BY <1>6 DEF LambdaAt
  <2>2. ASSUME LambdaAt(frames, p) PROVE LambdaAt(F, p)
    <3>1. PICK k \in 1..n : \E j \in 1..Len(frames[k].env) : p = frames[k].base + j /\ IsLambda(frames[k].env[j])
      BY <2>2 DEF LambdaAt
    <3>2. k # n
      BY <1>2, <1>3, <3>1
    <3>3. k \in 1..Len(F)
      BY <1>2, <1>4, <3>2
    <3> QED BY <1>6, <3>1, <3>3 DEF LambdaAt
  <2> QED BY <2>1, <2>2
<1>9. LambdasOK(F, lambdas, tracker)
  <2>1. LambdasOK(frames, lambdas, tracker) /\ Height(F) = Height(frames)
    BY <1>1, <1>3, <1>7 DEF Shape
  <2> QED BY <1>8, <2>1 DEF LambdasOK
<1>10. ReadsOK(bodies, F) /\ \A k \in 1..Len(F) : "type" \in OpsIn(bodies, F[k])
  <2>1. ReadsOK(bodies, frames)
    BY <1>1 DEF Shape
  <2>2. \A k \in 1..Len(F) : k < n
    BY <1>2, <1>4
  <2>3. \A k \in 1..Len(F) : ReadOK(bodies, F[k]) /\ "type" \in OpsIn(bodies, F[k])
    BY <1>6, <2>1, <2>2 DEF ReadsOK
  <2> QED BY <2>3 DEF ReadsOK
<1>11. NamesOK(F, Frame.saved)
  <2>1. PICK h \in [0..n -> Namespaces] : NamesAre(frames, h) /\ h[n] = currentNs
    BY <1>1 DEF Shape, NamesOK
  <2>2. Frame.saved = h[n - 1]
    BY <1>2, <1>3, <2>1 DEF NamesAre
  <2> DEFINE G == [k \in 0..(n - 1) |-> h[k]]
  <2>3. \A k \in 0..(n - 1) : k \in 0..n
    BY <1>2
  <2>4. 0 \in 0..(n - 1) /\ n - 1 \in 0..(n - 1) /\ \A k \in 1..(n - 1) : k \in 0..(n - 1) /\ k - 1 \in 0..(n - 1)
    BY <1>2
  <2>5. G \in [0..(n - 1) -> Namespaces] /\ \A k \in 0..(n - 1) : G[k] = h[k]
    BY <2>1, <2>3
  <2> HIDE DEF G
  <2>6. NamesAre(F, G)
    <3>1. G[0] = ""
      BY <2>1, <2>4, <2>5 DEF NamesAre
    <3>2. \A k \in 1..(n - 1) : F[k] = frames[k] /\ k \in 1..n /\ G[k] = h[k] /\ G[k - 1] = h[k - 1]
      BY <1>4, <1>6, <2>4, <2>5
    <3> QED BY <1>4, <2>1, <3>1, <3>2 DEF NamesAre
  <2>7. G[n - 1] = Frame.saved
    BY <2>2, <2>4, <2>5
  <2> QED BY <1>4, <2>5, <2>6, <2>7 DEF NamesOK
<1>12. Shape'
  <2>1. ProgramOK' /\ DoneOK' /\ BodiesOK' /\ TextOK' /\ DeclsKnown(frames)'
    <3>1. bodies' = bodies /\ written' = written /\ UNCHANGED <<decls, next, instantiated, done, rejected>>
      BY <1>1 DEF text, program
    <3>2. ProgramOK' /\ DoneOK' /\ BodiesOK'
      BY <1>1, <3>1, SameProgram DEF Shape, ProgramOK
    <3>3. TextOK'
      BY <1>1, <3>1 DEF Shape, TextOK
    <3>4. DeclsKnown(frames)
      BY <1>1 DEF Shape
    <3>5. DeclsKnown(frames)'
      <4>1. \A k \in 1..Len(F) : F[k].decl \in Instances \/ \E i \in 1..3 : F[k].decl = decls[i]
        BY <1>6, <3>4 DEF DeclsKnown
      <4>2. frames' = F /\ decls' = decls
        BY <1>1, <3>1
      <4> QED BY <4>1, <4>2 DEF DeclsKnown
    <3> QED BY <3>2, <3>3, <3>5
  <2>2. (StackOK(frames) /\ ScopesOK(frames, scopes) /\ ReadsOK(bodies, frames))'
    <3>1. bodies' = bodies /\ scopes' = scopes /\ frames' = F
      BY <1>1 DEF text
    <3>2. ScopesOK(F, scopes)
      BY <1>1, <1>3, <1>7 DEF Shape, ScopesOK
    <3> QED BY <1>7, <1>10, <3>1, <3>2
  <2>3. LambdasOK(frames, lambdas, tracker)' /\ NamesOK(frames, currentNs)'
    BY <1>1, <1>9, <1>11
  <2> QED BY <2>1, <2>2, <2>3 DEF Shape
<1>13. Lexical => Lexical'
  <2> SUFFICES ASSUME Lexical PROVE Lexical'
    OBVIOUS
  <2>1. Agree(F, scopes)
    BY <1>6 DEF Lexical, Agree
  <2>2. ClassOK(bodies, F, currentClass')
    <3>1. (\A k \in 1..Len(F) : ~IsClass(F[k].decl)) => currentClass' = none
      <4>1. CASE IsClass(Frame.decl)
        BY <1>1, <4>1
      <4>2. CASE ~IsClass(Frame.decl)
        <5> SUFFICES ASSUME \A k \in 1..Len(F) : ~IsClass(F[k].decl) PROVE currentClass = none
          BY <1>1, <4>2
        <5>1. \A k \in 1..n : k \in 1..Len(F) \/ k = n
          BY <1>2, <1>4
        <5>2. \A k \in 1..n : ~IsClass(frames[k].decl)
          BY <1>2, <1>6, <4>2, <5>1
        <5> QED BY <5>2 DEF Lexical, ClassOK
      <4> QED BY <4>1, <4>2
    <3> QED BY <1>10, <3>1 DEF ClassOK
  <2>3. agreed' /\ CapturesExact' /\ bodies' = bodies /\ scopes' = scopes /\ frames' = F
    BY <1>1 DEF Lexical, CapturesExact, text
  <2> QED BY <2>1, <2>2, <2>3 DEF Lexical
<1> QED BY <1>12, <1>13 DEF IInv

-----------------------------------------------------------------------------
(* The loop over declarations.                                             *)

LEMMA GivenIsThree == ASSUME ProgramOK PROVE Given = 3
<1> DEFINE I == {k \in 1..Len(decls) : ~IsInstance(decls[k])}
<1>1. decls \in Seq(Declarations) /\ Len(decls) \in Nat /\ Len(decls) >= 3
  <2>1. decls \in Seq(Declarations) /\ Len(decls) >= 3
    BY DEF ProgramOK
  <2> QED BY <2>1
<1>2. ASSUME NEW k \in 1..Len(decls) PROVE ~IsInstance(decls[k]) <=> k \in 1..3
  <2>1. decls[k] \in Declarations
    BY <1>1
  <2>2. k \in 1..3 => decls[k] \in Originals
    BY DEF ProgramOK
  <2>3. k \notin 1..3 => decls[k] \in Instances
    <3>1. k \notin 1..3 => k \in 4..Len(decls)
      BY <1>1
    <3>2. k \in 4..Len(decls) => decls[k] \in instantiated /\ instantiated \subseteq Instances
      BY DEF ProgramOK
    <3> QED BY <3>1, <3>2
  <2> QED BY <2>1, <2>2, <2>3, DeclFacts
<1>3. I = 1..3
  <2>1. \A k \in 1..3 : k \in 1..Len(decls)
    BY <1>1
  <2> QED BY <1>2, <2>1
<1>4. Cardinality(1..3) = 3
  <2>1. PICK a \in Int, b \in Int : a = 1 /\ b = 3
    OBVIOUS
  <2>2. Cardinality(a..b) = IF a > b THEN 0 ELSE b - a + 1
    BY FS_Interval
  <2> QED BY <2>1, <2>2
<1> QED BY <1>3, <1>4 DEF Given

(* With room for all instances the declarations never move. *)
LEMMA NeverLost == ASSUME ProgramOK, Roomy PROVE ~(Len(decls) > Given + Room)
<1>1. Len(decls) = 3 + Cardinality(instantiated) /\ instantiated \subseteq Instances /\ Given = 3
  BY GivenIsThree DEF ProgramOK
<1>2. Cardinality(instantiated) <= Cardinality(Instances) /\ Cardinality(instantiated) \in Nat
      /\ Cardinality(Instances) \in Nat
  <2>1. IsFiniteSet(instantiated) /\ Cardinality(instantiated) <= Cardinality(Instances)
    BY <1>1, FiniteInstances, FS_Subset
  <2> QED BY <2>1, FiniteInstances, FS_CardinalityType
<1>3. Cardinality(Instances) <= Room /\ Room \in Nat
  BY AnalysisAssumption DEF Roomy
<1> QED BY <1>1, <1>2, <1>3

(* The declaration that comes next, or none when the loop has ended early. *)
LEMMA DeclarationBegun ==
  ASSUME ProgramOK, DoneOK, BodiesOK, next <= 3, bodies' = bodies,
         UNCHANGED <<decls, instantiated>>, rejected' \subseteq Classes,
         \/ next' = next + 1 /\ done' = Append(done, decls[next])
         \/ next' = 4 /\ done' = done /\ ~Roomy
  PROVE  ProgramOK' /\ DoneOK' /\ BodiesOK'
<1> DEFINE m == Len(done)
           d == decls[next]
<1>1. /\ next \in 1..3 /\ next' \in 1..4
  BY DEF ProgramOK
<1>2. ProgramOK'
  BY <1>1 DEF ProgramOK
<1>3. BodiesOK'
  BY DEF BodiesOK
<1>4. /\ done \in Seq(Declarations) /\ m \in Nat
      /\ \A i, j \in 1..m : done[i] = done[j] => i = j
      /\ \A i \in 1..m : done[i] \in instantiated \/ \E j \in 1..(next - 1) : done[i] = decls[j]
      /\ \A c \in instantiated : \E i \in 1..m : done[i] = c
      /\ Roomy => \A j \in 1..(next - 1) : \E i \in 1..m : done[i] = decls[j]
  BY DEF DoneOK
<1>5. ASSUME next' = next + 1, done' = Append(done, decls[next]) PROVE DoneOK'
  <2>1. d \in Declarations /\ d \in Originals
    <3>1. decls[next] \in Originals
      BY <1>1 DEF ProgramOK
    <3> QED BY <3>1 DEF Declarations
  <2>2. d \notin instantiated
    <3>1. d \notin Instances
      BY <2>1, DeclFacts
    <3> QED BY <3>1 DEF ProgramOK
  <2>3. \A j \in 1..(next - 1) : d # decls[j]
    <3> SUFFICES ASSUME NEW j \in 1..(next - 1) PROVE d # decls[j]
      OBVIOUS
    <3>1. j \in 1..3 /\ j # next
      BY <1>1
    <3> QED BY <1>1, <3>1 DEF ProgramOK
  <2> HIDE DEF d
  <2>4. done' \in Seq(Declarations) /\ Len(done') = m + 1 /\ done'[m + 1] = d /\ \A i \in 1..m : done'[i] = done[i]
    <3>1. done' = Append(done, d) /\ done \in Seq(Declarations)
      BY <1>4, <1>5 DEF d
    <3> QED BY <2>1, <3>1, AppendProperties
  <2> HIDE DEF m
  <2>5. \A i : i \in 1..Len(done') <=> i \in 1..m \/ i = m + 1
    BY <1>4, <2>4
  <2>6. \A j : j \in 1..(next' - 1) <=> j \in 1..(next - 1) \/ j = next
    BY <1>1, <1>5
  <2>7. \A i \in 1..m : done[i] # d
    BY <1>4, <2>2, <2>3
  <2>8. \A i, j \in 1..Len(done') : done'[i] = done'[j] => i = j
    BY <1>4, <2>4, <2>5, <2>7
  <2>9. \A i \in 1..Len(done') : done'[i] \in instantiated \/ \E j \in 1..(next' - 1) : done'[i] = decls[j]
    <3>1. \A i \in 1..m : done'[i] \in instantiated \/ \E j \in 1..(next' - 1) : done'[i] = decls[j]
      BY <1>4, <2>4, <2>6
    <3>2. next \in 1..(next' - 1) /\ done'[m + 1] = decls[next]
      BY <2>4, <2>6 DEF d
    <3> QED BY <2>5, <3>1, <3>2
  <2>10. \A c \in instantiated : \E i \in 1..Len(done') : done'[i] = c
    BY <1>4, <2>4, <2>5
  <2>11. Roomy => \A j \in 1..(next' - 1) : \E i \in 1..Len(done') : done'[i] = decls[j]
    <3> SUFFICES ASSUME Roomy, NEW j \in 1..(next' - 1) PROVE \E i \in 1..Len(done') : done'[i] = decls[j]
      OBVIOUS
    <3>1. CASE j \in 1..(next - 1)
      <4>1. PICK i \in 1..m : done[i] = decls[j]
        BY <1>4, <3>1
      <4> QED BY <2>4, <2>5, <4>1
    <3>2. CASE j = next
      BY <2>4, <2>5, <3>2 DEF d
    <3> QED BY <2>6, <3>1, <3>2
  <2>12. UNCHANGED <<decls, instantiated>> /\ (Roomy' <=> Roomy)
    BY DEF Roomy
  <2>13. done' \in Seq(Declarations)
    BY <2>4
  <2> QED BY <2>8, <2>9, <2>10, <2>11, <2>12, <2>13 DEF DoneOK
<1>6. ASSUME next' = 4, done' = done, ~Roomy PROVE DoneOK'
  <2>1. \A j \in 1..(next - 1) : j \in 1..(next' - 1)
    BY <1>1, <1>6
  <2>2. ~Roomy'
    BY <1>6 DEF Roomy
  <2>3. \A i \in 1..m : done[i] \in instantiated \/ \E j \in 1..(next' - 1) : done[i] = decls[j]
    BY <1>4, <2>1
  <2>4. UNCHANGED <<decls, instantiated, done>>
    BY <1>6
  <2> QED BY <1>4, <2>2, <2>3, <2>4 DEF DoneOK
<1>7. DoneOK'
  BY <1>5, <1>6
<1> QED BY <1>2, <1>3, <1>7

LEMMA NextDeclInv == IInv /\ NextDecl => IInv'
<1> SUFFICES ASSUME IInv, NextDecl PROVE IInv'
  OBVIOUS
<1>1. PICK lost \in IF Len(decls) > Given + Room THEN BOOLEAN ELSE {FALSE} :
        LET d == decls[next]
        IN  /\ next' = IF lost THEN Given + 1 ELSE next + 1
            /\ frames' = IF lost THEN <<>> ELSE <<Enter(d, 0)>>
            /\ done' = IF lost THEN done ELSE Append(done, d)
            /\ rejected' = rejected \cup {c \in Classes : c = Head(d) /\ ~lost /\ Reported(c)}
  BY DEF NextDecl
<1> DEFINE d == decls[next]
           f == Enter(d, 0)
<1>2. /\ frames = <<>> /\ next <= 3 /\ Given = 3 /\ Shape
      /\ bodies' = bodies /\ written' = written
      /\ UNCHANGED <<decls, instantiated, scopes, currentClass, currentNs, lambdas, tracker, agreed>>
  <2>1. Shape /\ Given = 3
    BY GivenIsThree DEF IInv, Shape
  <2> QED BY <2>1 DEF NextDecl, text
<1>3. /\ next' = IF lost THEN 4 ELSE next + 1
      /\ frames' = IF lost THEN <<>> ELSE <<f>>
      /\ done' = IF lost THEN done ELSE Append(done, d)
      /\ rejected' = rejected \cup {c \in Classes : c = Head(d) /\ ~lost /\ Reported(c)}
  BY <1>1, <1>2
<1>4. lost \in BOOLEAN /\ (lost => ~Roomy)
  <2>1. lost => Len(decls) > Given + Room
    BY <1>1
  <2>2. ProgramOK
    BY <1>2 DEF Shape
  <2> QED BY <1>1, <2>1, <2>2, NeverLost
<1>5. rejected' \subseteq Classes
  BY <1>2, <1>3 DEF Shape, ProgramOK
<1>6. ProgramOK' /\ DoneOK' /\ BodiesOK'
  <2>1. ProgramOK /\ DoneOK /\ BodiesOK
    BY <1>2 DEF Shape
  <2>2. \/ next' = next + 1 /\ done' = Append(done, decls[next])
        \/ next' = 4 /\ done' = done /\ ~Roomy
    BY <1>3, <1>4
  <2> QED BY <1>2, <1>5, <2>1, <2>2, DeclarationBegun
<1>7. TextOK'
  BY <1>2 DEF Shape, TextOK
<1>8. d \in Declarations /\ \E i \in 1..3 : d = decls[i]
  <2>1. next \in 1..3 /\ decls \in Seq(Declarations) /\ Len(decls) >= 3
    BY <1>2 DEF Shape, ProgramOK
  <2>2. next \in 1..Len(decls)
    BY <2>1
  <2> QED BY <2>1, <2>2
<1> HIDE DEF d
<1>9. CASE lost
  <2>1. frames' = frames
    BY <1>2, <1>3, <1>9
  <2>2. Shape'
    <3>1. DeclsKnown(frames)'
      BY <1>2, <2>1 DEF DeclsKnown, Shape
    <3>2. (StackOK(frames) /\ ScopesOK(frames, scopes) /\ ReadsOK(bodies, frames)
            /\ LambdasOK(frames, lambdas, tracker) /\ NamesOK(frames, currentNs))'
      BY <1>2, <2>1 DEF Shape
    <3> QED BY <1>6, <1>7, <3>1, <3>2 DEF Shape
  <2>3. Lexical => Lexical'
    BY <1>2, <2>1 DEF Lexical, CapturesExact
  <2> QED BY <2>2, <2>3 DEF IInv
<1>10. CASE ~lost
  <2>1. Entered(f, d, 0)
    BY <1>8, EnterFrame
  <2>2. frames' = Append(<<>>, f)
    BY <1>3, <1>10
  <2> HIDE DEF f
  <2>3. StackOK(<<>>) /\ Height(<<>>) = 0
    BY <1>2 DEF Shape, Height
  <2>4. Topped(<<>>, f, frames') /\ StackOK(frames') /\ Height(frames') = Height(<<>>)
    BY <2>1, <2>2, <2>3, ToppedStack
  <2>5. /\ \A p : LambdaAt(frames', p) <=> LambdaAt(<<>>, p)
        /\ \A ns : NamesOK(<<>>, ns) => NamesOK(frames', ns)
        /\ \A sc : Agree(<<>>, sc) => Agree(frames', sc)
        /\ \A c, t : ClassOK(t, <<>>, c) => ClassOK(t, frames', c)
        /\ \A t : ReadsOK(t, <<>>) => ReadsOK(t, frames')
    <3>1. Len(<<>>) \in Nat
      OBVIOUS
    <3> QED BY <2>1, <2>4, <3>1, ToppedFacts
  <2>6. Shape'
    <3>1. DeclsKnown(frames)'
      <4>1. Len(frames') = 1 /\ frames'[1] = f /\ f.decl = d
        BY <2>1, <2>2 DEF Entered
      <4>2. \A k \in 1..1 : k = 1
        OBVIOUS
      <4> QED BY <1>2, <1>8, <4>1, <4>2 DEF DeclsKnown
    <3>2. ScopesOK(frames', scopes)
      BY <1>2, <2>4 DEF Shape, ScopesOK
    <3>3. LambdasOK(frames', lambdas, tracker)
      <4>1. LambdasOK(<<>>, lambdas, tracker)
        BY <1>2 DEF Shape
      <4> QED BY <2>4, <2>5, <4>1 DEF LambdasOK
    <3>4. ReadsOK(bodies, frames') /\ NamesOK(frames', currentNs)
      BY <1>2, <2>5 DEF Shape
    <3> QED BY <1>2, <1>6, <1>7, <2>4, <3>1, <3>2, <3>3, <3>4 DEF Shape
  <2>7. Lexical => Lexical'
    BY <1>2, <2>5 DEF Lexical, CapturesExact
  <2> QED BY <2>6, <2>7 DEF IInv
<1> QED BY <1>4, <1>9, <1>10

-----------------------------------------------------------------------------
(* The theorems. *)

LEMMA InitInv == Init => IInv
<1> SUFFICES ASSUME Init PROVE IInv
  OBVIOUS
<1> DEFINE known == ToSet(decls) \cup {<<t>> : t \in Templates}
           keys == UNION {{<<Head(d), p>> : p \in ToSet(Parts(d))} : d \in known}
<1>1. /\ next = 1 /\ frames = <<>> /\ instantiated = {} /\ scopes = <<>> /\ currentClass = none /\ currentNs = ""
      /\ lambdas = <<>> /\ tracker = 0 /\ agreed = TRUE /\ rejected = {} /\ done = <<>>
  BY DEF Init
<1>2. next = 1 /\ instantiated = {} /\ rejected = {} /\ done = <<>>
  BY <1>1
<1>3. bodies = [k \in keys |-> <<>>]
  BY DEF Init
<1>4. /\ decls = <<<<"Node">>, <<"main">>, <<"helper">>>> \/ decls = <<<<"Base">>, <<"Node">>, <<"Leaf">>>>
      /\ written = 0 \/ written = MaxEvents
  BY DEF Init
<1>5. /\ decls \in Seq(Declarations) /\ Len(decls) = 3 /\ \A i \in 1..3 : decls[i] \in Originals
      /\ \A i \in 1..3 : \A j \in 1..3 : decls[i] = decls[j] => i = j
  <2>1. CASE decls = <<<<"Node">>, <<"main">>, <<"helper">>>>
    <3>1. Len(decls) = 3 /\ decls[1] = <<"Node">> /\ decls[2] = <<"main">> /\ decls[3] = <<"helper">>
      BY <2>1
    <3>2. \A i \in 1..3 : i = 1 \/ i = 2 \/ i = 3
      OBVIOUS
    <3>3. <<"Node">> # <<"main">> /\ <<"Node">> # <<"helper">> /\ <<"main">> # <<"helper">>
      OBVIOUS
    <3>4. {<<"Node">>, <<"main">>, <<"helper">>} \subseteq Originals
      BY DEF Originals
    <3>5. decls \in Seq(Declarations)
      BY <2>1 DEF Declarations, Originals
    <3> QED BY <3>1, <3>2, <3>3, <3>4, <3>5
  <2>2. CASE decls = <<<<"Base">>, <<"Node">>, <<"Leaf">>>>
    <3>1. Len(decls) = 3 /\ decls[1] = <<"Base">> /\ decls[2] = <<"Node">> /\ decls[3] = <<"Leaf">>
      BY <2>2
    <3>2. \A i \in 1..3 : i = 1 \/ i = 2 \/ i = 3
      OBVIOUS
    <3>3. <<"Base">> # <<"Node">> /\ <<"Base">> # <<"Leaf">> /\ <<"Node">> # <<"Leaf">>
      OBVIOUS
    <3>4. {<<"Base">>, <<"Node">>, <<"Leaf">>} \subseteq Originals
      BY DEF Originals
    <3>5. decls \in Seq(Declarations)
      BY <2>2 DEF Declarations, Originals
    <3> QED BY <3>1, <3>2, <3>3, <3>4, <3>5
  <2> QED BY <1>4, <2>1, <2>2
<1>6. ProgramOK
  <2>1. Cardinality({}) = 0
    BY FS_EmptySet
  <2>2. {decls[i] : i \in 4..Len(decls)} = {}
    BY <1>5
  <2>3. /\ instantiated = {decls[i] : i \in 4..Len(decls)} /\ instantiated \subseteq Instances
        /\ Len(decls) = 3 + Cardinality(instantiated) /\ Len(decls) >= 3
    BY <1>2, <1>5, <2>1, <2>2
  <2>4. next \in 1..4 /\ rejected \subseteq Classes
    BY <1>2
  <2> QED BY <1>5, <2>3, <2>4 DEF ProgramOK
<1>7. DoneOK
  <2>1. <<>> \in Seq(Declarations) /\ Len(<<>>) = 0
    OBVIOUS
  <2>2. done = <<>> /\ instantiated = {} /\ next - 1 = 0
    BY <1>2
  <2> QED BY <2>1, <2>2 DEF DoneOK
<1>8. TextOK
  <2>1. <<>> \in Seq(EventSet)
    OBVIOUS
  <2>2. written \in 0..MaxEvents
    BY <1>4, AnalysisAssumption
  <2> HIDE DEF keys
  <2> QED BY <1>3, <2>1, <2>2 DEF TextOK
<1>9. BodiesOK
  <2> SUFFICES ASSUME NEW d \in Declarations, d \in Instances \/ \E i \in 1..3 : d = decls[i],
                      NEW p \in 1..Len(Parts(d))
               PROVE  <<Head(d), Parts(d)[p]>> \in keys
    BY <1>3 DEF BodiesOK
  <2>1. PICK c \in known : Head(c) = Head(d) /\ Parts(c) = Parts(d)
    <3>1. CASE d \in Instances
      <4>1. PICK a \in Templates : d = <<a, "int">> \/ d = <<a, "Box", "int">>
        BY <3>1 DEF Instances
      <4>2. Head(d) = a /\ Head(<<a>>) = a
        BY <4>1
      <4>3. Parts(<<a>>) = Parts(d)
        BY <4>2 DEF Parts, IsClass
      <4> QED BY <4>2, <4>3
    <3>2. CASE \E i \in 1..3 : d = decls[i]
      BY <1>5, <3>2 DEF ToSet
    <3> QED BY <3>1, <3>2
  <2>2. Parts(d)[p] \in ToSet(Parts(c))
    BY <2>1 DEF ToSet
  <2> QED BY <2>1, <2>2
<1> DEFINE F == <<>>
<1>10. Len(F) = 0 /\ (\A k : k \notin 1..Len(F)) /\ Height(F) = 0 /\ \A p : ~LambdaAt(F, p)
  BY DEF Height, LambdaAt
<1>11. StackOK(F) /\ DeclsKnown(F) /\ ReadsOK(bodies, F)
  <2>1. F \in Seq(DeclFrame)
    OBVIOUS
  <2> QED BY <1>10, <2>1 DEF StackOK, DeclsKnown, ReadsOK
<1>12. ScopesOK(F, <<>>)
  BY <1>10 DEF ScopesOK
<1>13. LambdasOK(F, <<>>, 0)
  <2>1. <<>> \in Seq(LambdaState) /\ Len(<<>>) = 0
    OBVIOUS
  <2>2. Innermost(<<>>, 0, 0)
    BY DEF Innermost
  <2> QED BY <1>10, <2>1, <2>2 DEF LambdasOK
<1>14. NamesOK(F, "")
  <2> DEFINE h == [k \in 0..0 |-> ""]
  <2>1. h \in [0..0 -> Namespaces] /\ h[0] = ""
    BY DEF Namespaces
  <2> HIDE DEF h
  <2>2. NamesAre(F, h)
    BY <1>10, <2>1 DEF NamesAre
  <2> QED BY <1>10, <2>1, <2>2 DEF NamesOK
<1>15. Lexical
  <2>1. Agree(F, scopes) /\ ClassOK(bodies, F, none)
    BY <1>10 DEF Agree, ClassOK
  <2>2. CapturesExact
    <3>1. lambdas = <<>> /\ Len(<<>>) = 0
      BY <1>1
    <3> QED BY <3>1 DEF CapturesExact
  <2> QED BY <1>1, <2>1, <2>2 DEF Lexical
<1>16. Shape
  BY <1>1, <1>6, <1>7, <1>8, <1>9, <1>11, <1>12, <1>13, <1>14 DEF Shape
<1> QED BY <1>15, <1>16 DEF IInv

LEMMA UnchangedInv == IInv /\ UNCHANGED vars => IInv'
<1> SUFFICES ASSUME IInv, UNCHANGED vars PROVE IInv'
  OBVIOUS
<1>1. UNCHANGED <<decls, next, instantiated, rejected, done, bodies, written, frames, scopes, currentClass,
                  currentNs, lambdas, tracker, agreed>>
  BY DEF vars, program, text
<1>2. ProgramOK' /\ DoneOK' /\ BodiesOK' /\ TextOK' /\ DeclsKnown(frames)'
  <2>1. ProgramOK /\ DoneOK /\ BodiesOK /\ TextOK /\ DeclsKnown(frames)
    BY DEF IInv, Shape
  <2>2. ProgramOK' /\ DoneOK' /\ BodiesOK'
    BY <1>1, <2>1, SameProgram DEF ProgramOK
  <2>3. TextOK' /\ DeclsKnown(frames)'
    BY <1>1, <2>1 DEF TextOK, DeclsKnown
  <2> QED BY <2>2, <2>3
<1>3. Shape'
  BY <1>1, <1>2 DEF IInv, Shape
<1>4. Lexical => Lexical'
  BY <1>1 DEF Lexical, CapturesExact
<1> QED BY <1>3, <1>4 DEF IInv

(* In every program the fields of the analyser (scopes_, captureTracker_,  *)
(* currentNamespace_, instantiatedGenerics) fit the bodies under analysis. *)
THEOREM Invariance == Spec => []IInv
<1>1. IInv /\ [Next]_vars => IInv'
  <2> SUFFICES ASSUME IInv, [Next]_vars PROVE IInv'
    OBVIOUS
  <2>1. CASE Declare
    BY <2>1, DeclareInv
  <2>2. CASE Use
    BY <2>2, UseInv
  <2>3. CASE This
    BY <2>3, ThisInv
  <2>4. CASE Block
    BY <2>4, BlockInv
  <2>5. CASE Lambda
    BY <2>5, LambdaInv
  <2>6. CASE Close
    BY <2>6, CloseInv
  <2>7. CASE NameType
    BY <2>7, NameTypeInv
  <2>8. CASE BeginPart
    BY <2>8, BeginPartInv
  <2>9. CASE EndPart
    BY <2>9, EndPartInv
  <2>10. CASE EndDecl
    BY <2>10, EndDeclInv
  <2>11. CASE NextDecl
    BY <2>11, NextDeclInv
  <2>12. CASE UNCHANGED vars
    BY <2>12, UnchangedInv
  <2> QED BY <2>1, <2>2, <2>3, <2>4, <2>5, <2>6, <2>7, <2>8, <2>9, <2>10, <2>11, <2>12 DEF Next, Finished
<1> QED BY <1>1, InitInv, PTL DEF Spec

(* Between declarations the analyser keeps nothing of those it has been    *)
(* through: no scope, no lambda and no namespace is left (scopes,          *)
(* captureTracker_, currentNamespace_).                                    *)
THEOREM TypeCorrect == Spec => []TypeOK
<1>1. IInv => TypeOK
  <2> SUFFICES ASSUME IInv PROVE TypeOK
    OBVIOUS
  <2>1. tracker \in 0..Len(lambdas)
    BY DEF IInv, Shape, LambdasOK, Innermost
  <2>2. ASSUME frames = <<>> PROVE scopes = <<>> /\ lambdas = <<>> /\ currentNs = ""
    <3>1. Height(frames) = 0 /\ Len(frames) = 0 /\ \A p : ~LambdaAt(frames, p)
      BY <2>2 DEF Height, LambdaAt
    <3>2. scopes \in Seq(SUBSET Variable) /\ Len(scopes) = 0
      BY <3>1 DEF IInv, Shape, ScopesOK
    <3>3. lambdas \in Seq(LambdaState) /\ Len(lambdas) \in Nat /\ \A m \in 1..Len(lambdas) : FALSE
      <4>1. lambdas \in Seq(LambdaState)
        BY DEF IInv, Shape, LambdasOK
      <4> QED BY <3>1, <4>1 DEF IInv, Shape, LambdasOK
    <3>4. Len(lambdas) = 0
      BY <3>3
    <3>5. currentNs = ""
      BY <3>1 DEF IInv, Shape, NamesOK, NamesAre
    <3>6. scopes = <<>>
      BY <3>2
    <3>7. lambdas = <<>>
      BY <3>3, <3>4
    <3> QED BY <3>5, <3>6, <3>7
  <2>3. written \in 0..MaxEvents /\ rejected \subseteq Classes
    BY DEF IInv, Shape, TextOK, ProgramOK
  <2> QED BY <2>1, <2>2, <2>3 DEF TypeOK
<1> QED BY <1>1, Invariance, PTL

(* A program that takes none of the liberties is judged as lexical scoping *)
(* says, however the bodies of its instances are nested in those that use  *)
(* them (lookupVar, isVarConst, currentClassName, isTypeValid).            *)
THEOREM JudgementsAreLexical ==
  ASSUME Liberties = {}
  PROVE  Spec => []JudgesLexically
<1>1. IInv => JudgesLexically
  BY DEF IInv, Lexical, JudgesLexically
<1> QED BY <1>1, Invariance, PTL

(* In such a program a lambda that captures all has recorded exactly the   *)
(* variables of its surroundings that its body names (captureTracker_).    *)
THEOREM CapturesAreExact ==
  ASSUME Liberties = {}
  PROVE  Spec => []CapturesExact
<1>1. IInv => CapturesExact
  BY DEF IInv, Lexical
<1> QED BY <1>1, Invariance, PTL

(* No declaration and no instance is analysed twice, wherever it is used   *)
(* first, in the middle of itself too, also when the instances do not fit  *)
(* into the list under analysis (analyze, instantiatedGenerics).           *)
NoneTwice == \A i, j \in 1..Len(done) : done[i] = done[j] => i = j

THEOREM NoneAnalysedTwice == Spec => []NoneTwice
<1>1. IInv => NoneTwice
  BY DEF IInv, Shape, DoneOK, NoneTwice
<1> QED BY <1>1, Invariance, PTL

(* With room for the instances none is passed over either: every           *)
(* declaration of the program and every instance is analysed, and once     *)
(* (analyze, instantiatedGenerics).                                        *)
THEOREM DeclarationsAnalysedOnce ==
  ASSUME Roomy
  PROVE  Spec => []EveryDeclarationOnce
<1>1. IInv => EveryDeclarationOnce
  <2> SUFFICES ASSUME IInv PROVE EveryDeclarationOnce
    OBVIOUS
  <2>1. ProgramOK /\ DoneOK
    BY DEF IInv, Shape
  <2>2. \A i, j \in 1..Len(done) : done[i] = done[j] => i = j
    BY <2>1 DEF DoneOK
  <2>3. ASSUME Ended PROVE ToSet(done) = ToSet(decls)
    <3>1. next = 4 /\ next - 1 = 3
      <4>1. Given = 3 /\ next \in 1..4
        BY <2>1, GivenIsThree DEF ProgramOK
      <4> QED BY <2>3, <4>1 DEF Ended
    <3>2. Len(decls) \in Nat /\ Len(decls) >= 3
      <4>1. decls \in Seq(Declarations) /\ Len(decls) >= 3
        BY <2>1 DEF ProgramOK
      <4> QED BY <4>1
    <3>3. \A j : j \in 1..Len(decls) <=> j \in 1..3 \/ j \in 4..Len(decls)
      BY <3>2
    <3>4. instantiated = {decls[j] : j \in 4..Len(decls)}
      BY <2>1 DEF ProgramOK
    <3>5. \A i \in 1..Len(done) : \E j \in 1..Len(decls) : done[i] = decls[j]
      <4>1. \A i \in 1..Len(done) : done[i] \in instantiated \/ \E j \in 1..3 : done[i] = decls[j]
        BY <2>1, <3>1 DEF DoneOK
      <4> QED BY <3>3, <3>4, <4>1
    <3>6. \A j \in 1..Len(decls) : \E i \in 1..Len(done) : done[i] = decls[j]
      <4>1. \A j \in 1..3 : \E i \in 1..Len(done) : done[i] = decls[j]
        BY <2>1, <3>1 DEF DoneOK
      <4>2. \A d \in instantiated : \E i \in 1..Len(done) : done[i] = d
        BY <2>1 DEF DoneOK
      <4> QED BY <3>3, <3>4, <4>1, <4>2
    <3>7. ToSet(done) = {done[i] : i \in 1..Len(done)} /\ ToSet(decls) = {decls[j] : j \in 1..Len(decls)}
      <4>1. done \in Seq(Declarations) /\ decls \in Seq(Declarations)
        BY <2>1 DEF ProgramOK, DoneOK
      <4> QED BY <4>1 DEF ToSet
    <3>8. ToSet(done) \subseteq ToSet(decls)
      BY <3>5, <3>7
    <3>9. ToSet(decls) \subseteq ToSet(done)
      BY <3>6, <3>7
    <3> QED BY <3>8, <3>9
  <2> QED BY <2>2, <2>3 DEF EveryDeclarationOnce
<1> QED BY <1>1, Invariance, PTL
=============================================================================
