---------------------------- MODULE DriverProofs ----------------------------
(***************************************************************************)
(* Theorems about Driver and the IncludeResolver it runs, for any headers  *)
(* of any length that include each other in any way, and any number of C   *)
(* sources.                                                                *)
(*                                                                         *)
(* The invariant of the walk, Walk, says for every item that has been      *)
(* dealt with what has become of it: a declaration has been appended, an   *)
(* include has read its file, or is reading it now, or closes a cycle.     *)
(***************************************************************************)
EXTENDS Driver, FiniteSetTheorems, SequenceTheorems, TLAPS

-----------------------------------------------------------------------------
(* The invariant of the walk. *)

Known == DOMAIN contents

(* The files being read are known and different, each at one of its items  *)
(* or its end.                                                             *)
FramesOK ==
  /\ \A j \in 1..Len(stack) : /\ stack[j].file \in Known
                              /\ stack[j].next \in 1..(Len(contents[stack[j].file]) + 1)
  /\ \A j, l \in 1..Len(stack) : stack[j].file = stack[l].file => j = l

KnownOK == Main \in Known /\ included = Known \ {Main}

(* The item k of f has been dealt with: f, if it is being read, is past it. *)
Dealt(f, k) == \A j \in 1..Len(stack) : stack[j].file = f => k < stack[j].next

(* Exactly the declarations dealt with are in the program, once.           *)
DeclaredOK ==
  /\ \A m, n \in 1..Len(declarations) : declarations[m] = declarations[n] => m = n
  /\ \A n \in 1..Len(declarations) :
       LET f == declarations[n][1]
           k == declarations[n][2]
       IN  f \in Known /\ k \in 1..Len(contents[f]) /\ contents[f][k].name = Own /\ Dealt(f, k)
  /\ \A f \in Known : \A k \in 1..Len(contents[f]) :
       contents[f][k].name = Own /\ Dealt(f, k) =>
         \E n \in 1..Len(declarations) : declarations[n] = <<f, k>>

(* A file being read reaches those above it, and Main reaches all.         *)
ReachOK ==
  /\ \A j, l \in 1..Len(stack) : j < l => Reaches(stack[j].file, stack[l].file)
  /\ \A f \in Known : f = Main \/ Reaches(Main, f)

(* The item k of f is an include that finds g. *)
IncludeAt(f, k, g) == contents[f][k].name # Own /\ g \in FindFile(contents[f][k])

Finished(g) == g \in Known /\ \A j \in 1..Len(stack) : stack[j].file # g

(* An include that has been dealt with: its file has been read, or reaches *)
(* the file that includes it, or is being read for it.                     *)
IncludesOK ==
  \A f \in Known : \A k \in 1..Len(contents[f]) : \A g \in Files :
    Dealt(f, k) /\ IncludeAt(f, k, g) =>
      \/ Finished(g)
      \/ Reaches(g, f) /\ g \in Known
      \/ \E j, l \in 1..Len(stack) : j < l /\ stack[j].file = f /\ stack[l].file = g

(* The include of g comes before the declaration m in its file. *)
Before(m, g) == \E k \in 1..declarations[m][2] : IncludeAt(declarations[m][1], k, g)

(* What is included before a declaration has been read, or is in a cycle.  *)
OrderOK ==
  /\ \A m \in 1..Len(declarations) : \A g \in Files :
       Before(m, g) => Finished(g) \/ (Reaches(g, declarations[m][1]) /\ g \in Known)
  /\ \A m, n \in 1..Len(declarations) :
       Before(m, declarations[n][1]) => n < m \/ Reaches(declarations[n][1], declarations[m][1])

(* The modules are those of the <h> dealt with, and every included file    *)
(* has an include that found it and counted.                               *)
ModulesOK ==
  ~MixedForms =>
    /\ Uniform(<<>>)
    /\ \A n \in modules : \E f \in Known : \E k \in 1..Len(contents[f]) :
         contents[f][k].system /\ contents[f][k].name = n /\ <<"library", n>> \in disk
    /\ \A f \in Known : \A k \in 1..Len(contents[f]) :
         Dealt(f, k) /\ contents[f][k].system /\ <<"library", contents[f][k].name>> \in disk =>
           contents[f][k].name \in modules
    /\ \A g \in included : \E f \in Known : \E k \in 1..Len(contents[f]) :
         IncludeAt(f, k, g) /\ (contents[f][k].system => contents[f][k].name \in modules)

Walk == FramesOK /\ KnownOK /\ DeclaredOK /\ ReachOK /\ IncludesOK /\ OrderOK /\ ModulesOK

-----------------------------------------------------------------------------
(* The invariant of the driver. *)

Early == {"parse", "resolve", "externs", "reading", "analyse", "generate"}

ModesOK ==
  /\ phase \in Early => mode \in {"build", "check"}
  /\ phase = "emit" => mode \in {"object"} \cup Listings
  /\ phase \in {"compile", "link", "clean"} => mode = "link"

(* Where a build has got to, there have been no errors; a check has noted  *)
(* all that were found.                                                    *)
ErrorsOK ==
  /\ phase \in {"parse", "resolve", "externs", "reading"} /\ mode = "build" => errors \subseteq {"resolver"}
  /\ phase \in {"analyse", "generate"} =>
       IF mode = "build" THEN errors = {} /\ missing = {} ELSE missing # {} => "resolver" \in errors
  /\ phase \in {"emit", "compile", "link", "clean"} => errors = {} /\ missing = {}

(* Which files there may be at a phase.                                    *)
FilesOK ==
  /\ phase # "reading" => made["temp"] = "absent"
  /\ phase \in Early \cup {"emit", "compile", "link"} => made["program"] = "absent"
  /\ phase \in Early \cup {"emit", "compile", "link", "clean"} => made["listing"] = "absent"
  /\ phase \in Early \cup {"emit", "compile"} => made["object"] # "new"
  /\ phase \in Early \cup {"emit"} => cobjs = 0

(* The walk begins with nothing known. *)
NothingYet ==
  /\ contents = [f \in {} |-> <<>>]
  /\ included = {} /\ modules = {} /\ missing = {} /\ declarations = <<>>

(* No object of an earlier run is there, or writing one cannot fail.       *)
Fresh == ~StaleObject \/ ~EmitFails

FreshOK ==
  /\ ~StaleObject => made["object"] # "old"
  /\ phase = "link" => made["object"] # "old"
  /\ phase = "clean" => made["program"] # "old"

(* TypeOK of the driver's own variables.                                   *)
DriverTypeOK ==
  /\ phase \in Phases
  /\ mode \in {"build", "check", "object", "link"} \cup Listings
  /\ errors \subseteq {"parser", "resolver", "sema"}
  /\ made \in [Made -> {"absent", "old", "new"}]
  /\ cobjs \in 0..CFiles /\ cdone \in 0..CHeaders
  /\ status \in {0, 1} /\ (status = 1 => phase = "done")
  /\ wrote \subseteq Made /\ (wrote # {} => phase = "done")

DriverOK ==
  /\ DriverTypeOK /\ ModesOK /\ ErrorsOK /\ FilesOK /\ LeavesOnlyItsOutput
  /\ Fresh => FreshOK /\ BuildIsHonest

IInv ==
  /\ ResolverTypeOK /\ DriverOK
  /\ phase = "resolve" => Walk
  /\ phase = "parse" => NothingYet
-----------------------------------------------------------------------------
(* Texts, items and searches. *)

LEMMA TextFacts ==
  ASSUME NEW c \in Texts
  PROVE  /\ c \in Seq(Items) /\ Len(c) \in 0..MaxItems /\ DOMAIN c = 1..Len(c)
         /\ \A k \in 1..Len(c) : c[k] \in Items
<1>1. PICK n \in 0..MaxItems : c \in [1..n -> Items]
  BY DEF Texts
<1>2. n \in Nat
  BY <1>1, ResolverAssumption
<1> QED BY <1>1, <1>2

LEMMA ItemFacts ==
  ASSUME ResolverTypeOK, NEW i \in Items
  PROVE  /\ i.system \in BOOLEAN
         /\ i.name # Own => i.name \in Names
         /\ i.name = Own => ~i.system
         /\ FindFile(i) \subseteq disk
         /\ \A g \in FindFile(i) : g = <<"source", i.name>> \/ g = <<"library", i.name>>
         /\ i.system => FindFile(i) = {<<"library", i.name>>} \cap disk
<1>1. i \in [name : {Own}, system : {FALSE}] \/ i \in [name : Names, system : BOOLEAN]
  BY DEF Items
<1>2. i.system \in BOOLEAN /\ (i.name # Own => i.name \in Names) /\ (i.name = Own => ~i.system)
  BY <1>1, ResolverAssumption
<1> QED BY <1>2 DEF FindFile

(* What the top of the stack is looking at. *)
LEMMA AtItemFacts ==
  ASSUME ResolverTypeOK, FramesOK, AtItem
  PROVE  /\ Len(stack) \in Nat \ {0} /\ Top = stack[Len(stack)]
         /\ Top.file \in Known /\ Top.next \in 1..Len(contents[Top.file])
         /\ Item = contents[Top.file][Top.next] /\ Item \in Items
         /\ Advanced \in Seq(Frame) /\ Len(Advanced) = Len(stack)
         /\ \A j \in 1..Len(stack) :
              /\ Advanced[j].file = stack[j].file
              /\ Advanced[j].next = IF j = Len(stack) THEN stack[j].next + 1 ELSE stack[j].next
<1>1. stack \in Seq(Frame) /\ stack # <<>>
  BY DEF ResolverTypeOK, AtItem
<1>2. Len(stack) \in Nat \ {0} /\ Top = stack[Len(stack)] /\ Len(stack) \in 1..Len(stack)
  BY <1>1 DEF Top, Last
<1>3. Top.file \in Known /\ Top.next \in 1..(Len(contents[Top.file]) + 1)
  BY <1>2 DEF FramesOK
<1>4. contents[Top.file] \in Texts
  BY <1>3 DEF ResolverTypeOK, Known
<1>5. Top.next \in 1..Len(contents[Top.file]) /\ Item \in Items /\ Item = contents[Top.file][Top.next]
  BY <1>3, <1>4, TextFacts DEF AtItem, Item, Text
<1>6. Top \in Frame /\ Top.next \in Nat
  <2>1. Top \in Frame
    BY <1>1, <1>2
  <2> QED BY <2>1 DEF Frame
<1>7. /\ Advanced \in Seq(Frame) /\ Len(Advanced) = Len(stack)
      /\ \A j \in 1..Len(stack) :
           /\ Advanced[j].file = stack[j].file
           /\ Advanced[j].next = IF j = Len(stack) THEN stack[j].next + 1 ELSE stack[j].next
  <2>1. Advanced = [stack EXCEPT ![Len(stack)] = [stack[Len(stack)] EXCEPT !.next = stack[Len(stack)].next + 1]]
    BY <1>1, <1>2 DEF Advanced
  <2> DEFINE r == [stack[Len(stack)] EXCEPT !.next = stack[Len(stack)].next + 1]
  <2>2. r \in Frame /\ r.file = stack[Len(stack)].file /\ r.next = stack[Len(stack)].next + 1
    BY <1>2, <1>6 DEF Frame
  <2>3. Advanced = [stack EXCEPT ![Len(stack)] = r]
    BY <2>1
  <2> HIDE DEF r
  <2> QED BY <1>1, <1>2, <2>2, <2>3
<1> QED BY <1>2, <1>3, <1>5, <1>7

-----------------------------------------------------------------------------
(* Reaching. *)

LEMMA ReachesSteps ==
  /\ \A f, g \in Known : Includes(f, g) => Reaches(f, g)
  /\ \A e, f, g \in Known : Reaches(e, f) /\ Includes(f, g) => Reaches(e, g)
BY DEF Reaches, Known, Closed

LEMMA ReachesStepsNext ==
  /\ \A f, g \in Known' : Includes(f, g)' => Reaches(f, g)'
  /\ \A e, f, g \in Known' : Reaches(e, f)' /\ Includes(f, g)' => Reaches(e, g)'
<1>1. (/\ \A f, g \in Known : Includes(f, g) => Reaches(f, g)
       /\ \A e, f, g \in Known : Reaches(e, f) /\ Includes(f, g) => Reaches(e, g))'
  BY ReachesSteps, PTL
<1> QED BY <1>1

(* Files found later take nothing away. *)
LEMMA ReachesGrows ==
  ASSUME disk' = disk, Known \subseteq DOMAIN contents', \A f \in Known : contents'[f] = contents[f]
  PROVE  \A e, g \in Known : Reaches(e, g) => Reaches(e, g)'
<1>1. ASSUME NEW f \in Known, NEW g PROVE Includes(f, g)' <=> Includes(f, g)
  BY DEF Includes, FindFile
<1> SUFFICES ASSUME NEW e \in Known, NEW g \in Known, Reaches(e, g), NEW S \in SUBSET DOMAIN contents',
                    Closed(S)', \A h \in DOMAIN contents' : Includes(e, h)' => h \in S
             PROVE  g \in S
  BY DEF Reaches
<1> DEFINE T == S \cap Known
<1>2. \A f \in T, h \in Known : Includes(f, h) => h \in T
  BY <1>1 DEF Closed
<1>3. \A h \in Known : Includes(e, h) => h \in T
  BY <1>1
<1>4. T \in SUBSET DOMAIN contents
  BY DEF Known
<1>5. Closed(T)
  BY <1>2 DEF Closed, Known
<1> HIDE DEF T
<1>6. g \in T
  BY <1>3, <1>4, <1>5 DEF Reaches, Known
<1> QED BY <1>6 DEF T
-----------------------------------------------------------------------------
(* A step past the item that the top of the stack is looking at.  It may   *)
(* make a file known that was not, with nothing in it dealt with, and      *)
(* begin to read it.                                                       *)

Past ==
  /\ disk' = disk
  /\ Known \subseteq DOMAIN contents' /\ \A f \in Known : contents'[f] = contents[f]
  /\ Len(stack') \in Nat /\ Len(stack') >= Len(stack)
  /\ \A j \in 1..Len(stack) :
       /\ stack'[j].file = stack[j].file
       /\ stack'[j].next = IF j = Len(stack) THEN stack[j].next + 1 ELSE stack[j].next
  /\ \A j \in 1..Len(stack') : j > Len(stack) => stack'[j].file \notin Known
  /\ \A f \in DOMAIN contents' : f \notin Known => \A k \in 1..Len(contents'[f]) : ~Dealt(f, k)'

LEMMA PastDealt ==
  ASSUME ResolverTypeOK, FramesOK, AtItem, Past
  PROVE  \A f \in Known : \A k \in 1..Len(contents[f]) :
           Dealt(f, k)' <=> Dealt(f, k) \/ (f = Top.file /\ k = Top.next)
<1> SUFFICES ASSUME NEW f \in Known, NEW k \in 1..Len(contents[f])
             PROVE  Dealt(f, k)' <=> Dealt(f, k) \/ (f = Top.file /\ k = Top.next)
  OBVIOUS
<1>1. Len(stack) \in Nat \ {0} /\ Top = stack[Len(stack)] /\ Top.next \in 1..Len(contents[Top.file])
      /\ stack \in Seq(Frame)
  BY AtItemFacts DEF ResolverTypeOK
<1>2. \A j \in 1..Len(stack') : stack'[j].file = f => j \in 1..Len(stack)
  BY <1>1 DEF Past
<1>3. \A j \in 1..Len(stack) : j \in 1..Len(stack')
  BY <1>1 DEF Past
<1>4. \A j \in 1..Len(stack) : stack[j].next \in Int
  BY <1>1 DEF FramesOK
<1>5. CASE f = Top.file
  <2>1. \A j \in 1..Len(stack) : stack[j].file = f <=> j = Len(stack)
    BY <1>1, <1>5 DEF FramesOK
  <2>2. Dealt(f, k) <=> k < Top.next
    BY <1>1, <2>1 DEF Dealt
  <2>3. \A j \in 1..Len(stack') : stack'[j].file = f <=> j = Len(stack)
    BY <1>1, <1>2, <1>3, <2>1 DEF Past
  <2>4. stack'[Len(stack)].next = Top.next + 1 /\ Len(stack) \in 1..Len(stack')
    BY <1>1, <1>3 DEF Past
  <2>5. Dealt(f, k)' <=> k < Top.next + 1
    BY <2>3, <2>4 DEF Dealt
  <2> QED BY <1>1, <1>5, <2>2, <2>5
<1>6. CASE f # Top.file
  <2>1. \A j \in 1..Len(stack) : stack[j].file = f => j # Len(stack)
    BY <1>1, <1>6
  <2>2. Dealt(f, k)' <=> Dealt(f, k)
    BY SMTT(40), <1>1, <1>2, <1>3, <2>1 DEF Dealt, Past
  <2> QED BY <1>6, <2>2
<1> QED BY <1>5, <1>6

(* The item itself was not dealt with before. *)
LEMMA NotYetDealt ==
  ASSUME ResolverTypeOK, FramesOK, AtItem
  PROVE  ~Dealt(Top.file, Top.next) /\ ~Finished(Top.file)
<1>1. Len(stack) \in 1..Len(stack) /\ Top = stack[Len(stack)] /\ Top.next \in Int
  BY AtItemFacts
<1> QED BY <1>1 DEF Dealt, Finished

LEMMA PastFinished ==
  ASSUME ResolverTypeOK, FramesOK, AtItem, Past
  PROVE  \A g : Finished(g) => Finished(g)'
<1>1. Len(stack) \in Nat
  BY AtItemFacts
<1> QED BY <1>1 DEF Finished, Past, Known

LEMMA PastReaches ==
  ASSUME Past
  PROVE  \A e, g \in Known : Reaches(e, g) => Reaches(e, g)'
BY ReachesGrows DEF Past

(* What follows for the includes: it is enough to look at the item itself. *)
LEMMA PastIncludes ==
  ASSUME ResolverTypeOK, FramesOK, AtItem, Past, IncludesOK,
         NEW top, top = Top.file,
         \A g \in Files : IncludeAt(top, Top.next, g) =>
           \/ Finished(g)'
           \/ Reaches(g, top)' /\ g \in Known'
           \/ \E j, l \in 1..Len(stack') : j < l /\ stack'[j].file = top /\ stack'[l].file = g
  PROVE  IncludesOK'
<1> SUFFICES ASSUME NEW f \in Known', NEW k \in 1..Len(contents'[f]), NEW g \in Files,
                    Dealt(f, k)', IncludeAt(f, k, g)'
             PROVE  \/ Finished(g)'
                    \/ Reaches(g, f)' /\ g \in Known'
                    \/ \E j, l \in 1..Len(stack') : j < l /\ stack'[j].file = f /\ stack'[l].file = g
  BY DEF IncludesOK
<1>1. f \in Known /\ contents'[f] = contents[f] /\ k \in 1..Len(contents[f])
  BY DEF Past, Known
<1>2. IncludeAt(f, k, g)
  BY <1>1 DEF IncludeAt, FindFile, Past
<1>3. Dealt(f, k) \/ (f = top /\ k = Top.next)
  BY <1>1, PastDealt
<1>4. CASE Dealt(f, k)
  <2>1. CASE Finished(g)
    BY <2>1, PastFinished
  <2>2. CASE Reaches(g, f) /\ g \in Known
    BY <1>1, <2>2, PastReaches DEF Past, Known
  <2>3. CASE \E j, l \in 1..Len(stack) : j < l /\ stack[j].file = f /\ stack[l].file = g
    <3>1. \A j \in 1..Len(stack) : j \in 1..Len(stack')
      BY AtItemFacts DEF Past
    <3> QED BY <2>3, <3>1, SMTT(40) DEF Past
  <2> QED BY <1>1, <1>2, <1>4, <2>1, <2>2, <2>3 DEF IncludesOK
<1> QED BY <1>2, <1>3, <1>4

(* What follows for the declarations when none is added. *)
LEMMA PastDeclared ==
  ASSUME ResolverTypeOK, FramesOK, AtItem, Past, DeclaredOK, Item.name # Own, declarations' = declarations
  PROVE  DeclaredOK'
<1>1. ASSUME NEW n \in 1..Len(declarations)
      PROVE  LET f == declarations[n][1]
                 k == declarations[n][2]
             IN  /\ f \in Known' /\ k \in 1..Len(contents'[f]) /\ contents'[f][k].name = Own
                 /\ Dealt(f, k)'
  BY PastDealt DEF DeclaredOK, Past, Known
<1>2. ASSUME NEW f \in Known', NEW k \in 1..Len(contents'[f]), contents'[f][k].name = Own, Dealt(f, k)'
      PROVE  \E n \in 1..Len(declarations) : declarations[n] = <<f, k>>
  <2>1. f \in Known /\ contents'[f] = contents[f] /\ k \in 1..Len(contents[f])
    BY <1>2 DEF Past, Known
  <2>2. ~(f = Top.file /\ k = Top.next)
    BY <1>2, <2>1, AtItemFacts
  <2> QED BY <1>2, <2>1, <2>2, PastDealt DEF DeclaredOK
<1> QED BY <1>1, <1>2 DEF DeclaredOK

(* What has been declared keeps its place. *)
LEMMA PastBefore ==
  ASSUME Past, DeclaredOK,
         \A n \in 1..Len(declarations) : declarations'[n] = declarations[n]
  PROVE  \A m \in 1..Len(declarations) : \A g : Before(m, g)' <=> Before(m, g)
<1> SUFFICES ASSUME NEW m \in 1..Len(declarations), NEW g PROVE Before(m, g)' <=> Before(m, g)
  OBVIOUS
<1> DEFINE e == declarations[m][1]
<1>1. e \in Known /\ declarations'[m] = declarations[m]
  BY DEF DeclaredOK
<1>2. contents'[e] = contents[e] /\ disk' = disk
  BY <1>1 DEF Past
<1> QED BY <1>1, <1>2, SMTT(40) DEF Before, IncludeAt, FindFile

LEMMA PastOrder ==
  ASSUME ResolverTypeOK, FramesOK, AtItem, Past, DeclaredOK, OrderOK, declarations' = declarations
  PROVE  OrderOK'
<1>1. \A n \in 1..Len(declarations) : declarations[n][1] \in Known
  BY DEF DeclaredOK
<1>2. \A m \in 1..Len(declarations) : \A g : Before(m, g)' <=> Before(m, g)
  BY PastBefore
<1>3. Known \subseteq Known'
  BY DEF Past, Known
<1>4. ASSUME NEW m \in 1..Len(declarations), NEW g \in Files, Before(m, g)
      PROVE  Finished(g)' \/ (Reaches(g, declarations[m][1])' /\ g \in Known')
  BY <1>1, <1>3, <1>4, PastFinished, PastReaches DEF OrderOK
<1>5. ASSUME NEW m \in 1..Len(declarations), NEW n \in 1..Len(declarations), Before(m, declarations[n][1])
      PROVE  n < m \/ Reaches(declarations[n][1], declarations[m][1])'
  BY <1>1, <1>5, PastReaches DEF OrderOK
<1> QED BY <1>2, <1>4, <1>5 DEF OrderOK

(* At most one frame is added, for a file that the item includes. *)
LEMMA PastStack ==
  ASSUME ResolverTypeOK, FramesOK, AtItem, Past, Len(stack') <= Len(stack) + 1
  PROVE  \A j \in 1..Len(stack') :
           \/ j \in 1..Len(stack) /\ stack'[j].file = stack[j].file /\ stack[j].file \in Known
           \/ j = Len(stack) + 1 /\ stack'[j].file \notin Known
<1> SUFFICES ASSUME NEW j \in 1..Len(stack')
             PROVE  \/ j \in 1..Len(stack) /\ stack'[j].file = stack[j].file /\ stack[j].file \in Known
                    \/ j = Len(stack) + 1 /\ stack'[j].file \notin Known
  OBVIOUS
<1>1. Len(stack) \in Nat /\ Len(stack') \in Nat
  BY AtItemFacts DEF Past
<1>2. j \in 1..Len(stack) \/ (j = Len(stack) + 1 /\ j > Len(stack))
  BY <1>1
<1> QED BY <1>2 DEF Past, FramesOK

LEMMA PastFrames ==
  ASSUME ResolverTypeOK, FramesOK, AtItem, Past, Len(stack') <= Len(stack) + 1,
         \A j \in 1..Len(stack') : j > Len(stack) =>
           /\ stack'[j].file \in Known' /\ stack'[j].next = 1
           /\ Len(contents'[stack'[j].file]) \in Nat
  PROVE  FramesOK'
<1>1. Len(stack) \in Nat \ {0} /\ Top = stack[Len(stack)] /\ Top.next \in 1..Len(contents[Top.file])
  BY AtItemFacts
<1>2. ASSUME NEW j \in 1..Len(stack')
      PROVE  stack'[j].file \in Known' /\ stack'[j].next \in 1..(Len(contents'[stack'[j].file]) + 1)
  <2>1. CASE j \in 1..Len(stack)
    <3>1. /\ stack[j].file \in Known /\ stack[j].next \in 1..(Len(contents[stack[j].file]) + 1)
          /\ stack'[j].file = stack[j].file /\ contents'[stack[j].file] = contents[stack[j].file]
          /\ stack[j].file \in Known'
      BY <2>1 DEF FramesOK, Past, Known
    <3>2. CASE j = Len(stack)
      <4>1. stack'[j].next = Top.next + 1 /\ stack[j].file = Top.file
        BY <1>1, <3>2, <2>1 DEF Past
      <4>2. Top.next \in 1..Len(contents[stack[j].file])
        BY <1>1, <4>1
      <4> QED BY <3>1, <4>1, <4>2
    <3>3. CASE j # Len(stack)
      BY <3>1, <3>3, <2>1 DEF Past
    <3> QED BY <3>2, <3>3
  <2>2. CASE j > Len(stack)
    BY <2>2
  <2> QED BY <1>1, <2>1, <2>2
<1>3. ASSUME NEW j \in 1..Len(stack'), NEW l \in 1..Len(stack'), stack'[j].file = stack'[l].file
      PROVE  j = l
  BY <1>1, <1>3, PastStack DEF FramesOK
<1> QED BY <1>2, <1>3 DEF FramesOK

LEMMA PastReach ==
  ASSUME ResolverTypeOK, FramesOK, AtItem, Past, ReachOK, Len(stack') <= Len(stack) + 1, FramesOK',
         NEW top, top = Top.file, Main \in Known,
         \A f \in Known' : f \notin Known => Includes(top, f)'
  PROVE  ReachOK'
<1>1. Len(stack) \in Nat \ {0} /\ Top = stack[Len(stack)] /\ Len(stack) \in 1..Len(stack) /\ top \in Known
  BY AtItemFacts
<1>2. Known \subseteq Known'
  BY DEF Past, Known
<1>3. ASSUME NEW j \in 1..Len(stack'), NEW l \in 1..Len(stack'), j < l,
             NEW e, e = stack'[j].file, NEW f, f = stack'[l].file
      PROVE  Reaches(e, f)'
  <2>1. j \in 1..Len(stack) /\ e = stack[j].file /\ e \in Known
    BY <1>1, <1>3, PastStack
  <2>2. CASE l \in 1..Len(stack)
    <3>1. f = stack[l].file /\ f \in Known
      BY <1>3, <2>2 DEF Past, FramesOK
    <3>2. Reaches(e, f)
      BY <1>3, <2>1, <2>2, <3>1 DEF ReachOK
    <3> QED BY <2>1, <3>1, <3>2, PastReaches
  <2>3. CASE l > Len(stack)
    <3>1. f \in Known' /\ Includes(top, f)'
      <4>1. f \in Known' /\ f \notin Known
        BY <1>3, <2>3 DEF FramesOK, Past
      <4> QED BY <4>1
    <3>2. CASE j = Len(stack)
      BY <1>1, <1>2, <2>1, <3>1, <3>2, ReachesStepsNext
    <3>3. CASE j # Len(stack)
      <4>1. Reaches(e, top)
        BY <1>1, <2>1, <3>3 DEF ReachOK
      <4>2. Reaches(e, top)'
        BY <1>1, <2>1, <4>1, PastReaches
      <4> QED BY <1>1, <1>2, <2>1, <3>1, <4>2, ReachesStepsNext
    <3> QED BY <3>2, <3>3
  <2> QED BY <1>1, <2>2, <2>3
<1>4. ASSUME NEW f \in Known', f # Main PROVE Reaches(Main, f)'
  <2>1. CASE f \in Known
    BY <1>4, <2>1, PastReaches DEF ReachOK
  <2>2. CASE f \notin Known
    <3>1. Includes(top, f)'
      BY <2>2
    <3>2. CASE top = Main
      BY <1>2, <3>1, <3>2, ReachesStepsNext
    <3>3. CASE top # Main
      <4>1. Reaches(Main, top)'
        BY <1>1, <3>3, PastReaches DEF ReachOK
      <4> QED BY <1>1, <1>2, <3>1, <4>1, ReachesStepsNext
    <3> QED BY <3>2, <3>3
  <2> QED BY <2>1, <2>2
<1> QED BY <1>3, <1>4 DEF ReachOK

(* What has been said of modules stays so, if the item itself is seen to.  *)
LEMMA PastModules ==
  ASSUME ResolverTypeOK, FramesOK, AtItem, Past, ModulesOK, modules \subseteq modules',
         ~MixedForms => Uniform(<<>>)',
         \A n \in modules' : n \notin modules =>
           Item.system /\ Item.name = n /\ <<"library", n>> \in disk,
         ~MixedForms /\ Item.system /\ <<"library", Item.name>> \in disk => Item.name \in modules',
         included \subseteq included',
         \A g \in included' : g \notin included =>
           IncludeAt(Top.file, Top.next, g) /\ (Item.system => Item.name \in modules')
  PROVE  ModulesOK'
<1> SUFFICES ASSUME ~MixedForms PROVE ModulesOK'
  BY DEF ModulesOK
<1> DEFINE top == Top.file
           k0 == Top.next
<1>1. top \in Known /\ k0 \in 1..Len(contents[top]) /\ Item = contents[top][k0]
  BY AtItemFacts
<1>2. \A f \in Known : f \in Known' /\ contents'[f] = contents[f]
  BY DEF Past, Known
<1> HIDE DEF top, k0
<1>3. ASSUME NEW n \in modules'
      PROVE  \E f \in Known' : \E k \in 1..Len(contents'[f]) :
               contents'[f][k].system /\ contents'[f][k].name = n /\ <<"library", n>> \in disk'
  <2>1. \E f \in Known : \E k \in 1..Len(contents[f]) :
          contents[f][k].system /\ contents[f][k].name = n /\ <<"library", n>> \in disk
    BY <1>1, <1>3 DEF ModulesOK
  <2> QED BY <1>2, <2>1 DEF Past
<1>4. ASSUME NEW f \in Known', NEW k \in 1..Len(contents'[f]), Dealt(f, k)',
             contents'[f][k].system, <<"library", contents'[f][k].name>> \in disk'
      PROVE  contents'[f][k].name \in modules'
  <2>1. f \in Known /\ contents'[f] = contents[f] /\ k \in 1..Len(contents[f]) /\ disk' = disk
    BY <1>4 DEF Past, Known
  <2>2. CASE Dealt(f, k)
    BY <1>4, <2>1, <2>2 DEF ModulesOK
  <2>3. CASE f = top /\ k = k0
    BY <1>1, <1>4, <2>1, <2>3
  <2> QED BY <1>4, <2>1, <2>2, <2>3, PastDealt DEF top, k0
<1>5. ASSUME NEW g \in included'
      PROVE  \E f \in Known' : \E k \in 1..Len(contents'[f]) :
               IncludeAt(f, k, g)' /\ (contents'[f][k].system => contents'[f][k].name \in modules')
  <2>1. \E f \in Known : \E k \in 1..Len(contents[f]) :
          IncludeAt(f, k, g) /\ (contents[f][k].system => contents[f][k].name \in modules')
    BY <1>1, <1>5 DEF ModulesOK, top, k0
  <2>2. \A f \in Known : \A k : IncludeAt(f, k, g)' <=> IncludeAt(f, k, g)
    BY <1>2 DEF IncludeAt, FindFile, Past
  <2> QED BY <1>2, <2>1, <2>2
<1> QED BY <1>3, <1>4, <1>5 DEF ModulesOK
-----------------------------------------------------------------------------
(* Each step of the walk keeps the invariant. *)

LEMMA UniformStays ==
  ASSUME UNCHANGED <<disk, contents>>, Uniform(<<>>) PROVE Uniform(<<>>)'
<1>1. IncludesIn(<<>>)' = IncludesIn(<<>>)
  BY Zenon DEF IncludesIn
<1>2. \A i : FindFile(i)' = FindFile(i)
  BY Zenon DEF FindFile
<1> QED BY <1>1, <1>2, Zenon DEF Uniform

(* A step that only goes on to the next item. *)
LEMMA GoesOn ==
  ASSUME ResolverTypeOK, Walk, AtItem, stack' = Advanced, UNCHANGED <<disk, contents, included>>
  PROVE  /\ Past /\ FramesOK' /\ KnownOK' /\ ReachOK'
         /\ stack' \in Seq(Frame) /\ Len(stack') = Len(stack)
         /\ \A j \in 1..Len(stack') : stack'[j].file = stack[j].file
<1>1. stack' \in Seq(Frame) /\ Len(stack') = Len(stack) /\ FramesOK /\ KnownOK /\ ReachOK /\ Main \in Known
  BY AtItemFacts DEF Walk, KnownOK
<1>2. Past
  BY <1>1, AtItemFacts DEF Past, Known
<1>3. Len(stack') <= Len(stack) + 1 /\ \A j \in 1..Len(stack') : ~(j > Len(stack))
  BY <1>1, AtItemFacts
<1>4. FramesOK'
  BY <1>1, <1>2, <1>3, PastFrames
<1>5. \A f \in Known' : f \in Known
  BY DEF Known
<1>6. ReachOK'
  BY <1>1, <1>2, <1>3, <1>4, <1>5, PastReach
<1>7. KnownOK'
  BY <1>1 DEF KnownOK, Known
<1> QED BY <1>1, <1>2, <1>4, <1>6, <1>7, AtItemFacts DEF Past

LEMMA GoesOnTypes ==
  ASSUME ResolverTypeOK, Walk, AtItem, stack' = Advanced, UNCHANGED <<disk, contents, included, modules>>,
         declarations' \in Seq((Files \cup {Main}) \X (1..MaxItems)), missing' \subseteq Files \cup Names
  PROVE  ResolverTypeOK'
<1>1. /\ stack' \in Seq(Frame) /\ Len(stack') = Len(stack) /\ Len(stack) \in Nat
      /\ \A j \in 1..Len(stack') : stack'[j].file = stack[j].file
  BY GoesOn, AtItemFacts DEF Walk
<1>2. \A k \in 2..Len(stack) : stack'[k].file \in included
  <2>1. ASSUME NEW k \in 2..Len(stack) PROVE stack'[k].file \in included
    <3>1. k \in 1..Len(stack)
      BY <1>1
    <3> QED BY <1>1, <3>1 DEF ResolverTypeOK
  <2> QED BY <2>1
<1> QED BY <1>1, <1>2 DEF ResolverTypeOK

LEMMA MergeKeeps == ASSUME ResolverTypeOK, Walk, Merge PROVE ResolverTypeOK' /\ Walk'
<1> DEFINE top == Top.file
           k0 == Top.next
           d == <<top, k0>>
<1>1. AtItem /\ Item.name = Own /\ stack' = Advanced /\ declarations' = Append(declarations, d)
      /\ UNCHANGED <<disk, contents, included, modules, missing>>
  BY DEF Merge
<1>2. /\ Past /\ FramesOK' /\ KnownOK' /\ ReachOK' /\ stack' \in Seq(Frame)
      /\ FramesOK /\ KnownOK /\ DeclaredOK /\ ReachOK /\ IncludesOK /\ OrderOK /\ ModulesOK
  BY <1>1, GoesOn DEF Walk
<1>3. top \in Known /\ k0 \in 1..Len(contents[top]) /\ contents[top][k0].name = Own
      /\ contents[top] \in Texts /\ top \in Files \cup {Main} /\ k0 \in 1..MaxItems
  <2>1. top \in Known /\ k0 \in 1..Len(contents[top]) /\ contents[top][k0].name = Own
    BY <1>1, <1>2, AtItemFacts
  <2>2. contents[top] \in Texts /\ top \in Files \cup {Main}
    BY <2>1 DEF ResolverTypeOK, Known
  <2> HIDE DEF top, k0
  <2> QED BY <2>1, <2>2, TextFacts, ResolverAssumption
<1>4. /\ declarations' \in Seq((Files \cup {Main}) \X (1..MaxItems))
      /\ Len(declarations') = Len(declarations) + 1 /\ Len(declarations) \in Nat
      /\ declarations'[Len(declarations) + 1] = d
      /\ \A n \in 1..Len(declarations) : declarations'[n] = declarations[n]
  BY <1>1, <1>3 DEF ResolverTypeOK
<1>5. ResolverTypeOK'
  BY <1>1, <1>4, GoesOnTypes DEF ResolverTypeOK
<1>6. /\ ~Dealt(top, k0) /\ ~Finished(top)
      /\ \A f \in Known : \A k \in 1..Len(contents[f]) : Dealt(f, k)' <=> Dealt(f, k) \/ (f = top /\ k = k0)
  BY <1>1, <1>2, NotYetDealt, PastDealt
<1>7. d[1] = top /\ d[2] = k0
  OBVIOUS
<1>8. IncludesOK'
  <2>1. \A g : ~IncludeAt(top, k0, g)
    BY <1>3 DEF IncludeAt
  <2> QED BY <1>1, <1>2, <2>1, PastIncludes DEF ResolverTypeOK
<1>9. ModulesOK'
  <2>1. Item \in Items
    BY <1>1, <1>2, AtItemFacts
  <2>2. ~Item.system
    BY <1>1, <2>1, ItemFacts
  <2>3. ~MixedForms => Uniform(<<>>)'
    BY <1>1, <1>2, UniformStays DEF ModulesOK
  <2> QED BY <1>1, <1>2, <2>2, <2>3, PastModules
<1>10. \A n \in 1..Len(declarations) : declarations[n] # d
  BY <1>2, <1>6, <1>7 DEF DeclaredOK
<1>11. /\ contents' = contents /\ Known' = Known /\ DeclaredOK /\ OrderOK /\ IncludesOK
       /\ \A e, g \in Known : Reaches(e, g) => Reaches(e, g)'
  BY <1>1, <1>2, PastReaches DEF Known
<1> HIDE DEF d, top, k0
<1>12. DeclaredOK'
  <2>1. ASSUME NEW m \in 1..Len(declarations'), NEW n \in 1..Len(declarations'),
               declarations'[m] = declarations'[n]
        PROVE  m = n
    <3>1. \A i \in 1..Len(declarations') : i \in 1..Len(declarations) \/ i = Len(declarations) + 1
      BY <1>4
    <3> QED BY <1>4, <1>10, <1>11, <2>1, <3>1 DEF DeclaredOK
  <2>2. ASSUME NEW n \in 1..Len(declarations'),
               NEW f, f = declarations'[n][1], NEW k, k = declarations'[n][2]
        PROVE  /\ f \in Known' /\ k \in 1..Len(contents'[f]) /\ contents'[f][k].name = Own
               /\ Dealt(f, k)'
    <3>1. CASE n \in 1..Len(declarations)
      <4>1. f \in Known /\ k \in 1..Len(contents[f]) /\ contents[f][k].name = Own /\ Dealt(f, k)
        BY <1>4, <1>11, <2>2, <3>1 DEF DeclaredOK
      <4> QED BY <1>6, <1>11, <4>1
    <3>2. CASE n = Len(declarations) + 1
      <4>1. f = top /\ k = k0
        BY <1>4, <1>7, <2>2, <3>2
      <4> QED BY <1>3, <1>6, <1>11, <4>1
    <3> QED BY <1>4, <3>1, <3>2
  <2>3. ASSUME NEW f \in Known', NEW k \in 1..Len(contents'[f]), contents'[f][k].name = Own, Dealt(f, k)'
        PROVE  \E n \in 1..Len(declarations') : declarations'[n] = <<f, k>>
    <3>1. f \in Known /\ k \in 1..Len(contents[f]) /\ contents[f][k].name = Own
      BY <1>11, <2>3
    <3>2. CASE Dealt(f, k)
      <4>1. PICK n \in 1..Len(declarations) : declarations[n] = <<f, k>>
        BY <1>11, <3>1, <3>2 DEF DeclaredOK
      <4>2. n \in 1..Len(declarations') /\ declarations'[n] = <<f, k>>
        BY <1>4, <4>1
      <4> QED BY <4>2
    <3>3. CASE f = top /\ k = k0
      BY <1>4, <3>3 DEF d
    <3> QED BY <1>6, <2>3, <3>1, <3>2, <3>3
  <2> QED BY <2>1, <2>2, <2>3 DEF DeclaredOK
<1>13. \A m \in 1..Len(declarations) : \A g : Before(m, g)' <=> Before(m, g)
  BY <1>2, <1>4, PastBefore
<1>14. ASSUME NEW g, NEW last, last = Len(declarations) + 1, Before(last, g)'
       PROVE  g \in Files /\ (Finished(g) \/ (Reaches(g, top) /\ g \in Known))
  <2>1. PICK t, m : t = declarations'[last][1] /\ m = declarations'[last][2] /\ t = top /\ m = k0
    BY <1>4, <1>7, <1>14
  <2>2. PICK k \in 1..k0 : IncludeAt(t, k, g)'
    BY <1>14, <2>1 DEF Before
  <2>3. k \in 1..Len(contents[top]) /\ contents[top] \in Texts
    BY <1>3
  <2>4. IncludeAt(top, k, g)
    BY <1>1, <2>1, <2>2 DEF IncludeAt, FindFile
  <2>5. g \in Files
    BY <1>5, <2>3, <2>4, TextFacts, ItemFacts DEF IncludeAt, ResolverTypeOK
  <2>6. k # k0
    BY <1>3, <2>4 DEF IncludeAt
  <2>7. \A j \in 1..Len(stack) : stack[j].file = top <=> j = Len(stack)
    BY <1>1, <1>2, AtItemFacts DEF FramesOK, top
  <2>8. Dealt(top, k)
    <3>1. stack[Len(stack)].next = k0 /\ k \in Int /\ k0 \in Int
      BY <1>1, <1>2, <1>3, AtItemFacts DEF k0
    <3> QED BY <2>2, <2>6, <2>7, <3>1 DEF Dealt
  <2>9. ~\E j, l \in 1..Len(stack) : j < l /\ stack[j].file = top /\ stack[l].file = g
    <3>1. Len(stack) \in Nat
      BY <1>1, <1>2, AtItemFacts
    <3> QED BY <2>7, <3>1
  <2> QED BY <1>3, <1>11, <2>3, <2>4, <2>5, <2>8, <2>9 DEF IncludesOK
<1>15. \A g : Finished(g) => Finished(g)'
  BY <1>1, <1>2, PastFinished
<1>16. \A m \in 1..Len(declarations') : m \in 1..Len(declarations) \/ m = Len(declarations) + 1
  BY <1>4
<1>17. OrderOK'
  <2>1. ASSUME NEW m \in 1..Len(declarations'), NEW g \in Files, Before(m, g)', NEW f, f = declarations'[m][1]
        PROVE  Finished(g)' \/ (Reaches(g, f)' /\ g \in Known')
    <3>1. CASE m \in 1..Len(declarations)
      <4>1. Before(m, g) /\ f = declarations[m][1] /\ f \in Known
        BY <1>4, <1>11, <1>13, <2>1, <3>1 DEF DeclaredOK
      <4> QED BY <1>11, <1>15, <3>1, <4>1 DEF OrderOK
    <3>2. CASE m = Len(declarations) + 1
      <4>1. f = top
        BY <1>4, <1>7, <2>1, <3>2
      <4> QED BY <1>3, <1>11, <1>14, <1>15, <2>1, <3>2, <4>1
    <3> QED BY <1>16, <3>1, <3>2
  <2>2. ASSUME NEW m \in 1..Len(declarations'), NEW n \in 1..Len(declarations'),
               NEW g, g = declarations'[n][1], NEW f, f = declarations'[m][1], Before(m, g)'
        PROVE  n < m \/ Reaches(g, f)'
    <3>1. CASE m \in 1..Len(declarations)
      <4>1. Before(m, g) /\ f = declarations[m][1] /\ f \in Known /\ k0 \in Nat
        BY <1>3, <1>4, <1>11, <1>13, <2>2, <3>1 DEF DeclaredOK
      <4>2. CASE n \in 1..Len(declarations)
        <5>1. g = declarations[n][1] /\ g \in Known
          BY <1>4, <1>11, <2>2, <4>2 DEF DeclaredOK
        <5> QED BY <1>11, <3>1, <4>1, <4>2, <5>1 DEF OrderOK
      <4>3. CASE n = Len(declarations) + 1
        <5>1. g = top /\ g \in Known
          BY <1>3, <1>4, <1>7, <2>2, <4>3
        <5>2. g \in Files
          <6>1. PICK k \in 1..declarations[m][2] : IncludeAt(f, k, g)
            BY <4>1 DEF Before
          <6>2. declarations[m][2] \in 1..Len(contents[f])
            BY <1>11, <3>1, <4>1 DEF DeclaredOK
          <6>3. contents[f] \in Texts /\ ResolverTypeOK
            BY <4>1 DEF ResolverTypeOK, Known
          <6>4. k \in 1..Len(contents[f])
            BY <6>2, <6>3, TextFacts
          <6> QED BY <6>1, <6>3, <6>4, TextFacts, ItemFacts DEF IncludeAt, ResolverTypeOK
        <5>3. Finished(g) \/ Reaches(g, f)
          BY <1>11, <3>1, <4>1, <5>2 DEF OrderOK
        <5> QED BY <1>6, <1>11, <4>1, <5>1, <5>3
      <4> QED BY <1>16, <4>2, <4>3
    <3>2. CASE m = Len(declarations) + 1
      <4>1. f = top /\ (Finished(g) \/ (Reaches(g, top) /\ g \in Known))
        BY <1>4, <1>7, <1>14, <2>2, <3>2
      <4>2. CASE Finished(g)
        <5>1. n # m
          BY <1>4, <1>6, <1>7, <2>2, <3>2, <4>2
        <5> QED BY <1>4, <3>2, <5>1
      <4>3. CASE Reaches(g, top) /\ g \in Known
        BY <1>3, <1>11, <4>1, <4>3
      <4> QED BY <4>1, <4>2, <4>3
    <3> QED BY <1>16, <3>1, <3>2
  <2> QED BY <2>1, <2>2 DEF OrderOK
<1> QED BY <1>2, <1>5, <1>8, <1>9, <1>12, <1>17 DEF Walk

(* An include that finds nothing, or a file that is known: what is left is *)
(* to see to that file.                                                    *)
LEMMA SkipKeeps ==
  ASSUME ResolverTypeOK, Walk, AtItem, Item.name # Own, stack' = Advanced,
         UNCHANGED <<disk, contents, included, modules, declarations>>, missing' \subseteq Files \cup Names,
         FindFile(Item) \subseteq included
  PROVE  ResolverTypeOK' /\ Walk'
<1>1. /\ Past /\ FramesOK' /\ KnownOK' /\ ReachOK' /\ Len(stack') = Len(stack)
      /\ \A j \in 1..Len(stack') : stack'[j].file = stack[j].file
      /\ FramesOK /\ KnownOK /\ DeclaredOK /\ ReachOK /\ IncludesOK /\ OrderOK /\ ModulesOK
  BY GoesOn DEF Walk
<1>2. ResolverTypeOK'
  BY GoesOnTypes DEF ResolverTypeOK
<1>3. DeclaredOK' /\ OrderOK'
  BY <1>1, PastDeclared, PastOrder
<1>4. Known' = Known /\ \A e, g \in Known : Reaches(e, g) => Reaches(e, g)'
  BY <1>1, PastReaches DEF Known
<1>5. /\ Top.file \in Known /\ Item = contents[Top.file][Top.next] /\ Item \in Items
      /\ Top = stack[Len(stack)] /\ Len(stack) \in Nat \ {0}
  BY <1>1, AtItemFacts
<1>6. ASSUME NEW top, top = Top.file, NEW g, IncludeAt(top, Top.next, g)
      PROVE  \/ Finished(g)'
             \/ Reaches(g, top)' /\ g \in Known'
             \/ \E j, l \in 1..Len(stack') : j < l /\ stack'[j].file = top /\ stack'[l].file = g
  <2>1. g \in included /\ g \in Known
    BY <1>1, <1>5, <1>6 DEF IncludeAt, KnownOK
  <2>2. CASE Finished(g)
    BY <1>1, <2>2, PastFinished
  <2>3. CASE ~Finished(g)
    <3>1. PICK j \in 1..Len(stack) : stack[j].file = g
      BY <2>1, <2>3 DEF Finished
    <3>2. CASE j = Len(stack)
      <4>1. g = top /\ Includes(g, top)
        <5>1. g = top
          BY <1>5, <1>6, <3>1, <3>2
        <5>2. contents[top] \in Texts /\ Top.next \in 1..Len(contents[top])
          BY <1>1, <1>5, <1>6, AtItemFacts DEF ResolverTypeOK, Known
        <5>3. Item \in Range(contents[top])
          BY <1>5, <1>6, <5>2, TextFacts DEF Range
        <5> QED BY <1>5, <1>6, <5>1, <5>3 DEF Includes, IncludeAt
      <4> QED BY <1>4, <2>1, <4>1, ReachesSteps
    <3>3. CASE j # Len(stack)
      <4>1. j < Len(stack) /\ Len(stack) \in 1..Len(stack)
        BY <1>5, <3>3
      <4>2. Reaches(g, top)
        BY <1>1, <1>5, <1>6, <3>1, <4>1 DEF ReachOK
      <4> QED BY <1>4, <1>5, <1>6, <2>1, <4>2
    <3> QED BY <3>2, <3>3
  <2> QED BY <2>2, <2>3
<1>7. ASSUME NEW top, top = Top.file PROVE IncludesOK'
  <2>1. \A g \in Files : IncludeAt(top, Top.next, g) =>
          \/ Finished(g)'
          \/ Reaches(g, top)' /\ g \in Known'
          \/ \E j, l \in 1..Len(stack') : j < l /\ stack'[j].file = top /\ stack'[l].file = g
    BY <1>6, <1>7
  <2>2. disk \subseteq Files
    BY DEF ResolverTypeOK
  <2> QED BY <1>1, <1>7, <2>1, <2>2, PastIncludes
<1>8. ModulesOK'
  <2>1. ~MixedForms => Uniform(<<>>)'
    BY <1>1, UniformStays DEF ModulesOK
  <2>2. ASSUME ~MixedForms, Item.system, <<"library", Item.name>> \in disk PROVE Item.name \in modules
    <3> DEFINE g == <<"library", Item.name>>
    <3>1. FindFile(Item) = {g} /\ g \in included
      <4>1. Item \in Items
        BY <1>5
      <4>2. FindFile(Item) = {g} \cap disk
        BY <2>2, <4>1, ItemFacts
      <4> QED BY <2>2, <4>2
    <3>2. PICK f \in Known : \E k \in 1..Len(contents[f]) :
            IncludeAt(f, k, g) /\ (contents[f][k].system => contents[f][k].name \in modules)
      BY <1>1, <2>2, <3>1 DEF ModulesOK
    <3>3. PICK k \in 1..Len(contents[f]) :
            IncludeAt(f, k, g) /\ (contents[f][k].system => contents[f][k].name \in modules)
      BY <3>2
    <3> DEFINE i == contents[f][k]
    <3>4. contents[f] \in Texts /\ contents[Top.file] \in Texts /\ Top.next \in 1..Len(contents[Top.file])
      BY <1>1, <1>5, AtItemFacts DEF ResolverTypeOK, Known
    <3>5. i \in Items /\ i \in Range(contents[f]) /\ Item \in Range(contents[Top.file])
      BY <1>5, <3>4, TextFacts DEF Range
    <3>6. i.name # Own /\ g \in FindFile(i) /\ (i.system => i.name \in modules)
      BY <3>3 DEF IncludeAt
    <3> HIDE DEF i
    <3>7. i.name = Item.name
      <4>1. g = <<"source", i.name>> \/ g = <<"library", i.name>>
        BY <3>5, <3>6, ItemFacts
      <4> QED BY <4>1
    <3>8. i \in IncludesIn(<<>>) /\ Item \in IncludesIn(<<>>)
      BY <1>5, <3>5, <3>6 DEF IncludesIn, Known
    <3>9. i.system = Item.system
      <4>1. FindFile(i) \cap FindFile(Item) # {}
        BY <3>1, <3>6
      <4> QED BY <1>1, <2>2, <3>7, <3>8, <4>1 DEF ModulesOK, Uniform
    <3> QED BY <2>2, <3>6, <3>7, <3>9
  <2> QED BY <1>1, <2>1, <2>2, PastModules
<1> QED BY <1>1, <1>2, <1>3, <1>7, <1>8 DEF Walk

LEMMA CannotFindKeeps == ASSUME ResolverTypeOK, Walk, CannotFind PROVE ResolverTypeOK' /\ Walk'
<1>1. FramesOK
  BY DEF Walk
<1>2. Item \in Items /\ Item.name \in Names
  BY <1>1, AtItemFacts, ItemFacts DEF CannotFind
<1> QED BY <1>2, SkipKeeps DEF CannotFind, ResolverTypeOK

LEMMA AlreadyIncludedKeeps == ASSUME ResolverTypeOK, Walk, AlreadyIncluded PROVE ResolverTypeOK' /\ Walk'
BY SkipKeeps DEF AlreadyIncluded, ResolverTypeOK

(* A file becomes known, with text c; it is read at once or holds nothing. *)
LEMMA FoundKeeps ==
  ASSUME ResolverTypeOK, Walk, AtItem, Item.name # Own,
         NEW f, f \in FindFile(Item) \ included, NEW c \in Texts, ~MixedForms => Uniform(c),
         included' = included \cup {f},
         contents' = [g \in DOMAIN contents \cup {f} |-> IF g = f THEN c ELSE contents[g]],
         \/ stack' = Append(Advanced, [file |-> f, next |-> 1])
         \/ stack' = Advanced /\ c = <<>>,
         modules' = WithModule(Item),
         missing' \subseteq Files \cup Names,
         UNCHANGED <<disk, declarations>>
  PROVE  ResolverTypeOK' /\ Walk'
<1>1. /\ FramesOK /\ KnownOK /\ DeclaredOK /\ ReachOK /\ IncludesOK /\ OrderOK /\ ModulesOK
      /\ Main \in Known
  BY DEF Walk, KnownOK
<1>2. /\ Top.file \in Known /\ Item = contents[Top.file][Top.next] /\ Item \in Items
      /\ Top = stack[Len(stack)] /\ Len(stack) \in Nat \ {0}
      /\ Advanced \in Seq(Frame) /\ Len(Advanced) = Len(stack)
      /\ \A j \in 1..Len(stack) :
           /\ Advanced[j].file = stack[j].file
           /\ Advanced[j].next = IF j = Len(stack) THEN stack[j].next + 1 ELSE stack[j].next
  BY <1>1, AtItemFacts
<1>3. f \in Files /\ f # Main /\ f \notin Known /\ f \in FindFile(Item) /\ f \in disk
  <2>1. f \in FindFile(Item) /\ f \notin included
    OBVIOUS
  <2>2. f \in disk /\ disk \subseteq Files
    BY <1>2, <2>1, ItemFacts DEF ResolverTypeOK
  <2>3. f # Main
    BY <2>2, ResolverAssumption DEF Files
  <2> QED BY <1>1, <2>1, <2>2, <2>3 DEF KnownOK
<1>4. /\ Known' = Known \cup {f} /\ contents'[f] = c
      /\ \A g \in Known : contents'[g] = contents[g] /\ g # f
  BY <1>3 DEF Known
<1>5. Len(c) \in Nat
  BY TextFacts
<1> DEFINE frame == [file |-> f, next |-> 1]
<1>6. frame \in Frame /\ frame.file = f /\ frame.next = 1
  BY <1>3 DEF Frame
<1> HIDE DEF frame
<1>7. /\ stack' \in Seq(Frame) /\ Len(stack') \in Nat
      /\ \A j \in 1..Len(stack) : stack'[j] = Advanced[j]
      /\ \/ Len(stack') = Len(stack) + 1 /\ stack'[Len(stack) + 1] = frame
         \/ Len(stack') = Len(stack) /\ c = <<>>
  <2>1. CASE stack' = Append(Advanced, frame)
    <3>1. /\ stack' \in Seq(Frame) /\ Len(stack') = Len(Advanced) + 1
          /\ stack'[Len(Advanced) + 1] = frame
          /\ \A j \in 1..Len(Advanced) : stack'[j] = Advanced[j]
      BY <1>2, <1>6, <2>1, AppendProperties
    <3> QED BY <1>2, <3>1
  <2>2. CASE stack' = Advanced /\ c = <<>>
    BY <1>2, <2>2
  <2> QED BY <2>1, <2>2 DEF frame
<1>8. \A k \in 1..Len(c) : ~Dealt(f, k)'
  <2> SUFFICES ASSUME NEW k \in 1..Len(c) PROVE ~Dealt(f, k)'
    OBVIOUS
  <2>1. Len(stack') = Len(stack) + 1 /\ stack'[Len(stack) + 1] = frame
    BY <1>5, <1>7
  <2>2. PICK j \in 1..Len(stack') : stack'[j].file = f /\ stack'[j].next = 1
    <3>1. Len(stack) + 1 \in 1..Len(stack')
      BY <1>2, <2>1
    <3> QED BY <1>6, <2>1, <3>1
  <2> QED BY <1>5, <2>2 DEF Dealt
<1>9. /\ disk' = disk /\ Known \subseteq DOMAIN contents' /\ Len(stack') >= Len(stack)
      /\ Len(stack') <= Len(stack) + 1
      /\ \A j \in 1..Len(stack') : j > Len(stack) => stack'[j].file = f /\ stack'[j].next = 1
  BY <1>2, <1>4, <1>6, <1>7 DEF Known
<1>10. \A g \in DOMAIN contents' : g \notin Known => \A k \in 1..Len(contents'[g]) : ~Dealt(g, k)'
  <2> SUFFICES ASSUME NEW g \in DOMAIN contents', g \notin Known, NEW k \in 1..Len(contents'[g])
               PROVE  ~Dealt(g, k)'
    OBVIOUS
  <2>1. g = f /\ k \in 1..Len(c)
    BY <1>4 DEF Known
  <2> QED BY <1>8, <2>1
<1>11. Past
  BY <1>2, <1>3, <1>4, <1>7, <1>9, <1>10 DEF Past
<1>12. FramesOK'
  BY <1>1, <1>4, <1>5, <1>9, <1>11, PastFrames
<1>13. KnownOK'
  BY <1>1, <1>3, <1>4 DEF KnownOK
<1>14. ASSUME NEW top, top = Top.file
       PROVE  /\ Includes(top, f)'
              /\ \A g : IncludeAt(top, Top.next, g) => g = f
  <2>1. contents[top] \in Texts /\ Top.next \in 1..Len(contents[top])
    BY <1>1, <1>2, <1>14, AtItemFacts DEF ResolverTypeOK, Known
  <2>2. Item \in Range(contents'[top])
    <3>1. contents'[top] = contents[top] /\ Item = contents[top][Top.next]
      BY <1>2, <1>4, <1>14
    <3>2. DOMAIN contents[top] = 1..Len(contents[top])
      BY <2>1, TextFacts
    <3> QED BY <2>1, <3>1, <3>2 DEF Range
  <2>3. Includes(top, f)'
    BY <1>2, <1>3, <1>9, <2>2 DEF Includes, FindFile
  <2>4. \A g : IncludeAt(top, Top.next, g) => g = f
    BY <1>2, <1>3, <1>14 DEF IncludeAt, FindFile
  <2> QED BY <2>3, <2>4
<1>15. ReachOK'
  <2> SUFFICES ASSUME NEW top, top = Top.file PROVE ReachOK'
    OBVIOUS
  <2>1. \A g \in Known' : g \notin Known => Includes(top, g)'
    BY <1>4, <1>14
  <2> QED BY <1>1, <1>9, <1>11, <1>12, <2>1, PastReach
<1>16. DeclaredOK' /\ OrderOK'
  BY <1>1, <1>11, PastDeclared, PastOrder
<1>17. ASSUME NEW top, top = Top.file PROVE IncludesOK'
  <2>1. \/ Finished(f)'
        \/ \E j, l \in 1..Len(stack') : j < l /\ stack'[j].file = top /\ stack'[l].file = f
    <3>1. CASE Len(stack') = Len(stack) + 1 /\ stack'[Len(stack) + 1] = frame
      <4>1. /\ Len(stack) \in 1..Len(stack') /\ Len(stack) + 1 \in 1..Len(stack')
            /\ Len(stack) < Len(stack) + 1 /\ Len(stack) \in 1..Len(stack)
        BY <1>2, <3>1
      <4>2. stack'[Len(stack)].file = top
        BY <1>2, <1>7, <1>17, <4>1
      <4>3. stack'[Len(stack) + 1].file = f
        BY <1>6, <3>1
      <4> QED BY <4>1, <4>2, <4>3
    <3>2. CASE Len(stack') = Len(stack)
      <4>1. \A j \in 1..Len(stack') : stack'[j].file # f
        <5> SUFFICES ASSUME NEW j \in 1..Len(stack') PROVE stack'[j].file # f
          OBVIOUS
        <5>1. j \in 1..Len(stack) /\ stack'[j] = Advanced[j]
          BY <1>7, <3>2
        <5>2. Advanced[j].file = stack[j].file /\ stack[j].file \in Known
          BY <1>1, <1>2, <5>1 DEF FramesOK
        <5> QED BY <1>3, <5>1, <5>2
      <4> QED BY <1>4, <4>1 DEF Finished
    <3> QED BY <1>7, <3>1, <3>2
  <2>2. \A g \in Files : IncludeAt(top, Top.next, g) =>
          \/ Finished(g)'
          \/ Reaches(g, top)' /\ g \in Known'
          \/ \E j, l \in 1..Len(stack') : j < l /\ stack'[j].file = top /\ stack'[l].file = g
    BY <1>14, <1>17, <2>1
  <2>3. disk \subseteq Files
    BY DEF ResolverTypeOK
  <2> QED BY <1>1, <1>11, <1>17, <2>2, <2>3, PastIncludes
<1>18. IncludesIn(<<>>)' = IncludesIn(c)
  <2>1. \A i : i \in UNION {Range(contents'[g]) : g \in DOMAIN contents'} <=>
               i \in (UNION {Range(contents[g]) : g \in DOMAIN contents}) \cup Range(c)
    BY <1>4 DEF Known
  <2>2. Range(<<>>) = {}
    BY DEF Range
  <2> QED BY <2>1, <2>2 DEF IncludesIn
<1>19. ModulesOK'
  <2>1. ~MixedForms => Uniform(<<>>)'
    <3>1. \A i : FindFile(i)' = FindFile(i)
      BY DEF FindFile
    <3> QED BY <1>18, <3>1 DEF Uniform
  <2>2. IncludeAt(Top.file, Top.next, f)
    BY <1>2, <1>3 DEF IncludeAt
  <2>3. \A n \in modules' : n \notin modules => Item.system /\ Item.name = n
    BY DEF WithModule
  <2>4. Item.system => <<"library", Item.name>> \in disk /\ Item.name \in modules'
    <3>1. Item.system => f \in {<<"library", Item.name>>} \cap disk
      BY <1>2, <1>3, ItemFacts
    <3>2. Item.system => Item.name \in modules'
      BY DEF WithModule
    <3> QED BY <3>1, <3>2
  <2>5. modules \subseteq modules' /\ included \subseteq included'
    BY DEF WithModule
  <2>6. \A g \in included' : g \notin included => g = f
    OBVIOUS
  <2> QED BY <1>1, <1>11, <2>1, <2>2, <2>3, <2>4, <2>5, <2>6, PastModules
<1>20. ResolverTypeOK'
  <2>1. \A k \in 2..Len(stack') : stack'[k].file \in included'
    <3> SUFFICES ASSUME NEW k \in 2..Len(stack') PROVE stack'[k].file \in included'
      OBVIOUS
    <3>1. CASE k \in 2..Len(stack)
      <4>0. \A l \in 2..Len(stack) : stack[l].file \in included
        BY DEF ResolverTypeOK
      <4>1. k \in 1..Len(stack) /\ stack[k].file \in included
        BY <1>2, <3>1, <4>0
      <4>2. stack'[k].file = stack[k].file
        BY <1>2, <1>7, <4>1
      <4> QED BY <4>1, <4>2
    <3>2. CASE k > Len(stack)
      <4>1. Len(stack') \in Nat
        BY <1>7
      <4>2. k \in 1..Len(stack')
        BY <4>1
      <4>3. stack'[k].file = f
        BY <1>9, <3>2, <4>2
      <4>4. f \in included'
        OBVIOUS
      <4> QED BY <4>3, <4>4
    <3> QED BY <1>2, <1>7, <3>1, <3>2
  <2>2. modules' \subseteq Names
    <3>1. modules \subseteq Names /\ (Item.system => Item.name \in Names)
      BY <1>2, ItemFacts DEF ResolverTypeOK
    <3>2. modules' = modules \cup (IF Item.system THEN {Item.name} ELSE {})
      BY DEF WithModule
    <3> QED BY <3>1, <3>2
  <2>3. DOMAIN contents' \subseteq Files \cup {Main} /\ \A g \in DOMAIN contents' : contents'[g] \in Texts
    BY <1>3, <1>4 DEF ResolverTypeOK, Known
  <2>4. included' \subseteq DOMAIN contents' \ {Main}
    BY <1>3, <1>4 DEF ResolverTypeOK, Known
  <2> QED BY <1>7, <2>1, <2>2, <2>3, <2>4 DEF ResolverTypeOK
<1> QED BY <1>12, <1>13, <1>15, <1>16, <1>17, <1>19, <1>20 DEF Walk

LEMMA IncludeKeeps == ASSUME ResolverTypeOK, Walk, Include PROVE ResolverTypeOK' /\ Walk'
<1>1. PICK f \in FindFile(Item) \ included :
        /\ included' = included \cup {f}
        /\ \E c \in SomeText : contents' = [g \in DOMAIN contents \cup {f} |-> IF g = f THEN c ELSE contents[g]]
        /\ stack' = Append(Advanced, [file |-> f, next |-> 1])
  BY DEF Include
<1>2. PICK c \in SomeText : contents' = [g \in DOMAIN contents \cup {f} |-> IF g = f THEN c ELSE contents[g]]
  BY <1>1
<1>3. c \in Texts /\ (~MixedForms => Uniform(c))
  BY DEF SomeText
<1>4. AtItem /\ Item.name # Own /\ modules' = WithModule(Item) /\ UNCHANGED <<disk, declarations, missing>>
  BY DEF Include
<1>5. missing' \subseteq Files \cup Names
  BY <1>4 DEF ResolverTypeOK
<1> QED BY <1>1, <1>2, <1>3, <1>4, <1>5, FoundKeeps

LEMMA IncludeBrokenKeeps == ASSUME ResolverTypeOK, Walk, IncludeBroken PROVE ResolverTypeOK' /\ Walk'
<1>1. PICK f \in FindFile(Item) \ included :
        /\ included' = included \cup {f}
        /\ contents' = [g \in DOMAIN contents \cup {f} |-> IF g = f THEN <<>> ELSE contents[g]]
        /\ missing' = missing \cup {f}
  BY DEF IncludeBroken
<1>2. /\ AtItem /\ Item.name # Own /\ modules' = WithModule(Item) /\ stack' = Advanced
      /\ UNCHANGED <<disk, declarations>>
  BY DEF IncludeBroken
<1>3. Item \in Items
  BY <1>2, AtItemFacts DEF Walk
<1>4. missing' \subseteq Files \cup Names
  BY <1>1, <1>3, ItemFacts DEF ResolverTypeOK
<1>5. <<>> \in Texts
  <2>1. <<>> \in [1..0 -> Items] /\ 0 \in 0..MaxItems
    BY ResolverAssumption
  <2> QED BY <2>1 DEF Texts
<1>6. ~MixedForms => Uniform(<<>>)
  BY DEF Walk, ModulesOK
<1> DEFINE c == <<>>
<1>7. c \in Texts /\ (~MixedForms => Uniform(c)) /\ c = <<>>
      /\ contents' = [g \in DOMAIN contents \cup {f} |-> IF g = f THEN c ELSE contents[g]]
  BY <1>1, <1>5, <1>6
<1> HIDE DEF c
<1> QED BY <1>1, <1>2, <1>4, <1>7, FoundKeeps

LEMMA EndOfFileKeeps == ASSUME ResolverTypeOK, Walk, EndOfFile PROVE ResolverTypeOK' /\ Walk'
<1>1. /\ FramesOK /\ KnownOK /\ DeclaredOK /\ ReachOK /\ IncludesOK /\ OrderOK /\ ModulesOK
      /\ UNCHANGED <<disk, contents, included, modules, declarations, missing>>
      /\ stack # <<>> /\ stack \in Seq(Frame) /\ Top.next > Len(Text)
  BY DEF Walk, EndOfFile, ResolverTypeOK
<1>2. /\ Len(stack) \in Nat \ {0} /\ Top = stack[Len(stack)] /\ Len(stack) \in 1..Len(stack)
  BY <1>1 DEF Top, Last
<1>3. stack' = SubSeq(stack, 1, Len(stack) - 1)
  BY DEF EndOfFile, Front
<1>4. /\ stack' \in Seq(Frame) /\ Len(stack') = Len(stack) - 1
      /\ \A j \in 1..Len(stack') : j \in 1..Len(stack) /\ stack'[j] = stack[j] /\ j < Len(stack)
  <2> DEFINE n == Len(stack) - 1
  <2>1. n \in Nat /\ n <= Len(stack) /\ stack' = SubSeq(stack, 1, n)
    BY <1>2, <1>3
  <2>2. \A j \in 1..n : stack[j] \in Frame /\ 1 + j - 1 = j
    BY <1>1, <2>1
  <2> HIDE DEF n
  <2>3. /\ SubSeq(stack, 1, n) \in Seq(Frame)
        /\ Len(SubSeq(stack, 1, n)) = IF 1 <= n THEN n - 1 + 1 ELSE 0
        /\ \A j \in 1..(n - 1 + 1) : SubSeq(stack, 1, n)[j] = stack[1 + j - 1]
    BY <2>1, <2>2, SubSeqProperties
  <2>4. /\ SubSeq(stack, 1, n) \in Seq(Frame) /\ Len(SubSeq(stack, 1, n)) = n
        /\ \A j \in 1..n : SubSeq(stack, 1, n)[j] = stack[j]
    BY <2>1, <2>2, <2>3
  <2> QED BY <1>2, <2>1, <2>4 DEF n
<1>5. Known' = Known /\ KnownOK' /\ FramesOK'
  BY <1>1, <1>4 DEF Known, KnownOK, FramesOK
<1>6. \A f \in Known : \A k \in 1..Len(contents[f]) : Dealt(f, k)' <=> Dealt(f, k)
  <2> SUFFICES ASSUME NEW f \in Known, NEW k \in 1..Len(contents[f]) PROVE Dealt(f, k)' <=> Dealt(f, k)
    OBVIOUS
  <2>1. \A j \in 1..Len(stack) : j \in 1..Len(stack') \/ j = Len(stack)
    BY <1>2, <1>4
  <2>2. stack[Len(stack)].file = f => k < stack[Len(stack)].next
    <3>1. CASE Top.file = f
      <4>1. Top.next > Len(contents[f]) /\ Top.next \in Int /\ Len(contents[f]) \in Int
        <5>1. contents[f] \in Texts /\ Top.next \in 1..(Len(contents[Top.file]) + 1)
          BY <1>1, <1>2 DEF ResolverTypeOK, Known, FramesOK
        <5> QED BY <1>1, <3>1, <5>1, TextFacts DEF Text
      <4> QED BY <1>2, <4>1
    <3> QED BY <1>2, <3>1
  <2> QED BY <1>4, <2>1, <2>2 DEF Dealt
<1>7. \A g : Finished(g) => Finished(g)'
  BY <1>4, <1>5 DEF Finished
<1>8. \A e, g \in Known : Reaches(e, g) => Reaches(e, g)'
  BY <1>1, ReachesGrows DEF Known
<1>9. DeclaredOK'
  BY <1>1, <1>5, <1>6 DEF DeclaredOK
<1>10. ReachOK'
  <2>1. ASSUME NEW j \in 1..Len(stack'), NEW l \in 1..Len(stack'), j < l,
               NEW e, e = stack'[j].file, NEW f, f = stack'[l].file
        PROVE  Reaches(e, f)'
    <3>1. e = stack[j].file /\ f = stack[l].file /\ e \in Known /\ f \in Known
      BY <1>1, <1>4, <2>1 DEF FramesOK
    <3> QED BY <1>1, <1>4, <1>8, <2>1, <3>1 DEF ReachOK
  <2>2. \A f \in Known : f = Main \/ Reaches(Main, f)'
    BY <1>1, <1>8 DEF ReachOK, KnownOK
  <2> QED BY <1>5, <2>1, <2>2 DEF ReachOK
<1>11. \A f \in Known : \A k, g : IncludeAt(f, k, g)' <=> IncludeAt(f, k, g)
  BY <1>1 DEF IncludeAt, FindFile
<1>12. IncludesOK'
  <2> SUFFICES ASSUME NEW f \in Known, NEW k \in 1..Len(contents[f]), NEW g \in Files,
                      Dealt(f, k), IncludeAt(f, k, g)
               PROVE  \/ Finished(g)'
                      \/ Reaches(g, f)' /\ g \in Known'
                      \/ \E j, l \in 1..Len(stack') : j < l /\ stack'[j].file = f /\ stack'[l].file = g
    BY <1>1, <1>5, <1>6, <1>11 DEF IncludesOK
  <2>1. CASE Finished(g)
    BY <1>7, <2>1
  <2>2. CASE Reaches(g, f) /\ g \in Known
    BY <1>5, <1>8, <2>2
  <2>3. CASE \E j, l \in 1..Len(stack) : j < l /\ stack[j].file = f /\ stack[l].file = g
    <3>1. PICK j \in 1..Len(stack), l \in 1..Len(stack) : j < l /\ stack[j].file = f /\ stack[l].file = g
      BY <2>3
    <3>2. CASE l = Len(stack)
      <4>1. g \in Known /\ \A i \in 1..Len(stack') : stack'[i].file # g
        BY <1>1, <1>4, <3>1, <3>2 DEF FramesOK
      <4> QED BY <1>5, <4>1 DEF Finished
    <3>3. CASE l # Len(stack)
      <4>0. Len(stack') = Len(stack) - 1 /\ Len(stack) \in Nat
        BY <1>2, <1>4
      <4>1. j \in 1..Len(stack') /\ l \in 1..Len(stack')
        <5> DEFINE n == Len(stack)
        <5>1. n \in Nat /\ Len(stack') = n - 1 /\ j \in 1..n /\ l \in 1..n /\ l # n /\ j < l
          BY <3>1, <3>3, <4>0
        <5> HIDE DEF n
        <5> QED BY <5>1
      <4> QED BY <1>4, <3>1, <4>1
    <3> QED BY <3>2, <3>3
  <2> QED BY <1>1, <2>1, <2>2, <2>3 DEF IncludesOK
<1>13. OrderOK'
  <2>1. \A n \in 1..Len(declarations) : declarations[n][1] \in Known
    BY <1>1 DEF DeclaredOK
  <2>2. \A m \in 1..Len(declarations) : \A g : Before(m, g)' <=> Before(m, g)
    BY <1>1, <1>11, <2>1 DEF Before
  <2>3. ASSUME NEW m \in 1..Len(declarations), NEW g \in Files, Before(m, g)
        PROVE  Finished(g)' \/ (Reaches(g, declarations[m][1])' /\ g \in Known')
    BY <1>1, <1>5, <1>7, <1>8, <2>1, <2>3 DEF OrderOK
  <2>4. ASSUME NEW m \in 1..Len(declarations), NEW n \in 1..Len(declarations), Before(m, declarations[n][1])
        PROVE  n < m \/ Reaches(declarations[n][1], declarations[m][1])'
    BY <1>1, <1>8, <2>1, <2>4 DEF OrderOK
  <2> QED BY <1>1, <2>2, <2>3, <2>4 DEF OrderOK
<1>14. ModulesOK'
  <2>1. ~MixedForms => Uniform(<<>>)'
    BY <1>1, UniformStays DEF ModulesOK
  <2>2. Known' = Known /\ UNCHANGED <<disk, contents, included, modules>>
    BY <1>1, <1>5
  <2>3. \A n \in modules : ~MixedForms => \E f \in Known : \E k \in 1..Len(contents[f]) :
           contents[f][k].system /\ contents[f][k].name = n /\ <<"library", n>> \in disk
    BY <1>1 DEF ModulesOK
  <2>4. \A f \in Known : \A k \in 1..Len(contents[f]) :
           ~MixedForms /\ Dealt(f, k)' /\ contents[f][k].system /\ <<"library", contents[f][k].name>> \in disk =>
             contents[f][k].name \in modules
    BY <1>1, <1>6 DEF ModulesOK
  <2>5. \A g \in included : ~MixedForms => \E f \in Known : \E k \in 1..Len(contents[f]) :
           IncludeAt(f, k, g)' /\ (contents[f][k].system => contents[f][k].name \in modules)
    BY <1>1, <1>11 DEF ModulesOK
  <2> QED BY <2>1, <2>2, <2>3, <2>4, <2>5, SMTT(40) DEF ModulesOK
<1>15. ResolverTypeOK'
  <2>1. \A k \in 2..Len(stack') : stack'[k].file \in included'
    <3> SUFFICES ASSUME NEW k \in 2..Len(stack') PROVE stack'[k].file \in included'
      OBVIOUS
    <3>1. k \in 1..Len(stack') /\ k \in 2..Len(stack)
      BY <1>2, <1>4
    <3> QED BY <1>1, <1>4, <3>1 DEF ResolverTypeOK
  <2> QED BY <1>1, <1>4, <2>1 DEF ResolverTypeOK
<1> QED BY <1>5, <1>9, <1>10, <1>12, <1>13, <1>14, <1>15 DEF Walk

LEMMA ResolveStepKeeps == ASSUME ResolverTypeOK, Walk, ResolveStep PROVE ResolverTypeOK' /\ Walk'
BY MergeKeeps, CannotFindKeeps, AlreadyIncludedKeeps, IncludeKeeps, IncludeBrokenKeeps, EndOfFileKeeps
   DEF ResolveStep

(* The walk begins. *)
LEMMA StartKeeps ==
  ASSUME ResolverTypeOK, contents = [f \in {} |-> <<>>], included = {}, modules = {}, declarations = <<>>,
         StartResolve
  PROVE  ResolverTypeOK' /\ Walk'
<1>1. PICK c \in SomeText : contents' = [f \in {Main} |-> c]
  BY DEF StartResolve
<1>2. c \in Texts /\ (~MixedForms => Uniform(c)) /\ Len(c) \in Nat
  BY TextFacts DEF SomeText
<1>3. /\ disk' = disk /\ included' = {} /\ modules' = {} /\ declarations' = <<>> /\ missing' = missing
      /\ Known' = {Main} /\ contents'[Main] = c /\ DOMAIN contents = {}
  BY <1>1 DEF StartResolve, Known
<1> DEFINE frame == [file |-> Main, next |-> 1]
<1>4. /\ frame \in Frame /\ frame.file = Main /\ frame.next = 1
      /\ stack' = <<frame>>
  BY DEF Frame, StartResolve
<1> HIDE DEF frame
<1>5. stack' \in Seq(Frame) /\ Len(stack') = 1 /\ stack'[1].file = Main /\ stack'[1].next = 1
  BY <1>4
<1>6. ResolverTypeOK'
  <2>1. \A k \in 2..Len(stack') : stack'[k].file \in included'
    BY <1>5
  <2>2. DOMAIN contents' = {Main}
    BY <1>1
  <2> QED BY <1>2, <1>3, <1>5, <2>1, <2>2 DEF ResolverTypeOK
<1>7. FramesOK' /\ KnownOK'
  BY <1>2, <1>3, <1>5 DEF FramesOK, KnownOK
<1>8. \A k \in 1..Len(c) : ~Dealt(Main, k)'
  BY <1>2, <1>5 DEF Dealt
<1>9. DeclaredOK' /\ OrderOK'
  BY <1>3, <1>8 DEF DeclaredOK, OrderOK
<1>10. ReachOK' /\ IncludesOK'
  BY <1>3, <1>5, <1>8 DEF ReachOK, IncludesOK
<1>11. ModulesOK'
  <2>1. IncludesIn(<<>>)' = IncludesIn(c)
    <3>1. \A i : i \in UNION {Range(contents'[g]) : g \in DOMAIN contents'} <=>
                 i \in (UNION {Range(contents[g]) : g \in DOMAIN contents}) \cup Range(c)
      BY <1>1, <1>3
    <3>2. Range(<<>>) = {}
      BY DEF Range
    <3> QED BY <3>1, <3>2 DEF IncludesIn
  <2>2. ~MixedForms => Uniform(<<>>)'
    <3>1. \A i : FindFile(i)' = FindFile(i)
      BY <1>3 DEF FindFile
    <3> QED BY <1>2, <2>1, <3>1 DEF Uniform
  <2> QED BY <1>3, <1>8, <2>2 DEF ModulesOK
<1> QED BY <1>6, <1>7, <1>9, <1>10, <1>11 DEF Walk
-----------------------------------------------------------------------------
(* Each step of the driver keeps the invariant. *)

LEMMA MakeTempKeeps == ASSUME DriverOK, MakeTemp PROVE DriverOK'
<1> USE DEF MakeTemp, Early, Phases, Listings, Made
<1>1. UNCHANGED missing
  BY DEF resolverVars
<1>2. DriverTypeOK'
  <2>1. cdone' \in 0..CHeaders
    BY DriverAssumption DEF DriverOK, DriverTypeOK
  <2>2. made' \in [Made -> {"absent", "old", "new"}]
    BY DEF DriverOK, DriverTypeOK
  <2>3. phase' \in Phases
    BY DEF DriverOK, DriverTypeOK
  <2> QED BY <2>1, <2>2, <2>3 DEF DriverOK, DriverTypeOK
<1>3. ModesOK'
  BY DEF DriverOK, DriverTypeOK, ModesOK
<1>4. ErrorsOK'
  BY <1>1 DEF DriverOK, DriverTypeOK, ModesOK, ErrorsOK
<1>5. FilesOK'
  BY DEF DriverOK, DriverTypeOK, ModesOK, FilesOK
<1>6. LeavesOnlyItsOutput'
  BY DEF DriverOK, DriverTypeOK, ModesOK, FilesOK, LeavesOnlyItsOutput
<1>7. Fresh => FreshOK' /\ BuildIsHonest'
  BY <1>1 DEF DriverOK, DriverTypeOK, ModesOK, ErrorsOK, FilesOK, Fresh, FreshOK, BuildIsHonest
<1> QED BY <1>2, <1>3, <1>4, <1>5, <1>6, <1>7 DEF DriverOK

LEMMA ReadCHeaderKeeps == ASSUME DriverOK, ReadCHeader PROVE DriverOK'
<1> USE DEF ReadCHeader, Early, Phases, Listings, Made
<1>1. UNCHANGED missing
  BY DEF resolverVars
<1>2. DriverTypeOK'
  BY DriverAssumption DEF DriverOK, DriverTypeOK
<1>3. ModesOK'
  BY DEF DriverOK, DriverTypeOK, ModesOK
<1>4. ErrorsOK'
  BY <1>1 DEF DriverOK, DriverTypeOK, ModesOK, ErrorsOK
<1>5. FilesOK'
  BY DEF DriverOK, DriverTypeOK, ModesOK, FilesOK
<1>6. LeavesOnlyItsOutput'
  BY DEF DriverOK, DriverTypeOK, ModesOK, FilesOK, LeavesOnlyItsOutput
<1>7. Fresh => FreshOK' /\ BuildIsHonest'
  BY <1>1 DEF DriverOK, DriverTypeOK, ModesOK, ErrorsOK, FilesOK, Fresh, FreshOK, BuildIsHonest
<1> QED BY <1>2, <1>3, <1>4, <1>5, <1>6, <1>7 DEF DriverOK

LEMMA EndResolveKeeps == ASSUME DriverOK, EndResolve PROVE DriverOK'
<1> USE DEF EndResolve, AfterPass, Return, Early, Phases, Listings, Made
<1>1. UNCHANGED missing
  BY DEF resolverVars
<1>2. DriverTypeOK'
  BY DriverAssumption DEF DriverOK, DriverTypeOK
<1>3. ModesOK'
  BY DEF DriverOK, DriverTypeOK, ModesOK
<1>4. ErrorsOK'
  BY <1>1 DEF DriverOK, DriverTypeOK, ModesOK, ErrorsOK
<1>5. FilesOK'
  BY DEF DriverOK, DriverTypeOK, ModesOK, FilesOK
<1>6. LeavesOnlyItsOutput'
  BY DEF DriverOK, DriverTypeOK, ModesOK, FilesOK, LeavesOnlyItsOutput
<1>7. Fresh => FreshOK' /\ BuildIsHonest'
  BY <1>1 DEF DriverOK, DriverTypeOK, ModesOK, ErrorsOK, FilesOK, Fresh, FreshOK, BuildIsHonest
<1> QED BY <1>2, <1>3, <1>4, <1>5, <1>6, <1>7 DEF DriverOK

LEMMA AnalyseKeeps == ASSUME DriverOK, Analyse PROVE DriverOK'
<1> USE DEF Analyse, AfterPass, Return, Early, Phases, Listings, Made
<1>1. UNCHANGED missing
  BY DEF resolverVars
<1>2. DriverTypeOK'
  BY DriverAssumption DEF DriverOK, DriverTypeOK
<1>3. ModesOK'
  BY DEF DriverOK, DriverTypeOK, ModesOK
<1>4. ErrorsOK'
  BY <1>1 DEF DriverOK, DriverTypeOK, ModesOK, ErrorsOK
<1>5. FilesOK'
  BY DEF DriverOK, DriverTypeOK, ModesOK, FilesOK
<1>6. LeavesOnlyItsOutput'
  BY DEF DriverOK, DriverTypeOK, ModesOK, FilesOK, LeavesOnlyItsOutput
<1>7. Fresh => FreshOK' /\ BuildIsHonest'
  BY <1>1 DEF DriverOK, DriverTypeOK, ModesOK, ErrorsOK, FilesOK, Fresh, FreshOK, BuildIsHonest
<1> QED BY <1>2, <1>3, <1>4, <1>5, <1>6, <1>7 DEF DriverOK

LEMMA ReportCheckKeeps == ASSUME DriverOK, ReportCheck PROVE DriverOK'
<1> USE DEF ReportCheck, Return, Early, Phases, Listings, Made
<1>1. UNCHANGED missing
  BY DEF resolverVars
<1>2. DriverTypeOK'
  BY DriverAssumption DEF DriverOK, DriverTypeOK
<1>3. ModesOK'
  BY DEF DriverOK, DriverTypeOK, ModesOK
<1>4. ErrorsOK'
  BY <1>1 DEF DriverOK, DriverTypeOK, ModesOK, ErrorsOK
<1>5. FilesOK'
  BY DEF DriverOK, DriverTypeOK, ModesOK, FilesOK
<1>6. LeavesOnlyItsOutput'
  BY DEF DriverOK, DriverTypeOK, ModesOK, FilesOK, LeavesOnlyItsOutput
<1>7. Fresh => FreshOK' /\ BuildIsHonest'
  BY <1>1 DEF DriverOK, DriverTypeOK, ModesOK, ErrorsOK, FilesOK, Fresh, FreshOK, BuildIsHonest
<1> QED BY <1>2, <1>3, <1>4, <1>5, <1>6, <1>7 DEF DriverOK

LEMMA GenerateKeeps == ASSUME DriverOK, Generate PROVE DriverOK'
<1> USE DEF Generate, Return, Early, Phases, Listings, Made
<1>1. UNCHANGED missing
  BY DEF resolverVars
<1>2. DriverTypeOK'
  BY DriverAssumption DEF DriverOK, DriverTypeOK
<1>3. ModesOK'
  BY DEF DriverOK, DriverTypeOK, ModesOK
<1>4. ErrorsOK'
  BY <1>1 DEF DriverOK, DriverTypeOK, ModesOK, ErrorsOK
<1>5. FilesOK'
  BY DEF DriverOK, DriverTypeOK, ModesOK, FilesOK
<1>6. LeavesOnlyItsOutput'
  BY DEF DriverOK, DriverTypeOK, ModesOK, FilesOK, LeavesOnlyItsOutput
<1>7. Fresh => FreshOK' /\ BuildIsHonest'
  BY <1>1 DEF DriverOK, DriverTypeOK, ModesOK, ErrorsOK, FilesOK, Fresh, FreshOK, BuildIsHonest
<1> QED BY <1>2, <1>3, <1>4, <1>5, <1>6, <1>7 DEF DriverOK

LEMMA EmitOnlyKeeps == ASSUME DriverOK, EmitOnly PROVE DriverOK'
<1> USE DEF EmitOnly, Emit, Return, Early, Phases, Listings, Made
<1>1. UNCHANGED missing
  BY DEF resolverVars
<1>2. DriverTypeOK'
  BY DriverAssumption DEF DriverOK, DriverTypeOK
<1>3. ModesOK'
  BY DEF DriverOK, DriverTypeOK, ModesOK
<1>4. ErrorsOK'
  BY <1>1 DEF DriverOK, DriverTypeOK, ModesOK, ErrorsOK
<1>5. FilesOK'
  BY DEF DriverOK, DriverTypeOK, ModesOK, FilesOK
<1>6. LeavesOnlyItsOutput'
  <2> DEFINE written == IF mode = "object" THEN "object" ELSE "listing"
  <2>1. /\ made["temp"] # "new" /\ made["program"] # "new" /\ made["object"] # "new"
        /\ made["listing"] # "new" \/ written = "listing"
        /\ cobjs = 0
    BY DEF DriverOK, FilesOK, ModesOK
  <2>2. \A f \in Made : f # written => made'[f] = made[f]
    BY DEF DriverOK, DriverTypeOK
  <2>3. wrote' = {written} /\ status' = 0 /\ UNCHANGED cobjs
    OBVIOUS
  <2> HIDE DEF written
  <2> QED BY <2>1, <2>2, <2>3 DEF LeavesOnlyItsOutput
<1>7. Fresh => FreshOK' /\ BuildIsHonest'
  BY <1>1 DEF DriverOK, DriverTypeOK, ModesOK, ErrorsOK, FilesOK, Fresh, FreshOK, BuildIsHonest
<1> QED BY <1>2, <1>3, <1>4, <1>5, <1>6, <1>7 DEF DriverOK

LEMMA CompileCKeeps == ASSUME DriverOK, CompileC PROVE DriverOK'
<1> USE DEF CompileC, Return, Early, Phases, Listings, Made
<1>1. UNCHANGED missing
  BY DEF resolverVars
<1>2. DriverTypeOK'
  BY DriverAssumption DEF DriverOK, DriverTypeOK
<1>3. ModesOK'
  BY DEF DriverOK, DriverTypeOK, ModesOK
<1>4. ErrorsOK'
  BY <1>1 DEF DriverOK, DriverTypeOK, ModesOK, ErrorsOK
<1>5. FilesOK'
  BY DEF DriverOK, DriverTypeOK, ModesOK, FilesOK
<1>6. LeavesOnlyItsOutput'
  <2>1. \A f \in Made : made'[f] # "new"
    BY DEF DriverOK, FilesOK
  <2>2. phase' = "done" => cobjs' = cobjs /\ cobjs < CFiles /\ status' = 1
    OBVIOUS
  <2> QED BY <2>1, <2>2 DEF LeavesOnlyItsOutput
<1>7. Fresh => FreshOK' /\ BuildIsHonest'
  BY <1>1 DEF DriverOK, DriverTypeOK, ModesOK, ErrorsOK, FilesOK, Fresh, FreshOK, BuildIsHonest
<1> QED BY <1>2, <1>3, <1>4, <1>5, <1>6, <1>7 DEF DriverOK

LEMMA EmitObjectKeeps == ASSUME DriverOK, EmitObject PROVE DriverOK'
<1> USE DEF EmitObject, Emit, Early, Phases, Listings, Made
<1>1. UNCHANGED missing
  BY DEF resolverVars
<1>2. DriverTypeOK'
  BY DriverAssumption DEF DriverOK, DriverTypeOK
<1>3. ModesOK'
  BY DEF DriverOK, DriverTypeOK, ModesOK
<1>4. ErrorsOK'
  BY <1>1 DEF DriverOK, DriverTypeOK, ModesOK, ErrorsOK
<1>5. FilesOK'
  BY DEF DriverOK, DriverTypeOK, ModesOK, FilesOK
<1>6. LeavesOnlyItsOutput'
  BY DEF DriverOK, DriverTypeOK, ModesOK, FilesOK, LeavesOnlyItsOutput
<1>7. Fresh => FreshOK' /\ BuildIsHonest'
  BY <1>1 DEF DriverOK, DriverTypeOK, ModesOK, ErrorsOK, FilesOK, Fresh, FreshOK, BuildIsHonest
<1> QED BY <1>2, <1>3, <1>4, <1>5, <1>6, <1>7 DEF DriverOK

LEMMA LinkKeeps == ASSUME DriverOK, Link PROVE DriverOK'
<1> USE DEF Link, Early, Phases, Listings, Made
<1>1. UNCHANGED missing
  BY DEF resolverVars
<1>2. DriverTypeOK'
  BY DriverAssumption DEF DriverOK, DriverTypeOK
<1>3. ModesOK'
  BY DEF DriverOK, DriverTypeOK, ModesOK
<1>4. ErrorsOK'
  BY <1>1 DEF DriverOK, DriverTypeOK, ModesOK, ErrorsOK
<1>5. FilesOK'
  BY DEF DriverOK, DriverTypeOK, ModesOK, FilesOK
<1>6. LeavesOnlyItsOutput'
  BY DEF DriverOK, DriverTypeOK, ModesOK, FilesOK, LeavesOnlyItsOutput
<1>7. Fresh => FreshOK' /\ BuildIsHonest'
  BY <1>1 DEF DriverOK, DriverTypeOK, ModesOK, ErrorsOK, FilesOK, Fresh, FreshOK, BuildIsHonest
<1> QED BY <1>2, <1>3, <1>4, <1>5, <1>6, <1>7 DEF DriverOK

LEMMA CleanKeeps == ASSUME DriverOK, Clean PROVE DriverOK'
<1> USE DEF Clean, Return, Early, Phases, Listings, Made
<1>1. UNCHANGED missing
  BY DEF resolverVars
<1>2. DriverTypeOK'
  BY DriverAssumption DEF DriverOK, DriverTypeOK
<1>3. ModesOK'
  BY DEF DriverOK, DriverTypeOK, ModesOK
<1>4. ErrorsOK'
  BY <1>1 DEF DriverOK, DriverTypeOK, ModesOK, ErrorsOK
<1>5. FilesOK'
  BY DEF DriverOK, DriverTypeOK, ModesOK, FilesOK
<1>6. LeavesOnlyItsOutput'
  <2>1. cobjs' = 0 /\ made'["object"] = "absent" /\ \A f \in Made \ {"object"} : made'[f] = made[f]
    BY DEF DriverOK, DriverTypeOK
  <2>2. made["temp"] = "absent"
    BY DEF DriverOK, FilesOK
  <2>3. made["listing"] # "new"
    BY DEF DriverOK, FilesOK, LeavesOnlyItsOutput
  <2>4. made["program"] = "new" => status' = 0 /\ "program" \in wrote'
    OBVIOUS
  <2> QED BY <2>1, <2>2, <2>3, <2>4 DEF LeavesOnlyItsOutput
<1>7. Fresh => FreshOK' /\ BuildIsHonest'
  BY <1>1 DEF DriverOK, DriverTypeOK, ModesOK, ErrorsOK, FilesOK, Fresh, FreshOK, BuildIsHonest
<1> QED BY <1>2, <1>3, <1>4, <1>5, <1>6, <1>7 DEF DriverOK

LEMMA ResolverStays == ASSUME ResolverTypeOK, UNCHANGED resolverVars PROVE ResolverTypeOK'
BY DEF ResolverTypeOK, resolverVars

LEMMA ParseKeeps == ASSUME IInv, Parse PROVE IInv'
<1>1. phase = "parse" /\ NothingYet /\ ResolverTypeOK /\ DriverOK
  BY DEF IInv, Parse
<1>2. ResolverTypeOK' /\ (phase' = "resolve" => Walk')
  <2>1. CASE StartResolve
    BY <1>1, <2>1, StartKeeps DEF NothingYet
  <2>2. CASE UNCHANGED resolverVars /\ phase' # "resolve"
    BY <1>1, <2>2, ResolverStays
  <2> QED BY <2>1, <2>2 DEF Parse
<1>3. UNCHANGED missing /\ missing = {}
  BY <1>1 DEF Parse, StartResolve, resolverVars, NothingYet
<1>4. DriverOK'
  <2> USE DEF Parse, AfterPass, Return, Early, Phases, Listings, Made
  <2>1. DriverTypeOK'
    BY <1>1 DEF DriverOK, DriverTypeOK
  <2>2. ModesOK'
    BY <1>1 DEF DriverOK, DriverTypeOK, ModesOK
  <2>3. ErrorsOK'
    BY <1>1, <1>3 DEF DriverOK, DriverTypeOK, ModesOK, ErrorsOK
  <2>4. FilesOK'
    BY <1>1 DEF DriverOK, DriverTypeOK, ModesOK, FilesOK
  <2>5. LeavesOnlyItsOutput'
    BY <1>1 DEF DriverOK, DriverTypeOK, ModesOK, FilesOK, LeavesOnlyItsOutput
  <2>6. Fresh => FreshOK' /\ BuildIsHonest'
    BY <1>1, <1>3 DEF DriverOK, DriverTypeOK, ModesOK, ErrorsOK, FilesOK, Fresh, FreshOK, BuildIsHonest
  <2> QED BY <2>1, <2>2, <2>3, <2>4, <2>5, <2>6 DEF DriverOK
<1>5. phase' # "parse"
  BY DEF Parse
<1> QED BY <1>2, <1>4, <1>5 DEF IInv

LEMMA ResolveKeeps == ASSUME IInv, Resolve PROVE IInv'
<1>1. phase = "resolve" /\ Walk /\ ResolverTypeOK /\ DriverOK
  BY DEF IInv, Resolve
<1>2. ResolverTypeOK' /\ (phase' = "resolve" => Walk')
  <2>1. CASE ResolveStep /\ UNCHANGED phase
    BY <1>1, <2>1, ResolveStepKeeps
  <2>2. CASE stack = <<>> /\ Forget /\ phase' = "externs"
    <3>1. /\ stack' = <<>> /\ modules' = modules /\ missing' = missing
          /\ disk' = {} /\ included' = {} /\ declarations' = <<>> /\ DOMAIN contents' = {}
      BY <2>2 DEF Forget
    <3>2. \A k \in 2..Len(stack') : stack'[k].file \in included'
      BY <3>1
    <3> QED BY <1>1, <2>2, <3>1, <3>2 DEF ResolverTypeOK
  <2> QED BY <2>1, <2>2 DEF Resolve
<1>3. DriverOK'
  <2> USE DEF Resolve, Early, Phases, Listings, Made
  <2>1. DriverTypeOK'
    BY <1>1 DEF DriverOK, DriverTypeOK
  <2>2. ModesOK'
    BY <1>1 DEF DriverOK, DriverTypeOK, ModesOK
  <2>3. ErrorsOK'
    BY <1>1 DEF DriverOK, DriverTypeOK, ModesOK, ErrorsOK
  <2>4. FilesOK'
    BY <1>1 DEF DriverOK, DriverTypeOK, ModesOK, FilesOK
  <2>5. LeavesOnlyItsOutput'
    BY <1>1 DEF DriverOK, DriverTypeOK, ModesOK, FilesOK, LeavesOnlyItsOutput
  <2>6. Fresh => FreshOK' /\ BuildIsHonest'
    BY <1>1 DEF DriverOK, DriverTypeOK, ModesOK, ErrorsOK, FilesOK, Fresh, FreshOK, BuildIsHonest
  <2> QED BY <2>1, <2>2, <2>3, <2>4, <2>5, <2>6 DEF DriverOK
<1>4. phase' # "parse"
  BY <1>1 DEF Resolve
<1> QED BY <1>2, <1>3, <1>4 DEF IInv

LEMMA WalkStays == ASSUME Walk, UNCHANGED resolverVars PROVE Walk'
<1>1. FramesOK' /\ KnownOK' /\ DeclaredOK'
  BY DEF Walk, resolverVars, FramesOK, KnownOK, DeclaredOK, Known, Dealt
<1>2. \A e, g : Reaches(e, g)' <=> Reaches(e, g)
  BY DEF resolverVars, Reaches, Closed, Includes, FindFile
<1>3. \A f, k, g : IncludeAt(f, k, g)' <=> IncludeAt(f, k, g)
  BY DEF resolverVars, IncludeAt, FindFile
<1>4. ReachOK' /\ IncludesOK'
  BY <1>2, <1>3 DEF Walk, resolverVars, ReachOK, IncludesOK, Known, Dealt, Finished
<1>5. \A m, g : Before(m, g)' <=> Before(m, g)
  BY <1>3 DEF resolverVars, Before
<1>6. OrderOK'
  BY <1>2, <1>5 DEF Walk, resolverVars, OrderOK, Finished, Known
<1>7. ModulesOK'
  BY <1>3, UniformStays DEF Walk, resolverVars, ModulesOK, Known, Dealt
<1> QED BY <1>1, <1>4, <1>6, <1>7 DEF Walk

LEMMA NextInv == IInv /\ [Next]_vars => IInv'
<1> SUFFICES ASSUME IInv, [Next]_vars PROVE IInv'
  OBVIOUS
<1>1. CASE Parse
  BY <1>1, ParseKeeps
<1>2. CASE Resolve
  BY <1>2, ResolveKeeps
<1>3. ASSUME UNCHANGED resolverVars, DriverOK', phase' \notin {"parse", "resolve"} PROVE IInv'
  BY <1>3, ResolverStays DEF IInv
<1>4. DriverOK /\ phase \in Phases
  BY DEF IInv, DriverOK, DriverTypeOK
<1>5. CASE MakeTemp
  BY <1>3, <1>4, <1>5, MakeTempKeeps DEF MakeTemp
<1>6. CASE ReadCHeader
  BY <1>3, <1>4, <1>6, ReadCHeaderKeeps DEF ReadCHeader
<1>7. CASE EndResolve
  BY <1>3, <1>4, <1>7, EndResolveKeeps DEF EndResolve, AfterPass, Return
<1>8. CASE Analyse
  BY <1>3, <1>4, <1>8, AnalyseKeeps DEF Analyse, AfterPass, Return
<1>9. CASE ReportCheck
  BY <1>3, <1>4, <1>9, ReportCheckKeeps DEF ReportCheck, Return
<1>10. CASE Generate
  BY <1>3, <1>4, <1>10, GenerateKeeps DEF Generate, Return
<1>11. CASE EmitOnly
  BY <1>3, <1>4, <1>11, EmitOnlyKeeps DEF EmitOnly, Return
<1>12. CASE CompileC
  BY <1>3, <1>4, <1>12, CompileCKeeps DEF CompileC, Return
<1>13. CASE EmitObject
  BY <1>3, <1>4, <1>13, EmitObjectKeeps DEF EmitObject
<1>14. CASE Link
  BY <1>3, <1>4, <1>14, LinkKeeps DEF Link
<1>15. CASE Clean
  BY <1>3, <1>4, <1>15, CleanKeeps DEF Clean, Return
<1>16. CASE UNCHANGED vars
  <2>1. UNCHANGED resolverVars /\ UNCHANGED driverVars
    BY <1>16 DEF vars
  <2>2. DriverOK'
    BY <1>4, <2>1 DEF DriverOK, DriverTypeOK, ModesOK, ErrorsOK, FilesOK, LeavesOnlyItsOutput, FreshOK, BuildIsHonest,
                      driverVars, resolverVars
  <2>3. ResolverTypeOK' /\ (Walk => Walk')
    BY <2>1, ResolverStays, WalkStays DEF IInv
  <2> QED BY <2>1, <2>2, <2>3 DEF IInv, driverVars, resolverVars, NothingYet
<1> QED BY <1>1, <1>2, <1>5, <1>6, <1>7, <1>8, <1>9, <1>10, <1>11, <1>12, <1>13, <1>14, <1>15, <1>16 DEF Next, Returned

LEMMA InitInv == Init => IInv
<1> SUFFICES ASSUME Init PROVE IInv
  OBVIOUS
<1>1. phase = "parse" /\ NothingYet /\ errors = {} /\ wrote = {} /\ stack = <<>>
  BY DEF Init, ResolverInit, NothingYet
<1>2. ResolverTypeOK
  <2>1. \A k \in 2..Len(stack) : stack[k].file \in included
    BY <1>1
  <2> QED BY <1>1, <2>1 DEF Init, ResolverInit, ResolverTypeOK, NothingYet
<1>3. DriverOK
  BY <1>1, DriverAssumption
  DEF Init, DriverOK, DriverTypeOK, ModesOK, ErrorsOK, FilesOK, LeavesOnlyItsOutput, Fresh, FreshOK, BuildIsHonest,
      NothingYet, Phases, Made, Early
<1> QED BY <1>1, <1>2, <1>3 DEF IInv

-----------------------------------------------------------------------------
(* Theorems. *)

(* Every variable of the driver and of the resolver it runs has its type,  *)
(* whatever the headers hold (main.cpp, resolver.cpp).                     *)
THEOREM TypeCorrect == Spec => []TypeOK
<1>1. IInv => TypeOK
  BY DEF IInv, TypeOK, DriverOK, DriverTypeOK
<1> QED BY <1>1, InitInv, NextInv, PTL DEF Spec

(* For any headers of any length that include each other in any way, the   *)
(* resolved program has every declaration of every file it reaches, once,  *)
(* and a header's before what follows the include of it, but for cycles    *)
(* (resolver.cpp:102-166).                                                 *)
THEOREM EveryDeclarationMerged == Spec => []DeclarationsMerged
<1>1. ASSUME ResolverTypeOK, Walk, stack = <<>> PROVE Merged
  <2>1. FramesOK /\ KnownOK /\ DeclaredOK /\ ReachOK /\ OrderOK
    BY <1>1 DEF Walk
  <2>2. \A f, k : Dealt(f, k)
    BY <1>1 DEF Dealt
  <2>3. declarations \in Seq((Files \cup {Main}) \X (1..MaxItems)) /\ DOMAIN declarations = 1..Len(declarations)
    BY <1>1 DEF ResolverTypeOK
  <2>4. IsInjective(declarations)
    BY <2>1, <2>3 DEF IsInjective, DeclaredOK
  <2> DEFINE Owned == {fi \in (DOMAIN contents) \X (1..MaxItems) :
                        fi[2] <= Len(contents[fi[1]]) /\ contents[fi[1]][fi[2]].name = Own}
  <2>5. ASSUME NEW d \in Range(declarations) PROVE d \in Owned
    <3>1. PICK n \in 1..Len(declarations) : d = declarations[n]
      BY <2>3 DEF Range
    <3>2. d \in (Files \cup {Main}) \X (1..MaxItems)
      BY <2>3, <3>1
    <3>3. d[1] \in Known /\ d[2] \in 1..Len(contents[d[1]]) /\ contents[d[1]][d[2]].name = Own
      BY <2>1, <3>1 DEF DeclaredOK
    <3> QED BY <3>2, <3>3 DEF Known
  <2>6. ASSUME NEW d \in Owned PROVE d \in Range(declarations)
    <3>1. PICK f \in Known, k \in 1..MaxItems : d = <<f, k>>
      BY DEF Known
    <3>2. k <= Len(contents[f]) /\ contents[f][k].name = Own
      BY <3>1
    <3>3. contents[f] \in Texts
      BY <1>1 DEF ResolverTypeOK, Known
    <3>4. k \in 1..Len(contents[f])
      BY <3>2, <3>3, TextFacts, ResolverAssumption
    <3>5. PICK n \in 1..Len(declarations) : declarations[n] = d
      BY <2>1, <2>2, <3>1, <3>2, <3>4 DEF DeclaredOK
    <3> QED BY <2>3, <3>5 DEF Range
  <2>7. Range(declarations) = Owned
    BY <2>5, <2>6
  <2>8. \A f \in DOMAIN contents : f = Main \/ Reaches(Main, f)
    BY <2>1 DEF ReachOK, Known
  <2>9. InOrder
    BY <2>1 DEF OrderOK, Before, IncludeAt, InOrder
  <2> QED BY <2>4, <2>7, <2>8, <2>9 DEF Merged
<1>2. IInv => DeclarationsMerged
  BY <1>1 DEF IInv, DeclarationsMerged, WalkDone
<1> QED BY <1>2, InitInv, NextInv, PTL DEF Spec

(* The modules to link are those of the library headers that the program   *)
(* includes, for any headers, if no header is found both as <h> and as "h" *)
(* (resolver.cpp:113-118).                                                 *)
THEOREM EveryLibraryLinked == ~MixedForms => (Spec => []LibrariesLinked)
<1> SUFFICES ASSUME ~MixedForms PROVE Spec => []LibrariesLinked
  OBVIOUS
<1>1. ASSUME ResolverTypeOK, Walk, stack = <<>> PROVE ModulesAreIncludes
  <2>1. ModulesOK
    BY <1>1 DEF Walk
  <2>2. \A f, k : Dealt(f, k)
    BY <1>1 DEF Dealt
  <2>3. \A f \in Known : contents[f] \in Texts
    BY <1>1 DEF ResolverTypeOK, Known
  <2>4. \A f \in Known : \A k \in 1..Len(contents[f]) :
          contents[f][k] \in Items /\ contents[f][k] \in Range(contents[f])
    BY <2>3, TextFacts DEF Range
  <2>5. \A f \in Known : \A i \in Range(contents[f]) : \E k \in 1..Len(contents[f]) : i = contents[f][k]
    BY <2>3, TextFacts DEF Range
  <2>6. ASSUME NEW n \in modules
        PROVE  /\ n \in Names /\ <<"library", n>> \in disk
               /\ \E f \in DOMAIN contents, i \in Items : i \in Range(contents[f]) /\ i.system /\ i.name = n
    <3>1. n \in Names
      BY <1>1 DEF ResolverTypeOK
    <3>2. PICK f \in Known : \E k \in 1..Len(contents[f]) :
            contents[f][k].system /\ contents[f][k].name = n /\ <<"library", n>> \in disk
      BY <2>1 DEF ModulesOK
    <3> QED BY <2>4, <3>1, <3>2 DEF Known
  <2>7. ASSUME NEW n \in Names, <<"library", n>> \in disk, NEW f \in Known, NEW i \in Range(contents[f]),
               i.system, i.name = n
        PROVE  n \in modules
    <3>1. PICK k \in 1..Len(contents[f]) : i = contents[f][k]
      BY <2>5
    <3> QED BY <2>1, <2>2, <2>7, <3>1 DEF ModulesOK
  <2> QED BY <2>6, <2>7 DEF ModulesAreIncludes, Known
<1>2. IInv => LibrariesLinked
  BY <1>1 DEF IInv, LibrariesLinked, WalkDone
<1> QED BY <1>2, InitInv, NextInv, PTL DEF Spec

(* For any headers, sources and failures, if no object of an earlier run   *)
(* is there or objects can always be written: an exit status of 0 means    *)
(* that there were no errors, a program with errors leaves no output, a    *)
(* build that returns 0 has said what it wrote, and a program it says it   *)
(* wrote is linked from the code just generated.  Listings and objects     *)
(* asked for by an option are there only if writing them cannot fail, for  *)
(* the code does not look at the result (main.cpp:229-509).                *)
THEOREM BuildTellsTheTruth == ~StaleObject \/ ~EmitFails => (Spec => []BuildIsHonest)
<1> SUFFICES ASSUME Fresh PROVE Spec => []BuildIsHonest
  BY DEF Fresh
<1>1. IInv => BuildIsHonest
  BY DEF IInv, DriverOK
<1> QED BY <1>1, InitInv, NextInv, PTL DEF Spec

(* For any headers, sources and failures, and any number of C sources and  *)
(* C headers: what main leaves is an output it has reported in a run that  *)
(* succeeded, and, when a C source does not compile, the objects of those  *)
(* before it (main.cpp:373-509, resolver.cpp).                             *)
THEOREM OnlyOutputStays == Spec => []LeavesOnlyItsOutput
<1>1. IInv => LeavesOnlyItsOutput
  BY DEF IInv, DriverOK
<1> QED BY <1>1, InitInv, NextInv, PTL DEF Spec
=============================================================================
