------------------------------ MODULE Analysis ------------------------------
(***************************************************************************)
(* Semantic analysis (src/sema.cpp).  One analyser goes over all bodies    *)
(* and keeps its context in fields: the scopes, the class and namespace at *)
(* hand, the lambda that records captures.  At the use of a generic with   *)
(* new type arguments it turns to the instance, in the middle of the body  *)
(* at hand, and the same fields serve both.                                *)
(*                                                                         *)
(* A program is written while it is analysed: bodies are extended when the *)
(* analyser comes to their end, and read again at the next instance of the *)
(* same template.  Beside each judgement stands what lexical scoping says, *)
(* from an environment that every body has of its own.                     *)
(***************************************************************************)
EXTENDS Integers, Sequences, SequencesExt, FiniteSets

CONSTANTS
  Vars,       (* names of variables                                        *)
  Written,    (* the parts of declarations that are not empty              *)
  MaxEvents,  (* length of all bodies together: bounds the model           *)
  MaxScopes,  (* scopes of a body: bounds the model                        *)
  Room,       (* declarations that can be added without moving the others  *)
  Liberties   (* what programs do though its meaning depends on the        *)
              (* context: "free", "this", "uncaptured", "nested", "field"  *)

ASSUME AnalysisAssumption == MaxEvents \in Nat /\ MaxScopes \in Nat /\ Room \in Nat

VARIABLES
  table,         (* of each class: parent, abstract, and its one method    *)
  decls,         (* the declarations of the program, instances at the end  *)
  next,          (* position of the loop over declarations                 *)
  frames,        (* the declarations under analysis, the innermost last    *)
  bodies,        (* what has been written of each body                     *)
  written,       (* number of events in the bodies                         *)
  instantiated,  (* instantiatedGenerics                                   *)
  scopes,        (* scopes: a sequence of sets of variables                *)
  currentClass,  (* currentClassName, or none                              *)
  currentNs,     (* currentNamespace_, "" or "N"                           *)
  lambdas,       (* the lambdas under analysis                             *)
  tracker,       (* captureTracker_: position in lambdas, 0 for none       *)
  agreed,        (* the last judgement is that of lexical scoping          *)
  rejected,      (* classes that were reported for their heads             *)
  done           (* the declarations analysed, in the order they begin     *)

program == <<table, decls, next, instantiated, rejected, done>>
text == <<bodies, written>>
vars == <<program, text, frames, scopes, currentClass, currentNs, lambdas, tracker, agreed>>

-----------------------------------------------------------------------------

(* A declaration is <<name>>, an instance <<template, argument...>>: Box   *)
(* of Box of int is <<"Box", "Box", "int">>.                               *)
Classes == {"Base", "Node", "Leaf"}
Templates == {"Box", "Pair", "make"}
none == <<>>

IsInstance(d) == Head(d) \in Templates
Given == Cardinality({k \in 1..Len(decls) : ~IsInstance(decls[k])})
IsClass(d) == Head(d) \in Classes \cup {"Box", "Pair"}
NamespaceOf(d) == IF Head(d) \in {"helper", "Pair"} THEN "N" ELSE ""

(* The parts of a declaration, in the order they are analysed. *)
Parts(d) == IF IsClass(d) THEN <<"fields", "constructor", "method", "destructor">> ELSE <<"function">>

Frame == Last(frames)
Part == Parts(Frame.decl)[Frame.part]
Key == <<Head(Frame.decl), Part>>
Body == bodies[Key]
WithFrame(f) == [frames EXCEPT ![Len(frames)] = f]
Enter(d, n) == [decl |-> d, part |-> 0, inside |-> FALSE, at |-> 0, env |-> <<>>, saved |-> "", base |-> n]

(* An event of a body: read if it was written before, else written now. *)
Event(e) ==
  /\ frames # <<>> /\ Frame.inside
  /\ IF Frame.at < Len(Body) THEN e = Body[Frame.at + 1] /\ UNCHANGED text
     ELSE /\ bodies' = [bodies EXCEPT ![Key] = Append(@, e)]
          /\ e.op # "end" => Part \in Written
          /\ written' = IF e.op \in {"close", "end"} THEN written ELSE written + 1
          /\ written' <= MaxEvents
Before == {Body[k].op : k \in 1..Frame.at}
InBody == frames # <<>> /\ Frame.inside /\ Part # "fields"
Going(env) == frames' = WithFrame([Frame EXCEPT !.at = @ + 1, !.env = env])

-----------------------------------------------------------------------------

(* Variables: lookupVar and isVarConst go over all scopes, from the last.  *)
Named(x, vs) == \E v \in vs : v.name = x
Found(x) == SelectLastInSeq(scopes, LAMBDA vs : Named(x, vs))
VarIn(vs, x) == CHOOSE v \in vs : v.name = x
Used(vs, x) == {IF v.name = x THEN [v EXCEPT !.used = TRUE] ELSE v : v \in vs}
Fresh(x, kind) == [name |-> x, kind |-> kind, used |-> FALSE]
Refused(v, assigned) == (v.kind = "squib" /\ v.used) \/ (v.kind = "const" /\ assigned)

(* Lexical scoping: the scopes of the body at hand, none beyond a lambda   *)
(* that lists its captures.  The scopes of the bodies in the middle of     *)
(* which this one is analysed are as many as its base.                     *)
Env == Frame.env
Meant(x) ==
  LET j == SelectLastInSeq(Env, LAMBDA s : Named(x, s.vars))
  IN  IF \E k \in (j + 1)..Len(Env) : Env[k].kind = "listed" THEN 0 ELSE j
Base == Frame.base
Place(j) == IF j = 0 THEN 0 ELSE Base + j

(* Lambdas of the body at hand that capture all, and x from outside. *)
Capturing(x) ==
  {k \in 1..Len(lambdas) :
     /\ lambdas[k].all
     /\ Meant(x) # 0
     /\ Base < lambdas[k].depth /\ Place(Meant(x)) < lambdas[k].depth}

(* Mutant of Outside: the scope of the lambda itself is taken for outside. *)
OutsideOrOwn(i, k) == i \in 1..lambdas[k].depth

(* lambdaScopeDepth is the scope of the lambda itself. *)
Outside(i, k) == i \in 1..(lambdas[k].depth - 1)

(* What the code records of the names, and what is needed of them. *)
Recorded(xs) ==
  [k \in 1..Len(lambdas) |->
     [lambdas[k] EXCEPT !.recorded = @ \cup {x \in xs : k = tracker /\ Outside(Found(x), k)},
                        !.needed = @ \cup {x \in xs : k \in Capturing(x)}]]

(* What programs leave out unless they take the liberty. *)
Allowed(x) ==
  /\ Meant(x) = 0 => \/ ~IsInstance(Frame.decl) /\ \A k \in 1..Len(Env) : ~Named(x, Env[k].vars)
                     \/ IsInstance(Frame.decl) /\ "free" \in Liberties
                     \/ "uncaptured" \in Liberties
  /\ Cardinality(Capturing(x)) <= 1 \/ "nested" \in Liberties

Declare ==
  \E x \in Vars, kind \in {"plain", "const", "squib"} :
    /\ InBody /\ Event([op |-> "declare", var |-> x, kind |-> kind])
    /\ LET n == Len(scopes)
           m == Len(Env)
       IN  /\ scopes' = IF Named(x, scopes[n]) THEN scopes ELSE [scopes EXCEPT ![n] = @ \cup {Fresh(x, kind)}]
           /\ Going(IF Named(x, Env[m].vars) THEN Env ELSE [Env EXCEPT ![m].vars = @ \cup {Fresh(x, kind)}])
           /\ agreed' = (Named(x, scopes[n]) = Named(x, Env[m].vars))
    /\ UNCHANGED <<program, currentClass, currentNs, lambdas, tracker>>

(* A variable read or assigned: its last declaration and whether the use   *)
(* is refused.  Naming a squib variable uses it up.                        *)
Use ==
  \E x \in Vars, assigned \in BOOLEAN :
    /\ InBody /\ Allowed(x)
    /\ Event([op |-> "use", var |-> x, assigned |-> assigned])
    /\ LET i == Found(x)
           j == Meant(x)
           refused(vs) == Refused(VarIn(vs, x), assigned)
       IN  /\ scopes' = IF i = 0 THEN scopes ELSE [scopes EXCEPT ![i] = Used(@, x)]
           /\ Going(IF j = 0 THEN Env ELSE [Env EXCEPT ![j].vars = Used(@, x)])
           /\ agreed' = (i = Place(j) /\ (i = 0 \/ refused(scopes[i]) = refused(Env[j].vars)))
    /\ lambdas' = Recorded({x})
    /\ UNCHANGED <<program, currentClass, currentNs, tracker>>

(* this (and super, which starts from the same field). *)
This ==
  /\ InBody
  /\ "this" \in Liberties \/ ("type" \notin Before /\ Head(Frame.decl) # "make")
  /\ Event([op |-> "this"])
  /\ Going(Env)
  /\ agreed' = (currentClass = IF IsClass(Frame.decl) THEN Frame.decl ELSE none)
  /\ UNCHANGED <<program, scopes, currentClass, currentNs, lambdas, tracker>>

Opened(kind, vs) ==
  /\ Len(Env) < MaxScopes
  /\ scopes' = Append(scopes, vs)
  /\ Going(Append(Env, [vars |-> vs, kind |-> kind]))

Block ==
  /\ InBody /\ Event([op |-> "block"])
  /\ Opened("block", {})
  /\ UNCHANGED <<program, currentClass, currentNs, lambdas, tracker, agreed>>

(* A lambda captures all that it names, or what is listed: that is looked  *)
(* up outside and declared inside.                                         *)
Lambda ==
  \E all \in BOOLEAN, listed \in SUBSET Vars :
    /\ all => listed = {}
    /\ InBody /\ \A x \in listed : Allowed(x)
    /\ Event([op |-> "lambda", all |-> all, listed |-> listed])
    /\ Opened(IF all THEN "all" ELSE "listed", {Fresh(x, "plain") : x \in {y \in listed : Found(y) # 0}})
    /\ lambdas' = Append(Recorded(listed), [all |-> all, depth |-> Len(scopes) + 1, saved |-> tracker,
                                            recorded |-> {}, needed |-> {}])
    /\ tracker' = IF all THEN Len(lambdas') ELSE tracker
    /\ agreed' = (\A x \in listed : Found(x) = Place(Meant(x)))
    /\ UNCHANGED <<program, currentClass, currentNs>>

(* Mutant of TrackerAfter: the tracker stays that of the lambda. *)
TrackerAfterStays == tracker

TrackerAfter == Last(lambdas).saved

Close ==
  /\ InBody /\ Last(Env).kind # "body"
  /\ Event([op |-> "close"])
  /\ scopes' = Front(scopes) /\ Going(Front(Env))
  /\ IF Last(Env).kind = "block" THEN UNCHANGED <<lambdas, tracker>>
     ELSE lambdas' = Front(lambdas) /\ tracker' = TrackerAfter
  /\ UNCHANGED <<program, currentClass, currentNs, agreed>>

-----------------------------------------------------------------------------

(* substituteType is applied to fields and parameters only. *)
TypeNamed(e) ==
  CASE e.name = "T" -> Tail(Frame.decl)
    [] e.arg = "T" /\ e.name # "T" -> <<e.name>> \o Tail(Frame.decl)
    [] e.arg = "box" -> <<e.name, "Box", "int">>
    [] OTHER -> <<e.name, "int">>

TypeEvents ==
  [op : {"type"}, name : IF Part = "fields" THEN {"Box", "Pair"} ELSE Templates, arg : {"int", "box"}]
  \cup (IF IsInstance(Frame.decl) /\ Before \subseteq {"type"}
        THEN [op : {"type"}, name : {"T", "Box", "Pair"}, arg : {"T"}] ELSE {})

Unknown(t, ns) == t # <<"int">> /\ NamespaceOf(t) \notin {"", ns}

(* Mutant of Marked: the instance is marked when its analysis ends. *)
MarkedLate(t) == instantiated

Marked(t) == instantiated \cup {t}

(* ensureGenericClassInstantiated, ensureGenericFuncInstantiated: a new    *)
(* instance is added to the program and analysed at once.                  *)
NameType ==
  /\ frames # <<>> /\ Frame.inside
  /\ \E e \in TypeEvents :
       LET t == TypeNamed(e)
           inst == Enter(t, Base + Len(Env))
       IN  /\ Part = "fields" => "field" \in Liberties \/ NamespaceOf(t) = ""
           /\ Event(e)
           /\ agreed' = (Unknown(t, currentNs) = Unknown(t, NamespaceOf(Frame.decl)))
           /\ LET going == WithFrame([Frame EXCEPT !.at = @ + 1])
              IN  IF t = <<"int">> \/ t \in instantiated \/ Unknown(t, currentNs)
                  THEN frames' = going /\ UNCHANGED <<instantiated, decls, done>>
                  ELSE /\ frames' = Append(going, inst)
                       /\ instantiated' = Marked(t)
                       /\ decls' = Append(decls, t) /\ done' = Append(done, t)
  /\ UNCHANGED <<table, next, rejected, scopes, currentClass, currentNs, lambdas, tracker>>

(* The next part of a declaration.  The heads and the fields of a class    *)
(* are checked before the namespace is set.                                *)
BeginPart ==
  /\ frames # <<>> /\ ~Frame.inside /\ Frame.part < Len(Parts(Frame.decl))
  /\ LET p == Parts(Frame.decl)[Frame.part + 1]
         first == p \in {"constructor", "function"}
     IN  /\ frames' = WithFrame([Frame EXCEPT !.part = @ + 1, !.inside = TRUE,
                                   !.env = IF p = "fields" THEN <<>> ELSE <<[vars |-> {}, kind |-> "body"]>>,
                                   !.saved = IF first THEN currentNs ELSE @])
         /\ scopes' = IF p = "fields" THEN scopes ELSE Append(scopes, {})
         /\ currentClass' = IF p \in {"fields", "function"} THEN currentClass ELSE Frame.decl
         /\ currentNs' = IF first THEN NamespaceOf(Frame.decl) ELSE currentNs
  /\ UNCHANGED <<program, text, lambdas, tracker, agreed>>

EndPart ==
  /\ frames # <<>> /\ Frame.inside /\ Len(Env) <= 1
  /\ Event([op |-> "end"])
  /\ frames' = WithFrame([Frame EXCEPT !.inside = FALSE, !.at = 0, !.env = <<>>])
  /\ scopes' = IF Part = "fields" THEN scopes ELSE Front(scopes)
  /\ currentClass' = IF Part = "method" THEN none ELSE currentClass
  /\ UNCHANGED <<program, currentNs, lambdas, tracker, agreed>>

(* Mutant of NsAfter: the namespace stays that of the declaration. *)
NsAfterStays == currentNs

NsAfter == Frame.saved

EndDecl ==
  /\ frames # <<>> /\ ~Frame.inside /\ Frame.part = Len(Parts(Frame.decl))
  /\ frames' = Front(frames)
  /\ currentClass' = IF IsClass(Frame.decl) THEN none ELSE currentClass
  /\ currentNs' = NsAfter
  /\ UNCHANGED <<program, text, scopes, lambdas, tracker, agreed>>

-----------------------------------------------------------------------------

(* Mutant of Ancestors: only the parent is looked at. *)
AncestorsParent == [c \in Classes |-> IF table[c].parent \in Classes THEN <<table[c].parent>> ELSE <<>>]

Ancestors ==
  LET up[c \in Classes] == IF table[c].parent \in Classes THEN <<table[c].parent>> \o up[table[c].parent] ELSE <<>>
  IN  up

(* What the head of a class and its method are reported for: a parent that *)
(* does not exist, an abstract method in a class that is not, one of any   *)
(* ancestor that the class itself does not implement, an override of none. *)
Reported(c) ==
  LET above == {table[Ancestors[c][k]].method : k \in 1..Len(Ancestors[c])}
  IN  \/ table[c].parent \notin Classes \cup {"none"}
      \/ table[c].method = "abstract" /\ ~table[c].abstract
      \/ ~table[c].abstract /\ "abstract" \in above /\ table[c].method \notin {"own", "override"}
      \/ table[c].method = "override" /\ above \subseteq {"none"}

(* analyze: the loop over declarations keeps its iterators while instances *)
(* are added.  When the vector had to move they are stale, and the loop    *)
(* may as well end.                                                        *)
NextDecl ==
  /\ frames = <<>> /\ next <= Given
  /\ \E lost \in IF Len(decls) > Given + Room THEN BOOLEAN ELSE {FALSE} :
       LET d == decls[next]
       IN  /\ next' = IF lost THEN Given + 1 ELSE next + 1
           /\ frames' = IF lost THEN <<>> ELSE <<Enter(d, 0)>>
           /\ done' = IF lost THEN done ELSE Append(done, d)
           /\ rejected' = rejected \cup {c \in Classes : c = Head(d) /\ ~lost /\ Reported(c)}
  /\ UNCHANGED <<table, decls, instantiated, text, scopes, currentClass, currentNs, lambdas, tracker, agreed>>

Ended == frames = <<>> /\ next > Given
Finished == Ended /\ UNCHANGED vars

(* Programs with bodies have one plain class; programs with all kinds of   *)
(* classes have empty bodies.                                              *)
Class(parents) == [parent : parents, abstract : BOOLEAN, method : {"none", "abstract", "own", "override"}]
Plain == [c \in Classes |-> [parent |-> "none", abstract |-> FALSE, method |-> "none"]]

Init ==
  /\ \/ table = Plain /\ decls = <<<<"Node">>, <<"main">>, <<"helper">>>> /\ written = 0
     \/ /\ \E base \in {c \in Class({"none"}) : c.abstract = (c.method = "abstract")},
             node \in Class({"none", "Base"}), leaf \in Class({"Base", "Node", "Lost"}) :
             table = [c \in Classes |-> CASE c = "Base" -> base [] c = "Node" -> node [] OTHER -> leaf]
        /\ decls = <<<<"Base">>, <<"Node">>, <<"Leaf">>>> /\ written = MaxEvents
  /\ next = 1 /\ frames = <<>>
  /\ LET all == ToSet(decls) \cup {<<t>> : t \in Templates}
     IN  bodies = [k \in UNION {{<<Head(d), p>> : p \in ToSet(Parts(d))} : d \in all} |-> <<>>]
  /\ instantiated = {} /\ scopes = <<>> /\ currentClass = none /\ currentNs = ""
  /\ lambdas = <<>> /\ tracker = 0
  /\ agreed = TRUE
  /\ rejected = {} /\ done = <<>>

Next ==
  \/ Declare \/ Use \/ This \/ Block \/ Lambda \/ Close \/ NameType
  \/ BeginPart \/ EndPart \/ EndDecl \/ NextDecl \/ Finished

Spec == Init /\ [][Next]_vars

-----------------------------------------------------------------------------

TypeOK ==
  /\ tracker \in 0..Len(lambdas)
  /\ frames = <<>> => scopes = <<>> /\ lambdas = <<>> /\ currentNs = ""
  /\ written \in 0..MaxEvents
  /\ rejected \subseteq Classes

(* Every judgement is that of lexical scoping: which declaration a name    *)
(* stands for, whether a use of it is refused, which class this is, which  *)
(* types a namespace sees, although bodies of instances are analysed in    *)
(* the middle of others (analyzeExpr, lookupVar, isTypeValid).             *)
JudgesLexically == agreed

(* A lambda that captures all has recorded exactly the variables of its    *)
(* surroundings that its body names (captureTracker_, resolvedCaptures).   *)
CapturesExact == \A k \in 1..Len(lambdas) : lambdas[k].all => lambdas[k].recorded = lambdas[k].needed

(* Every declaration of the program and every instance is analysed, and    *)
(* only once, wherever it is used first (analyze, instantiatedGenerics).   *)
EveryDeclarationOnce ==
  /\ \A i, j \in 1..Len(done) : done[i] = done[j] => i = j
  /\ Ended => ToSet(done) = ToSet(decls)

(* In a program that is accepted every object of a class that is not       *)
(* abstract has a body for its method, and every override overrides        *)
(* (analyzeClass, analyzeMethod).                                          *)
Implementation ==
  LET nearest[c \in Classes] ==
        IF table[c].method # "none" THEN table[c].method
        ELSE IF table[c].parent \in Classes THEN nearest[table[c].parent] ELSE "none"
  IN  nearest
ClassesComplete ==
  Ended /\ rejected = {} =>
    \A c \in Classes :
      /\ Implementation[c] = "abstract" => table[c].abstract
      /\ table[c].method = "override" => table[c].parent \in Classes /\ Implementation[table[c].parent] # "none"
=============================================================================
