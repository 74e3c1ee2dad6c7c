---------------------------- MODULE ScopeCodeGen ----------------------------
(***************************************************************************)
(* The statement generator of the LPL compiler (src/codegen.cpp): one pass *)
(* over the text of a function body that emits basic blocks and keeps, as  *)
(* it goes, the stack of cleanup scopes and the stack of defers.           *)
(*                                                                         *)
(* The text is not given in advance.  Each action is one step of the       *)
(* recursive descent of generateStmt: a statement with no body is one      *)
(* action; a construct with a body is one action where its handler starts  *)
(* and one where each body ends.  The behaviours of this module are thus   *)
(* the runs of the generator on every program of at most MaxStmts          *)
(* statements made of the Features.                                        *)
(*                                                                         *)
(* cleanupStack is a vector of vectors; here it is the flat list cleanups  *)
(* and, for each open scope, the length the list had when the scope was    *)
(* pushed.  The same marks cut defers into the vectors of deferStack.      *)
(***************************************************************************)
EXTENDS FunctionIR, FiniteSets

CONSTANTS
  Features,    (* what the program text may contain, see AllFeatures       *)
  MaxStmts,    (* statements in the text: bounds the model                 *)
  MaxNesting,  (* constructs open at a time: bounds the model              *)
  MaxCases     (* cases of a switch: bounds the model                      *)

(* The first lines are kinds of statements.  The last two name the places  *)
(* where the generator is known not to keep what MANUAL.md says:           *)
(*   DeadCode    statements after a return at the top level of a body      *)
(*   Scopeless   a declaration or defer directly in a case, a try or a     *)
(*               finally body or in an unbraced branch or loop body, which *)
(*               have no scope of their own                                *)
(*   CondMove    a move of an object declared outside the current body     *)
(*   JumpPast    break or continue out of a body that still owes something *)
(*   ReturnPast  return out of a try, or past a finally                    *)
(*   ThrowPast   an exception that crosses something owed                  *)
(*   FinallyOnly try with a finally and no catch                           *)
(*   LambdaPast  return or break in a lambda that reaches what belongs to  *)
(*               the function around it                                    *)
AllFeatures ==
  {"Decl", "Defer", "Move", "Delete", "Return", "Call", "Throw",
   "Break", "Continue", "Block", "If", "Else", "Single",
   "While", "DoWhile", "For", "ForEach", "Switch", "Try", "Finally", "CatchSome", "Lambda",
   "DeadCode", "Scopeless", "CondMove", "JumpPast",
   "ReturnPast", "ThrowPast", "FinallyOnly", "LambdaPast"}

ASSUME FeaturesAssumption == Features \subseteq AllFeatures
ASSUME BoundsAssumption == MaxStmts \in Nat /\ MaxNesting \in Nat /\ MaxCases \in Nat

Uses(f) == f \in Features

VARIABLES
  code,           (* the blocks of the function, in order of creation       *)
  cur,            (* the builder's insert block                             *)
  cleanups,       (* cleanupStack: objects registered for RAII cleanup      *)
  defers,         (* deferStack: deferred statements                        *)
  scopes,         (* lengths of the two lists when each scope was pushed    *)
  breakTarget,    (* the block break branches to, 0 for the null pointer    *)
  continueTarget, (* the same for continue                                  *)
  open,           (* the handlers the descent is inside of, innermost last  *)
  nStmts          (* statements taken so far; a statement's place in the    *)
                  (* text is the name of the object or defer it declares    *)

genVars == <<code, cur, cleanups, defers, scopes, breakTarget,
             continueTarget, open, nStmts>>

Mark == [objs : Nat, defs : Nat]

Entry == [obj : Nat, moved : BOOLEAN]

Kinds == {"function", "lambda", "block", "forscope", "then", "elsehead", "else",
          "loop", "case", "try", "dispatch", "catch", "finally"}

(* What a handler keeps in its own locals while it generates a body.       *)
(*   scoped       the body has a cleanup scope                             *)
(*   begun        the body has a statement                                 *)
(*   next, alt    blocks the handler has made and will go on with          *)
(*   fin          the try statement's place if it has a finally, else 0;   *)
(*                of a case, the block of the last one                     *)
(*   all          one of the catch clauses seen takes every exception      *)
(*   objs, defs   lengths of the two lists before the body                 *)
(*   brk, cont    savedBreak and savedContinue                             *)
(*   within       dispatch blocks of the try bodies around this point      *)
Frame == [kind : Kinds, scoped : BOOLEAN, begun : BOOLEAN, next : Nat, alt : Nat,
          fin : Nat, all : BOOLEAN, objs : Nat, defs : Nat, brk : Nat,
          cont : Nat, within : Seq(Nat)]

TypeOK ==
  /\ code \in Seq(Block)
  /\ cur \in 1..Len(code)
  /\ cleanups \in Seq(Entry)
  /\ defers \in Seq(Nat)
  /\ scopes \in Seq(Mark)
  /\ breakTarget \in Nat
  /\ continueTarget \in Nat
  /\ open \in Seq(Frame)
  /\ nStmts \in Nat

-----------------------------------------------------------------------------
(* The builder and the two stacks. *)

Top == open[Len(open)]

(* The handler on top goes on with other locals. *)
WithTop(frame) == [open EXCEPT ![Len(open)] = frame]

Front(s) == SubSeq(s, 1, Len(s) - 1)

Here == code[cur]

Emit(is) == [code EXCEPT ![cur].is = @ \o is]

EmptyMark == [objs |-> Len(cleanups), defs |-> Len(defers)]

Scope(scoped) == IF scoped THEN <<EmptyMark>> ELSE <<>>

(* The calls for the defers and for the objects registered after the first *)
(* n, latest first.  A moved entry keeps its place but emits nothing.      *)
DeferCode(n) ==
  [i \in 1..(Len(defers) - n) |-> Op("run", defers[Len(defers) + 1 - i])]

(* Mutant of CleanupCode: first built, first destroyed. *)
CleanupCodeForward(entries, n) ==
  [i \in 1..(Len(entries) - n) |->
     LET e == entries[n + i]
     IN  IF e.moved THEN Op("nop", 0) ELSE Op("destroy", e.obj)]

CleanupCode(entries, n) ==
  [i \in 1..(Len(entries) - n) |->
     LET e == entries[Len(entries) + 1 - i]
     IN  IF e.moved THEN Op("nop", 0) ELSE Op("destroy", e.obj)]

(* popCleanupScope: what it emits when the block is still open ... *)
ScopeExit ==
  LET m == scopes[Len(scopes)]
  IN  DeferCode(m.defs) \o CleanupCode(cleanups, m.objs)

(* Mutant of PopScope: the deferred statements stay. *)
PopScopeKeepsDefers(scoped) ==
  IF scoped
  THEN LET m == scopes[Len(scopes)]
       IN  /\ scopes' = Front(scopes)
           /\ cleanups' = SubSeq(cleanups, 1, m.objs)
           /\ UNCHANGED defers
  ELSE UNCHANGED <<scopes, cleanups, defers>>

(* ... and what it drops.  A body without a scope of its own leaves what   *)
(* it registered to the scope around it.                                   *)
PopScope(scoped) ==
  IF scoped
  THEN LET m == scopes[Len(scopes)]
       IN  /\ scopes' = Front(scopes)
           /\ cleanups' = SubSeq(cleanups, 1, m.objs)
           /\ defers' = SubSeq(defers, 1, m.defs)
  ELSE UNCHANGED <<scopes, cleanups, defers>>

(* Mutant of EmitCleanups: objects go before the deferred statements run.  *)
EmitCleanupsObjectsFirst(entries) == CleanupCode(entries, 0) \o DeferCode(0)

(* emitCleanups, for a return: the defers of all scopes, then the objects  *)
(* of all scopes.  Nothing is dropped.                                     *)
EmitCleanups(entries) == DeferCode(0) \o CleanupCode(entries, 0)

(* Mutant of BodyEnd: no look at the block's terminator. *)
BodyEndUnchecked(tail) == (IF Top.scoped THEN ScopeExit ELSE <<>>) \o tail

(* The end of a body: its scope, then the way on, unless the body has      *)
(* already ended its last block.                                           *)
BodyEnd(tail) ==
  IF Terminated(Here)
  THEN <<>>
  ELSE (IF Top.scoped THEN ScopeExit ELSE <<>>) \o tail

-----------------------------------------------------------------------------
(* Where the next statement of the text may stand. *)

(* A branch or loop body that is one statement without braces. *)
Single(f) == f.kind \in {"then", "else", "loop"} /\ ~f.scoped

(* The current body has room for a statement. *)
HasRoom ==
  /\ open # <<>>
  /\ nStmts < MaxStmts
  /\ Top.kind \notin {"forscope", "elsehead", "dispatch"}
  /\ Single(Top) => ~Top.begun

(* The loops over a body's statements stop at a terminator, except those   *)
(* of generateFunction and its siblings.                                   *)
CanTake ==
  /\ HasRoom
  /\ Terminated(Here) => Top.kind = "function" /\ Uses("DeadCode")

CanOpen == CanTake /\ Len(open) < MaxNesting

Place == nStmts + 1

(* The current body has taken a statement. *)
Taken == [open EXCEPT ![Len(open)].begun = TRUE]

NewFrame(kind, scoped, next, alt) ==
  [kind |-> kind, scoped |-> scoped, begun |-> FALSE, next |-> next,
   alt |-> alt, fin |-> 0, all |-> FALSE, objs |-> Len(cleanups),
   defs |-> Len(defers), brk |-> breakTarget, cont |-> continueTarget,
   within |-> Top.within]

(* A body with braces, or one without: then it has exactly one statement,  *)
(* for which there must be room after the n taken so far.                  *)
BodyScoping(n) == IF Uses("Single") /\ n < MaxStmts THEN BOOLEAN ELSE {TRUE}

(* Where the innermost function in the text starts: nested functions are   *)
(* lambdas.                                                                *)
FunctionStart ==
  CHOOSE k \in 1..Len(open) :
    /\ open[k].kind \in {"function", "lambda"}
    /\ \A j \in (k + 1)..Len(open) : open[j].kind \notin {"function", "lambda"}

(* The innermost open construct of one of the kinds in it, 0 if none is. *)
Innermost(kinds) ==
  CHOOSE k \in {0} \cup (FunctionStart + 1)..Len(open) :
    /\ k > 0 => open[k].kind \in kinds
    /\ \A j \in (FunctionStart + 1)..Len(open) : j > k => open[j].kind \notin kinds

(* Something was registered inside construct k and is still owed. *)
Owed(k) ==
  \/ \E i \in (open[k].objs + 1)..Len(cleanups) : ~cleanups[i].moved
  \/ Len(defers) > open[k].defs
  \/ \E j \in (k + 1)..Len(open) : open[j].kind = "dispatch" /\ open[j].fin # 0

CrossesTry(k) == \E j \in (k + 1)..Len(open) : open[j].kind = "try"

(* An exception thrown here crosses nothing that is owed. *)
ThrowIsClean ==
  LET k == Innermost({"try"}) IN k > 0 => ~Owed(k) \/ Uses("ThrowPast")

-----------------------------------------------------------------------------
(* Statements without a body. *)

(* A declaration or a defer has the scope around it for its own only if    *)
(* the current body has a scope.                                           *)
ScopeIsOwn ==
  Top.kind \in {"case", "try", "finally"} \/ Single(Top) => Uses("Scopeless")

(* generateVarDecl: an object of class type, or an owner with its object,  *)
(* is built and registered in the innermost scope.                         *)
VarDecl ==
  /\ CanTake /\ Uses("Decl") /\ ScopeIsOwn
  /\ code' = Emit(<<Op("new", Place)>>)
  /\ cleanups' = Append(cleanups, [obj |-> Place, moved |-> FALSE])
  /\ open' = Taken
  /\ nStmts' = Place
  /\ UNCHANGED <<cur, defers, scopes, breakTarget, continueTarget>>

(* generateDefer: the statement is put aside; no code is emitted. *)
Defer ==
  /\ CanTake /\ Uses("Defer") /\ ScopeIsOwn
  /\ code' = IF Terminated(Here) THEN code ELSE Emit(<<Op("arm", Place)>>)
  /\ defers' = Append(defers, Place)
  /\ open' = Taken
  /\ nStmts' = Place
  /\ UNCHANGED <<cur, cleanups, scopes, breakTarget, continueTarget>>

(* The objects a statement can name: those of the innermost function.  In  *)
(* a lambda the name of a captured object is that of a copy.               *)
InReach ==
  {i \in 1..Len(cleanups) : i > open[FunctionStart].objs /\ ~cleanups[i].moved}

(* The object of entry i is the current body's own, and so is moved on     *)
(* every path on which it was built.                                       *)
MoveIsSure(i) == i > Top.objs \/ Uses("CondMove")

Moved(i) == [cleanups EXCEPT ![i].moved = TRUE]

(* The Move case of generateExpr: the entry is marked from here on in the  *)
(* text, whatever path control takes.                                      *)
Move ==
  /\ CanTake /\ Uses("Move")
  /\ \E i \in InReach :
       /\ MoveIsSure(i)
       /\ code' = Emit(<<Op("move", cleanups[i].obj)>>)
       /\ cleanups' = Moved(i)
  /\ open' = Taken
  /\ nStmts' = Place
  /\ UNCHANGED <<cur, defers, scopes, breakTarget, continueTarget>>

(* generateDelete: destroyed at once, and left registered. *)
Delete ==
  /\ CanTake /\ Uses("Delete")
  /\ \E i \in InReach : code' = Emit(<<Op("destroy", cleanups[i].obj)>>)
  /\ open' = Taken
  /\ nStmts' = Place
  /\ UNCHANGED <<cur, cleanups, defers, scopes, breakTarget, continueTarget>>

(* A return here crosses no try and no finally of its function, and finds  *)
(* nothing owed by the functions around it.                                *)
ReturnIsClean ==
  LET f == FunctionStart
  IN  /\ \/ ~CrossesTry(f) /\ \A j \in f..Len(open) :
                                  open[j].kind = "dispatch" => open[j].fin = 0
         \/ Uses("ReturnPast")
      /\ \/ open[f].defs = 0 /\ \A i \in 1..open[f].objs : cleanups[i].moved
         \/ Uses("LambdaPast")

(* generateReturn without "move". *)
Return ==
  /\ CanTake /\ Uses("Return") /\ ReturnIsClean
  /\ code' = Emit(EmitCleanups(cleanups) \o <<Op("ret", 0)>>)
  /\ open' = Taken
  /\ nStmts' = Place
  /\ UNCHANGED <<cur, cleanups, defers, scopes, breakTarget, continueTarget>>

(* generateReturn for "return move x": x is marked, then the cleanups of   *)
(* everything else are emitted.                                            *)
ReturnMove ==
  /\ CanTake /\ Uses("Return") /\ Uses("Move") /\ ReturnIsClean
  /\ \E i \in InReach :
       /\ MoveIsSure(i)
       /\ code' = Emit(<<Op("move", cleanups[i].obj)>>
                       \o EmitCleanups(Moved(i)) \o <<Op("ret", 0)>>)
       /\ cleanups' = Moved(i)
  /\ open' = Taken
  /\ nStmts' = Place
  /\ UNCHANGED <<cur, defers, scopes, breakTarget, continueTarget>>

(* An expression statement: a call to a function that may throw. *)
Call ==
  /\ CanTake /\ Uses("Call") /\ ThrowIsClean
  /\ code' = Emit(<<Op("call", 0)>>)
  /\ open' = Taken
  /\ nStmts' = Place
  /\ UNCHANGED <<cur, cleanups, defers, scopes, breakTarget, continueTarget>>

(* generateThrow. *)
Throw ==
  /\ CanTake /\ Uses("Throw") /\ ThrowIsClean
  /\ code' = Emit(<<Op("throw", 0), Op("unreachable", 0)>>)
  /\ open' = Taken
  /\ nStmts' = Place
  /\ UNCHANGED <<cur, cleanups, defers, scopes, breakTarget, continueTarget>>

(* A jump from here to the innermost construct of one of the kinds leaves  *)
(* nothing owed behind and stays in its function.                          *)
JumpIsClean(kinds, target) ==
  LET k == Innermost(kinds)
  IN  IF k > 0
      THEN (~Owed(k) /\ ~CrossesTry(k)) \/ Uses("JumpPast")
      ELSE target = 0 \/ Uses("LambdaPast")

(* The Break and Continue cases of generateStmt: a branch and nothing      *)
(* else; without a target, nothing at all.                                 *)
Jump(feature, target, kinds) ==
  /\ CanTake /\ Uses(feature) /\ JumpIsClean(kinds, target)
  /\ code' = IF target = 0 THEN code ELSE Emit(<<Br(target)>>)
  /\ open' = Taken
  /\ nStmts' = Place
  /\ UNCHANGED <<cur, cleanups, defers, scopes, breakTarget, continueTarget>>

Break == Jump("Break", breakTarget, {"loop", "case"})

Continue == Jump("Continue", continueTarget, {"loop"})

-----------------------------------------------------------------------------
(* Statements with a body: where the handler starts. *)

(* A new block at this point of the text. *)
BlockHere == NewBlock(Here.fn, Top.within)

NB(k) == [i \in 1..k |-> BlockHere]

(* generateBlock. *)
OpenBlock ==
  /\ CanOpen /\ Uses("Block")
  /\ scopes' = scopes \o Scope(TRUE)
  /\ open' = Append(Taken, NewFrame("block", TRUE, 0, 0))
  /\ nStmts' = Place
  /\ UNCHANGED <<code, cur, cleanups, defers, breakTarget, continueTarget>>

(* generateIf: the blocks of both branches and the one where they meet.    *)
OpenIf ==
  /\ CanOpen /\ Uses("If")
  /\ \E hasElse \in (IF Uses("Else") THEN BOOLEAN ELSE {FALSE}),
        scoped \in BodyScoping(Place) :
       LET then == Len(code) + 1
           merge == Len(code) + 2
           else == IF hasElse THEN Len(code) + 3 ELSE 0
       IN  /\ code' = Emit(<<Branch("condbr", 0, then, IF hasElse THEN else ELSE merge)>>)
                      \o NB(IF hasElse THEN 3 ELSE 2)
           /\ cur' = then
           /\ scopes' = scopes \o Scope(scoped)
           /\ open' = Append(Taken, NewFrame("then", scoped, merge, else))
  /\ nStmts' = Place
  /\ UNCHANGED <<cleanups, defers, breakTarget, continueTarget>>

(* The second half of generateIf, at the start of the else branch. *)
OpenElse ==
  /\ open # <<>> /\ Top.kind = "elsehead"
  /\ \E scoped \in BodyScoping(nStmts) :
       /\ scopes' = scopes \o Scope(scoped)
       /\ open' = WithTop([Top EXCEPT !.kind = "else", !.scoped = scoped,
                                      !.objs = Len(cleanups), !.defs = Len(defers)])
  /\ UNCHANGED <<code, cur, cleanups, defers, breakTarget, continueTarget, nStmts>>

(* generateWhile and generateDoWhile: condition, body and exit.  The       *)
(* condition is tested first or after the first round.                     *)
OpenLoop(feature, test) ==
  /\ CanOpen /\ Uses(feature)
  /\ LET cond == Len(code) + 1
         body == Len(code) + 2
         exit == Len(code) + 3
     IN  /\ code' = Emit(<<Br(IF test = "first" THEN cond ELSE body)>>)
                    \o <<[BlockHere EXCEPT !.is = <<Branch("condbr", 0, body, exit)>>]>>
                    \o NB(2)
         /\ cur' = body
         /\ breakTarget' = exit
         /\ continueTarget' = cond
         /\ \E scoped \in BodyScoping(Place) :
              /\ scopes' = scopes \o Scope(scoped)
              /\ open' = Append(Taken, NewFrame("loop", scoped, cond, exit))
  /\ nStmts' = Place
  /\ UNCHANGED <<cleanups, defers>>

OpenWhile == OpenLoop("While", "first")

OpenDoWhile == OpenLoop("DoWhile", "last")

(* generateFor and generateForEach: the loop stands in a scope of its own, *)
(* which holds what the init clause declares; continue goes to the         *)
(* increment.                                                              *)
ForLoop(init, scoped) ==
  LET cond == Len(code) + 1
      body == Len(code) + 2
      exit == Len(code) + 3
      incr == Len(code) + 4
      declared == IF init THEN <<[obj |-> Place, moved |-> FALSE]>> ELSE <<>>
      inner == [objs |-> Len(cleanups) + Len(declared), defs |-> Len(defers)]
  IN  /\ code' = Emit((IF init THEN <<Op("new", Place)>> ELSE <<>>) \o <<Br(cond)>>)
                 \o <<[BlockHere EXCEPT !.is = <<Branch("condbr", 0, body, exit)>>]>>
                 \o NB(2)
                 \o <<[BlockHere EXCEPT !.is = <<Br(cond)>>]>>
      /\ cur' = body
      /\ breakTarget' = exit
      /\ continueTarget' = incr
      /\ cleanups' = cleanups \o declared
      /\ scopes' = scopes \o Scope(TRUE) \o (IF scoped THEN <<inner>> ELSE <<>>)
      /\ open' = Taken \o
           <<NewFrame("forscope", TRUE, 0, 0),
             [NewFrame("loop", scoped, incr, exit) EXCEPT !.objs = inner.objs]>>
      /\ nStmts' = Place
      /\ UNCHANGED defers

OpenFor ==
  /\ CanOpen /\ Uses("For")
  /\ \E init \in (IF Uses("Decl") THEN BOOLEAN ELSE {FALSE}), scoped \in BodyScoping(Place) :
       ForLoop(init, scoped)

(* The variable of a for-in is a number and needs no cleanup. *)
OpenForEach ==
  /\ CanOpen /\ Uses("ForEach")
  /\ \E scoped \in BodyScoping(Place) : ForLoop(FALSE, scoped)

(* generateSwitch: the exit and the blocks of all cases, then the branch.  *)
(* Without a default clause the branch may go to the exit.  The cases      *)
(* follow one another; they get no scope.                                  *)
OpenSwitch ==
  /\ CanOpen /\ Uses("Switch")
  /\ \E n \in 1..MaxCases, default \in BOOLEAN :
       LET exit == Len(code) + 1
           first == Len(code) + 2
       IN  /\ code' = Emit(<<Branch("switch", n, first, IF default THEN first ELSE exit)>>)
                      \o NB(n + 1)
           /\ cur' = first
           /\ breakTarget' = exit
           /\ open' = Append(Taken, [NewFrame("case", FALSE, exit, first)
                                       EXCEPT !.fin = Len(code) + 1 + n])
  /\ nStmts' = Place
  /\ UNCHANGED <<cleanups, defers, scopes, continueTarget>>

(* The Lambda case of generateExpr, here in a statement of its own: the    *)
(* body is a function with a scope of its own on top of the scopes of the  *)
(* function around it, whose jump targets stay in place too.               *)
OpenLambda ==
  /\ CanOpen /\ Uses("Lambda")
  /\ LET entry == Len(code) + 1
     IN  /\ code' = Append(code, NewBlock(entry, <<>>))
         /\ cur' = entry
         /\ scopes' = scopes \o Scope(TRUE)
         /\ open' = Append(Taken, [NewFrame("lambda", TRUE, cur, 0) EXCEPT !.within = <<>>])
  /\ nStmts' = Place
  /\ UNCHANGED <<cleanups, defers, breakTarget, continueTarget>>

(* generateTry: the handler is installed and the body starts.  The body    *)
(* gets no scope.                                                          *)
OpenTry ==
  /\ CanOpen /\ Uses("Try")
  /\ \E fin \in (IF Uses("Finally") THEN {0, Place} ELSE {0}) :
       LET body == Len(code) + 1
           dispatch == Len(code) + 2
           exit == Len(code) + 3
       IN  /\ code' = Emit((IF fin # 0 THEN <<Op("arm", fin)>> ELSE <<>>)
                           \o <<Branch("try", 0, body, dispatch)>>)
                      \o <<[BlockHere EXCEPT !.within = Append(@, dispatch)]>> \o NB(2)
           /\ cur' = body
           /\ open' = Append(Taken, [NewFrame("try", FALSE, exit, dispatch)
                                       EXCEPT !.fin = fin, !.within = Append(@, dispatch)])
  /\ nStmts' = Place
  /\ UNCHANGED <<cleanups, defers, scopes, breakTarget, continueTarget>>

(* A catch clause: the type test, the clause's block and the next test's.  *)
(* An exception that no clause takes is thrown again from here, and        *)
(* crosses this statement's own finally too.  The first clause does not    *)
(* count as a statement: a try without finally must have one.              *)
OpenCatch ==
  /\ open # <<>> /\ Top.kind = "dispatch"
  /\ cur = Top.alt \/ nStmts < MaxStmts
  /\ \E all \in (IF Uses("CatchSome") THEN BOOLEAN ELSE {TRUE}) :
       LET body == Len(code) + 1
           next == Len(code) + 2
       IN  /\ ~Top.all   \* no clause after one that takes everything
           /\ all \/ ThrowIsClean
           /\ code' = Emit(<<Branch("match", IF all THEN 1 ELSE 0, body, next)>>) \o NB(2)
           /\ cur' = body
           /\ scopes' = scopes \o Scope(TRUE)
           /\ open' = Append([open EXCEPT ![Len(open)].all = all],
                             NewFrame("catch", TRUE, Top.next, next))
  /\ nStmts' = IF cur = Top.alt THEN nStmts ELSE Place
  /\ UNCHANGED <<cleanups, defers, breakTarget, continueTarget>>

-----------------------------------------------------------------------------
(* Where a body ends. *)

CanClose(kinds) ==
  /\ open # <<>>
  /\ Top.kind \in kinds
  /\ Single(Top) => Top.begun

(* generateBlock, and the end of generateFor. *)
CloseBlock ==
  /\ CanClose({"block", "forscope"})
  /\ code' = Emit(BodyEnd(<<>>))
  /\ PopScope(TRUE)
  /\ open' = Front(open)
  /\ UNCHANGED <<cur, breakTarget, continueTarget, nStmts>>

(* generateIf: a branch goes on to the merge block.  After the then branch *)
(* comes the else branch, if there is one.                                 *)
CloseBranch ==
  /\ CanClose({"then", "else"})
  /\ code' = Emit(BodyEnd(<<Br(Top.next)>>))
  /\ PopScope(Top.scoped)
  /\ IF Top.kind = "then" /\ Top.alt # 0
     THEN /\ cur' = Top.alt
          /\ open' = WithTop([Top EXCEPT !.kind = "elsehead", !.scoped = FALSE,
                                         !.begun = FALSE])
     ELSE /\ cur' = Top.next
          /\ open' = Front(open)
  /\ UNCHANGED <<breakTarget, continueTarget, nStmts>>

(* Mutant of CloseLoop: the break target stays the inner loop's. *)
CloseLoopKeepsBreak ==
  /\ CanClose({"loop"})
  /\ code' = Emit(BodyEnd(<<Br(Top.next)>>))
  /\ PopScope(Top.scoped)
  /\ cur' = Top.alt
  /\ continueTarget' = Top.cont
  /\ open' = Front(open)
  /\ UNCHANGED <<breakTarget, nStmts>>

(* The loops: back to the condition or the increment; the targets of the   *)
(* enclosing loop come back.                                               *)
CloseLoop ==
  /\ CanClose({"loop"})
  /\ code' = Emit(BodyEnd(<<Br(Top.next)>>))
  /\ PopScope(Top.scoped)
  /\ cur' = Top.alt
  /\ breakTarget' = Top.brk
  /\ continueTarget' = Top.cont
  /\ open' = Front(open)
  /\ UNCHANGED nStmts

(* Mutant of CloseCase: one block too far is taken for a case. *)
CloseCaseTooFar ==
  /\ CanClose({"case"})
  /\ LET last == Top.alt > Top.fin
     IN  /\ code' = Emit(BodyEnd(<<Br(Top.next)>>))
         /\ cur' = IF last THEN Top.next ELSE Top.alt + 1
         /\ breakTarget' = IF last THEN Top.brk ELSE breakTarget
         /\ open' = IF last THEN Front(open)
                    ELSE [open EXCEPT ![Len(open)].alt = @ + 1]
  /\ UNCHANGED <<cleanups, defers, scopes, continueTarget, nStmts>>

(* generateSwitch at the end of a case: on to the next one if the body is  *)
(* empty or ends in "fallthrough", else to the exit.  The next case is     *)
(* generated at once, and after the last one the text goes on at the exit. *)
CloseCase ==
  /\ CanClose({"case"})
  /\ LET last == Top.alt = Top.fin
     IN  /\ \E fallthrough \in (IF Top.begun THEN BOOLEAN ELSE {TRUE}) :
              code' = Emit(BodyEnd(<<Br(IF fallthrough /\ ~last THEN Top.alt + 1 ELSE Top.next)>>))
         /\ cur' = IF last THEN Top.next ELSE Top.alt + 1
         /\ breakTarget' = IF last THEN Top.brk ELSE breakTarget
         /\ open' = IF last THEN Front(open)
                    ELSE WithTop([Top EXCEPT !.alt = Top.alt + 1, !.begun = FALSE,
                                             !.objs = Len(cleanups), !.defs = Len(defers)])
  /\ UNCHANGED <<cleanups, defers, scopes, continueTarget, nStmts>>

(* Mutant of CloseTryBody: the handler stays when the body ends. *)
CloseTryBodyNoLeave ==
  /\ CanClose({"try"})
  /\ code' = Emit(BodyEnd(<<Br(Top.next)>>))
  /\ cur' = Top.alt
  /\ open' = WithTop([Top EXCEPT !.kind = "dispatch", !.within = Front(Top.within)])
  /\ UNCHANGED <<cleanups, defers, scopes, breakTarget, continueTarget, nStmts>>

(* generateTry after the body: the handler goes, if the end is reached. *)
CloseTryBody ==
  /\ CanClose({"try"})
  /\ code' = Emit(BodyEnd(<<Op("tryleave", 0), Br(Top.next)>>))
  /\ cur' = Top.alt
  /\ open' = WithTop([Top EXCEPT !.kind = "dispatch", !.within = Front(Top.within)])
  /\ UNCHANGED <<cleanups, defers, scopes, breakTarget, continueTarget, nStmts>>

(* Mutant of CloseCatch: the clause's scope is not popped. *)
CloseCatchKeepsScope ==
  /\ CanClose({"catch"})
  /\ code' = Emit(BodyEnd(<<Op("clear", 0), Br(Top.next)>>))
  /\ cur' = Top.alt
  /\ open' = Front(open)
  /\ UNCHANGED <<cleanups, defers, scopes, breakTarget, continueTarget, nStmts>>

(* The end of a catch clause: its scope, the exception is cleared. *)
CloseCatch ==
  /\ CanClose({"catch"})
  /\ code' = Emit(BodyEnd(<<Op("clear", 0), Br(Top.next)>>))
  /\ PopScope(TRUE)
  /\ cur' = Top.alt
  /\ open' = Front(open)
  /\ UNCHANGED <<breakTarget, continueTarget, nStmts>>

(* generateTry after the clauses: when there was one, the block after the  *)
(* last test throws again; with none the dispatch block is left as it is.  *)
(* The finally body starts in the exit block.                              *)
CloseCatches ==
  /\ open # <<>> /\ Top.kind = "dispatch"
  /\ cur = Top.alt => Top.fin # 0 /\ Uses("FinallyOnly")
  /\ LET rethrown == IF cur = Top.alt THEN code
                     ELSE Emit(<<Op("throw", 0), Op("unreachable", 0)>>)
         final == IF Top.fin = 0 THEN <<>> ELSE <<Op("run", Top.fin)>>
     IN  code' = [rethrown EXCEPT ![Top.next].is = @ \o final]
  /\ cur' = Top.next
  /\ open' = IF Top.fin = 0 THEN Front(open)
             ELSE [open EXCEPT ![Len(open)].kind = "finally"]
  /\ UNCHANGED <<cleanups, defers, scopes, breakTarget, continueTarget, nStmts>>

(* The finally body has neither a scope nor a way on of its own. *)
CloseFinally ==
  /\ CanClose({"finally"})
  /\ open' = Front(open)
  /\ UNCHANGED <<code, cur, cleanups, defers, scopes, breakTarget, continueTarget, nStmts>>

(* The end of a lambda: its scope, a return, and back to where the lambda  *)
(* stands.                                                                 *)
CloseLambda ==
  /\ CanClose({"lambda"})
  /\ code' = Emit(BodyEnd(<<Op("ret", 0)>>))
  /\ PopScope(TRUE)
  /\ cur' = Top.next
  /\ open' = Front(open)
  /\ UNCHANGED <<breakTarget, continueTarget, nStmts>>

(* generateFunction, generateMethod, generateConstructor: the outermost    *)
(* scope, then a return if the text has not ended with one.                *)
CloseFunction ==
  /\ CanClose({"function"})
  /\ code' = Emit(BodyEnd(<<Op("ret", 0)>>))
  /\ PopScope(TRUE)
  /\ open' = <<>>
  /\ UNCHANGED <<cur, breakTarget, continueTarget, nStmts>>

-----------------------------------------------------------------------------

FunctionFrame ==
  [kind |-> "function", scoped |-> TRUE, begun |-> FALSE, next |-> 0, alt |-> 0,
   fin |-> 0, all |-> FALSE, objs |-> 0, defs |-> 0, brk |-> 0, cont |-> 0,
   within |-> <<>>]

(* The entry block has been made and the function's scope pushed. *)
GenInit ==
  /\ code = <<NewBlock(1, <<>>)>>
  /\ cur = 1
  /\ cleanups = <<>>
  /\ defers = <<>>
  /\ scopes = <<[objs |-> 0, defs |-> 0]>>
  /\ breakTarget = 0
  /\ continueTarget = 0
  /\ open = <<FunctionFrame>>
  /\ nStmts = 0

Simple ==
  VarDecl \/ Defer \/ Move \/ Delete \/ Return \/ ReturnMove \/ Call \/ Throw
  \/ Break \/ Continue

Opening ==
  OpenBlock \/ OpenIf \/ OpenElse \/ OpenWhile \/ OpenDoWhile \/ OpenFor \/ OpenForEach
  \/ OpenSwitch \/ OpenTry \/ OpenCatch \/ OpenLambda

Closing ==
  CloseBlock \/ CloseBranch \/ CloseLoop \/ CloseCase \/ CloseTryBody
  \/ CloseCatch \/ CloseCatches \/ CloseFinally \/ CloseLambda \/ CloseFunction

(* One step of the generator. *)
Generate == Simple \/ Opening \/ Closing

GenSpec == GenInit /\ [][Generate]_genVars

(* What generate() asks of llvm::verifyModule. *)
Verified == \A b \in 1..Len(code) : WellFormed(code, b)

-----------------------------------------------------------------------------
(* Properties. *)

(* The code generated for a whole text passes the IR verifier: no handler  *)
(* ends a block twice, leaves one open, or reaches into another function   *)
(* (generateBlock, generateTry, emitCleanupsForScope).                     *)
AcceptedByVerifier == open = <<>> => Verified

(* cleanupStack and deferStack hold one vector for each open body that has *)
(* a scope, whatever way bodies begin and end, and no vector begins past   *)
(* the end of the one below it (pushCleanupScope, popCleanupScope): every  *)
(* pop drops what was registered since its own push.                       *)
NestedScopes ==
  /\ Len(scopes) = Cardinality({k \in 1..Len(open) : open[k].scoped})
  /\ \A j \in 1..Len(scopes) :
       /\ scopes[j].objs <= Len(cleanups) /\ scopes[j].defs <= Len(defers)
       /\ \A i \in 1..j : scopes[i].objs <= scopes[j].objs /\ scopes[i].defs <= scopes[j].defs

(* Where break and continue go in a body, by what its handler has set. *)
BreakIn(f) == CASE f.kind = "loop" -> f.alt
                [] f.kind = "case" -> f.next
                [] OTHER -> f.brk

ContinueIn(f) == IF f.kind = "loop" THEN f.next ELSE f.cont

(* break and continue go where the innermost loop or switch says, and what *)
(* each handler has saved is what the handler around it says: the targets  *)
(* come back right when a loop, a switch or a lambda ends (generateWhile,  *)
(* generateSwitch and their siblings).                                     *)
JumpTargets ==
  /\ open # <<>> => /\ breakTarget = BreakIn(Top) /\ continueTarget = ContinueIn(Top)
                    /\ open[1].brk = 0 /\ open[1].cont = 0
  /\ \A k \in 1..(Len(open) - 1) : /\ open[k + 1].brk = BreakIn(open[k])
                                   /\ open[k + 1].cont = ContinueIn(open[k])

(* The generator is one object for all functions of a program: when it is  *)
(* done with one it has forgotten its objects, its deferred statements and *)
(* its jump targets, which would else turn up in the next function         *)
(* (generateFunction, generateMethod).                                     *)
CleanAtEnd ==
  open = <<>> => /\ scopes = <<>> /\ cleanups = <<>> /\ defers = <<>>
                 /\ breakTarget = 0 /\ continueTarget = 0
=============================================================================
