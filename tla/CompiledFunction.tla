--------------------------- MODULE CompiledFunction ---------------------------
(***************************************************************************)
(* A function of an LPL program from its text to the end of one run of it: *)
(* ScopeCodeGen generates the code, the IR verifier accepts it or not      *)
(* (CodeGen::generate), and the accepted code runs against the handler     *)
(* stack of the runtime (HandlerStack).  Conditions, the outcome of calls  *)
(* and the type tests of catch clauses are left open.  What the run does   *)
(* to objects and deferred statements is compared with Lifetimes.          *)
(*                                                                         *)
(* The function is main: an exception it does not handle is handled by     *)
(* nobody.                                                                 *)
(***************************************************************************)
EXTENDS ScopeCodeGen

VARIABLES
  phase,      (* generating, running, and how it ended                     *)
  at,         (* the next instruction: block and index                     *)
  handlers,   (* the handlers installed: the blocks a throw goes to        *)
  pending,    (* objects alive and callbacks come past, oldest first       *)
  event       (* what the latest change of pending was                     *)

runVars == <<phase, at, handlers, pending, event>>

vars == <<genVars, runVars>>

(* "fault" is a step the code must never take: an object destroyed or      *)
(* moved that is not alive, a callback run that was not come past.         *)
Ended == {"rejected", "done", "aborted", "fault"}

Objects == {"object"} \X (1..MaxStmts)

Callbacks == {"callback"} \X (1..MaxStmts)

Obj(n) == <<"object", n>>

Callback(n) == <<"callback", n>>

Stack == INSTANCE HandlerStack WITH Handlers <- Nat, control <- at[1]

Init ==
  /\ GenInit
  /\ phase = "generating"
  /\ at = <<1, 1>>
  /\ Stack!Init
  /\ pending = <<>>
  /\ event = "none"

-----------------------------------------------------------------------------
(* From text to code. *)

GenStep ==
  /\ phase = "generating"
  /\ Generate
  /\ UNCHANGED runVars

Goto(b) == at' = <<b, 1>>

(* generate() calls llvm::verifyModule and gives up if it finds an error.  *)
(* The function that runs is the one generated or a lambda of it.          *)
Verify ==
  /\ phase = "generating" /\ open = <<>>
  /\ IF Verified
     THEN /\ phase' = "running"
          /\ \E b \in 1..Len(code) : code[b].fn = b /\ Goto(b)
     ELSE /\ phase' = "rejected"
          /\ UNCHANGED at
  /\ UNCHANGED <<genVars, handlers, pending, event>>

-----------------------------------------------------------------------------
(* One action per instruction. *)

Current == code[at[1]].is[at[2]]

Executing(ops) == phase = "running" /\ Current.op \in ops

NextInstr == at' = <<at[1], at[2] + 1>>

Places(x) == {k \in 1..Len(pending) : pending[k] = x}

Drop(k) == SubSeq(pending, 1, k - 1) \o SubSeq(pending, k + 1, Len(pending))

(* Takes x, which must be there, off the list; its last occurrence if a    *)
(* loop has put it there more than once.                                   *)
Settle(x, what) ==
  IF Places(x) = {}
  THEN /\ phase' = "fault"
       /\ UNCHANGED <<at, pending, event>>
  ELSE /\ \E k \in Places(x) : /\ \A j \in Places(x) : j <= k
                               /\ pending' = Drop(k)
       /\ event' = what
       /\ NextInstr
       /\ UNCHANGED phase

ExecNew ==
  /\ Executing({"new"})
  /\ pending' = Append(pending, Obj(Current.arg))
  /\ event' = "register"
  /\ NextInstr
  /\ UNCHANGED <<genVars, phase, handlers>>

ExecArm ==
  /\ Executing({"arm"})
  /\ pending' = Append(pending, Callback(Current.arg))
  /\ event' = "register"
  /\ NextInstr
  /\ UNCHANGED <<genVars, phase, handlers>>

ExecDestroy ==
  /\ Executing({"destroy"})
  /\ Settle(Obj(Current.arg), "destroy")
  /\ UNCHANGED <<genVars, handlers>>

ExecMove ==
  /\ Executing({"move"})
  /\ Settle(Obj(Current.arg), "transfer")
  /\ UNCHANGED <<genVars, handlers>>

ExecRun ==
  /\ Executing({"run"})
  /\ Settle(Callback(Current.arg), "callback")
  /\ UNCHANGED <<genVars, handlers>>

ExecNop ==
  /\ Executing({"nop", "clear"})
  /\ NextInstr
  /\ UNCHANGED <<genVars, phase, handlers, pending, event>>

ExecBranch ==
  /\ Executing({"br", "condbr", "switch"})
  /\ \E b \in Targets(Current) : Goto(b)
  /\ UNCHANGED <<genVars, phase, handlers, pending, event>>

(* A clause for every exception is taken by every exception. *)
ExecMatch ==
  /\ Executing({"match"})
  /\ \E b \in {Current.yes} \cup (IF Current.arg = 1 THEN {} ELSE {Current.no}) : Goto(b)
  /\ UNCHANGED <<genVars, phase, handlers, pending, event>>

ExecTry ==
  /\ Executing({"try"})
  /\ Stack!Enter(Current.no)
  /\ Goto(Current.yes)
  /\ UNCHANGED <<genVars, phase, pending, event>>

ExecTryLeave ==
  /\ Executing({"tryleave"})
  /\ Stack!Leave
  /\ NextInstr
  /\ UNCHANGED <<genVars, phase, pending, event>>

(* A throw statement, or a call that ends in an exception: the longjmp     *)
(* goes to the innermost handler, past everything else.                    *)
ExecThrow ==
  /\ Executing({"throw", "call"})
  /\ handlers # <<>>
  /\ Goto(Stack!Top)
  /\ Stack!Raise
  /\ UNCHANGED <<genVars, phase, pending, event>>

ExecUncaught ==
  /\ Executing({"throw", "call"})
  /\ handlers = <<>>
  /\ phase' = "aborted"
  /\ UNCHANGED <<genVars, at, handlers, pending, event>>

ExecCall ==
  /\ Executing({"call"})
  /\ NextInstr
  /\ UNCHANGED <<genVars, phase, handlers, pending, event>>

ExecRet ==
  /\ Executing({"ret"})
  /\ phase' = "done"
  /\ UNCHANGED <<genVars, at, handlers, pending, event>>

Halted ==
  /\ phase \in Ended
  /\ UNCHANGED vars

Execute ==
  ExecNew \/ ExecArm \/ ExecDestroy \/ ExecMove \/ ExecRun \/ ExecNop
  \/ ExecBranch \/ ExecMatch \/ ExecTry \/ ExecTryLeave \/ ExecThrow
  \/ ExecUncaught \/ ExecCall \/ ExecRet

Next == GenStep \/ Verify \/ Execute \/ Halted

Spec == Init /\ [][Next]_vars

-----------------------------------------------------------------------------
(* Properties. *)

Promise == INSTANCE Lifetimes WITH
  status <- CASE phase = "done" -> "finished"
              [] phase \in {"aborted", "fault", "rejected"} -> phase
              [] OTHER -> "active"

(* The code of every text is accepted by the verifier, and on whatever     *)
(* path it runs, every object is destroyed exactly once, last built first; *)
(* every defer come past runs exactly once, last first, with everything    *)
(* registered before it still alive; and the function does not return      *)
(* while it owes anything (generateReturn, popCleanupScope, verifyModule). *)
KeepsPromise == Promise!Spec

(* Wherever control is, the handlers installed are those of the try bodies *)
(* it is in: an exception goes to the catch clauses of the innermost one,  *)
(* whichever way control came here, and no handler outlives its function   *)
(* (generateTry, lplrt.c).  The branch that leaves a try body comes after  *)
(* __lpl_try_leave and is the one exception.                               *)
HandlersMatchNesting ==
  /\ phase = "running" /\ Current.op # "br" => handlers = code[at[1]].within
  /\ phase = "done" => handlers = <<>>

(* No object is destroyed that is not alive - never built, or destroyed    *)
(* before - and no deferred statement runs that control did not come past. *)
NoFault == phase # "fault"

(* MANUAL.md:1433, 1442 and 1468: the cleanup of an object fires on every  *)
(* path out of its scope (emitCleanupsForScope, emitCleanups).             *)
NothingLeftOwed == phase = "done" => pending = <<>>

(* MANUAL.md:1186 and 1194: a finally block runs whatever way control      *)
(* leaves its try statement (generateTry).  The callbacks of a text        *)
(* without defer statements are its finally blocks.                        *)
FinallyAlwaysRuns ==
  phase = "done" => \A k \in 1..Len(pending) : pending[k] \notin Callbacks
=============================================================================
