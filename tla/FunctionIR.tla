----------------------------- MODULE FunctionIR -----------------------------
(***************************************************************************)
(* The part of LLVM IR that decides when objects live and die: basic       *)
(* blocks of instructions, terminators, and the structural rule of the IR  *)
(* verifier.  An instruction here stands for the group of calls codegen    *)
(* emits together (a destructor call and its free, for instance).          *)
(*                                                                         *)
(*   new n, destroy n   the object declared by statement n is built, or    *)
(*                      destroyed (and freed, for an owner)                *)
(*   move n             its value is read by a move expression             *)
(*   run n              the body of defer (or finally) n starts            *)
(*   arm n              no code: marks the place where control comes past  *)
(*                      the defer statement (or the try of a finally) n    *)
(*   call               a call to code that may throw                      *)
(*   throw              __lpl_throw                                        *)
(*   try                __lpl_try_enter, setjmp and the branch on it:      *)
(*                      "yes" is the body, "no" the place a longjmp        *)
(*                      comes back to                                      *)
(*   tryleave, clear    __lpl_try_leave, __lpl_exception_clear             *)
(*   match              __lpl_exception_is_type and the branch on it       *)
(*   switch n           a branch to one of the n blocks from "yes" on, or  *)
(*                      to "no"                                            *)
(***************************************************************************)
EXTENDS Integers, Sequences

Terminators == {"br", "condbr", "switch", "try", "match", "ret", "unreachable"}

Ops == Terminators \cup
       {"new", "destroy", "move", "arm", "run", "call", "throw",
        "tryleave", "clear", "nop"}

Instr == [op : Ops, arg : Nat, yes : Nat, no : Nat]

(* A block belongs to a function, which is named by its entry block.  It   *)
(* remembers, for the properties only, the try bodies of the text it lies  *)
(* in: their dispatch blocks, outermost first.                             *)
Block == [is : Seq(Instr), fn : Nat, within : Seq(Nat)]

Op(op, n) == [op |-> op, arg |-> n, yes |-> 0, no |-> 0]

Branch(op, n, y, f) == [op |-> op, arg |-> n, yes |-> y, no |-> f]

Br(b) == Branch("br", 0, b, b)

NewBlock(fn, within) == [is |-> <<>>, fn |-> fn, within |-> within]

(* The blocks an instruction may branch to. *)
Targets(i) ==
  CASE i.op = "switch" -> i.yes..(i.yes + i.arg - 1) \cup {i.no}
    [] i.op \in Terminators \ {"switch", "ret", "unreachable"} -> {i.yes, i.no}
    [] OTHER -> {}

(* BasicBlock::getTerminator: the last instruction, when it ends a block. *)
Terminated(block) ==
  /\ block.is # <<>>
  /\ block.is[Len(block.is)].op \in Terminators

(* The block declares the object n. *)
Declares(block, n) == \E i \in 1..Len(block.is) : block.is[i] = Op("new", n)

(* What llvm::verifyModule asks of the block b: one terminator, at its     *)
(* end; branches and objects of its own function only.                     *)
WellFormed(code, b) ==
  /\ code[b].is # <<>>
  /\ \A i \in 1..Len(code[b].is) :
       LET instr == code[b].is[i]
       IN  /\ instr.op \in Terminators <=> i = Len(code[b].is)
           /\ \A t \in Targets(instr) : code[t].fn = code[b].fn
           /\ instr.op \in {"destroy", "move"} =>
                \E d \in 1..Len(code) : code[d].fn = code[b].fn /\ Declares(code[d], instr.arg)
=============================================================================
