-------------------------- MODULE ExceptionRuntime --------------------------
(***************************************************************************)
(* The exception support of runtime/lplrt.c: a fixed array of jmp_bufs     *)
(* with the index of the innermost one, the exception in flight, and the   *)
(* table of parent classes that the type test of a catch clause walks.     *)
(* The callers are the calls ScopeCodeGen's try, throw and catch emit, and *)
(* the registrations at the start of main.                                 *)
(***************************************************************************)
EXTENDS Integers, Sequences, FiniteSets

CONSTANTS
  Handlers,      (* contents of a jmp_buf: where a longjmp comes back       *)
  NoEnv,         (* a jmp_buf no setjmp has filled                          *)
  MaxHandlers,   (* LPL_MAX_EXCEPTION_HANDLERS                              *)
  Types,         (* names of classes                                        *)
  NoType,        (* the null pointer for a type name                        *)
  MaxTypes       (* LPL_MAX_EXCEPTION_TYPES                                 *)

ASSUME HandlersAssumption == NoEnv \notin Handlers
ASSUME TypesAssumption == NoType \notin Types
ASSUME LimitsAssumption == MaxHandlers \in Nat \ {0} /\ MaxTypes \in Nat

VARIABLES
  exception_stack,      (* the array                                        *)
  exception_stack_top,  (* its last used index, -1 when there is none       *)
  current_type,         (* current_exception_type: of the exception thrown  *)
                        (* and not cleared                                  *)
  type_relations,       (* the table, in the order of registration          *)
  declared,             (* the parent of each class of the program that has *)
                        (* one: what the table is meant to hold             *)
  landed,               (* the jmp_buf the latest longjmp took              *)
  process               (* starting, running, or ended by abort()           *)

vars == <<exception_stack, exception_stack_top, current_type, type_relations,
          declared, landed, process>>

Slots == 0..(MaxHandlers - 1)

TypeOK ==
  /\ exception_stack \in [Slots -> Handlers \cup {NoEnv}]
  /\ exception_stack_top \in -1..MaxHandlers
  /\ current_type \in Types \cup {NoType}
  /\ type_relations \in Seq([child : Types, parent : Types])
  /\ declared \in SUBSET (Types \X Types)
  /\ landed \in Handlers \cup {NoEnv}
  /\ process \in {"starting", "running", "aborted"}

Init ==
  /\ exception_stack = [i \in Slots |-> NoEnv]
  /\ exception_stack_top = -1
  /\ current_type = NoType
  /\ type_relations = <<>>
  /\ declared = {}
  /\ landed = NoEnv
  /\ process = "starting"

-----------------------------------------------------------------------------
(* The classes of a program. *)

(* u is t or one of its ancestors by the relation rel of pairs <<child,    *)
(* parent>>: it is in every set that has t and is closed under rel.        *)
IsAncestor(rel, t, u) ==
  \A S \in SUBSET Types :
    t \in S /\ (\A p \in rel : p[1] \in S => p[2] \in S) => u \in S

(* __lpl_exception_register_type, called at the start of main for a class  *)
(* with a parent.  A class has one parent and is not its own ancestor.     *)
(* When the table is full the call does nothing.                           *)
RegisterType(child, parent) ==
  /\ process = "starting"
  /\ \A p \in declared : p[1] # child
  /\ ~IsAncestor(declared, parent, child)
  /\ declared' = declared \cup {<<child, parent>>}
  /\ type_relations' =
       IF Len(type_relations) < MaxTypes
       THEN Append(type_relations, [child |-> child, parent |-> parent])
       ELSE type_relations
  /\ UNCHANGED <<exception_stack, exception_stack_top, current_type, landed, process>>

(* The registrations are done; the user's main is called. *)
Start ==
  /\ process = "starting"
  /\ process' = "running"
  /\ UNCHANGED <<exception_stack, exception_stack_top, current_type,
                 type_relations, declared, landed>>

-----------------------------------------------------------------------------
(* The handlers. *)

(* Mutant of TryEnter: the limit is one too high. *)
TryEnterLate(h) ==
  /\ process = "running"
  /\ exception_stack_top' = exception_stack_top + 1
  /\ IF exception_stack_top + 1 > MaxHandlers
     THEN /\ process' = "aborted"
          /\ UNCHANGED exception_stack
     ELSE /\ exception_stack' = [exception_stack EXCEPT ![exception_stack_top + 1] = h]
          /\ UNCHANGED process
  /\ UNCHANGED <<current_type, type_relations, declared, landed>>

(* __lpl_try_enter, and the setjmp that fills the slot it returns.  The    *)
(* index goes up before the limit is looked at.                            *)
TryEnter(h) ==
  /\ process = "running"
  /\ exception_stack_top' = exception_stack_top + 1
  /\ IF exception_stack_top + 1 >= MaxHandlers
     THEN /\ process' = "aborted"
          /\ UNCHANGED exception_stack
     ELSE /\ exception_stack' = [exception_stack EXCEPT ![exception_stack_top + 1] = h]
          /\ UNCHANGED process
  /\ UNCHANGED <<current_type, type_relations, declared, landed>>

(* Mutant of TryLeave: no look at the bottom of the stack. *)
TryLeaveUnchecked ==
  /\ process = "running"
  /\ exception_stack_top' = exception_stack_top - 1
  /\ UNCHANGED <<exception_stack, current_type, type_relations, declared, landed, process>>

(* __lpl_try_leave. *)
TryLeave ==
  /\ process = "running"
  /\ exception_stack_top' =
       IF exception_stack_top >= 0 THEN exception_stack_top - 1 ELSE exception_stack_top
  /\ UNCHANGED <<exception_stack, current_type, type_relations, declared, landed, process>>

(* Mutant of Throw: the handler taken stays on the stack. *)
ThrowKeepsHandler(t) ==
  /\ process = "running"
  /\ current_type' = t
  /\ IF exception_stack_top < 0
     THEN process' = "aborted" /\ UNCHANGED landed
     ELSE landed' = exception_stack[exception_stack_top] /\ UNCHANGED process
  /\ UNCHANGED <<exception_stack, exception_stack_top, type_relations, declared>>

(* __lpl_throw: the exception is recorded; with a handler, the handler is  *)
(* taken off the stack and jumped to, without one the process ends.        *)
Throw(t) ==
  /\ process = "running"
  /\ current_type' = t
  /\ IF exception_stack_top < 0
     THEN /\ process' = "aborted"
          /\ UNCHANGED <<exception_stack_top, landed>>
     ELSE /\ landed' = exception_stack[exception_stack_top]
          /\ exception_stack_top' = exception_stack_top - 1
          /\ UNCHANGED process
  /\ UNCHANGED <<exception_stack, type_relations, declared>>

(* __lpl_exception_clear, at the end of a catch clause. *)
Clear ==
  /\ process = "running"
  /\ current_type' = NoType
  /\ UNCHANGED <<exception_stack, exception_stack_top, type_relations, declared, landed, process>>

Halted ==
  /\ process = "aborted"
  /\ UNCHANGED vars

Next ==
  \/ \E c, p \in Types : RegisterType(c, p)
  \/ Start
  \/ \E h \in Handlers : TryEnter(h)
  \/ TryLeave
  \/ \E t \in Types : Throw(t)
  \/ Clear
  \/ Halted

Spec == Init /\ [][Next]_vars

-----------------------------------------------------------------------------
(* The type test. *)

(* Mutant of Parent: the last entry for a class counts only if it is the   *)
(* newest of the table.                                                    *)
ParentOfNewest(t) ==
  LET n == Len(type_relations)
  IN  IF n > 0 /\ type_relations[n].child = t THEN type_relations[n].parent ELSE NoType

(* The first entry of the table for a class. *)
Parent(t) ==
  LET found == {i \in 1..Len(type_relations) : type_relations[i].child = t}
  IN  IF found = {} THEN NoType
      ELSE type_relations[CHOOSE i \in found : \A j \in found : i <= j].parent

(* The values of the loop variable cur, one per round: up to one round per *)
(* entry of the table finds the root.                                      *)
Walk(t) ==
  LET cur[n \in 0..Len(type_relations)] ==
        IF n = 0 THEN t
        ELSE IF cur[n - 1] = NoType THEN NoType ELSE Parent(cur[n - 1])
  IN  cur

(* __lpl_exception_is_type(target) while an exception of type t is in      *)
(* flight.                                                                 *)
IsType(t, target) ==
  \E n \in 0..Len(type_relations) : Walk(t)[n] = target

-----------------------------------------------------------------------------
(* Properties. *)

(* The innermost slots hold real jmp_bufs and, while the process lives,    *)
(* the index is one of the array's: no throw jumps to a buffer that was    *)
(* never filled, no try writes past the array (lplrt.c, __lpl_try_enter    *)
(* and __lpl_throw).                                                       *)
UsedSlotsFilled ==
  /\ process # "aborted" => exception_stack_top < MaxHandlers
  /\ \A i \in Slots : i <= exception_stack_top => exception_stack[i] \in Handlers

(* What the array and its index stand for. *)
InUse ==
  [i \in 1..(IF exception_stack_top < MaxHandlers
             THEN exception_stack_top + 1 ELSE MaxHandlers) |->
     exception_stack[i - 1]]

Abstract == INSTANCE HandlerStack WITH handlers <- InUse, control <- landed

(* The array with its index behaves as a stack of handlers: slots that are *)
(* left over above the index never come back (lplrt.c:97-130).             *)
ImplementsStack == Abstract!Spec

(* The type test of a catch clause takes an exception exactly if the       *)
(* clause's class is the exception's class or one of its ancestors in the  *)
(* program (runtime/lplrt.h:79).                                           *)
TypeTestIsSubclass ==
  process = "running" =>
    \A t, u \in Types : IsType(t, u) <=> IsAncestor(declared, t, u)
=============================================================================
