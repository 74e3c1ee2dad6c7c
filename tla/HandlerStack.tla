---------------------------- MODULE HandlerStack ----------------------------
(***************************************************************************)
(* The stack of exception handlers a thread of an LPL program sees: the    *)
(* abstract form of the __lpl_try_* and __lpl_throw entry points of        *)
(* runtime/lplrt.c.  ExceptionRuntime implements it with the array and the *)
(* index of the C code; ScopeCodeGen runs generated code against it.       *)
(***************************************************************************)
EXTENDS Sequences, Naturals

CONSTANT Handlers   (* places a longjmp may come back to *)

VARIABLES
  handlers,   (* the handlers entered and not left, innermost last *)
  control     (* where an exception has last sent control          *)

Init == handlers = <<>>

Top == handlers[Len(handlers)]

Pop(s) == SubSeq(s, 1, Len(s) - 1)

(* A try statement is entered. *)
Enter(h) == handlers' = Append(handlers, h)

(* A try body ends without an exception: its handler goes.  With no        *)
(* handler there is nothing to do.                                         *)
Leave == handlers' = IF handlers = <<>> THEN handlers ELSE Pop(handlers)

(* An exception is raised with a handler in place: control goes to the     *)
(* innermost one, which is consumed by it.                                 *)
Raise ==
  /\ handlers # <<>>
  /\ control' = Top
  /\ handlers' = Pop(handlers)

Next ==
  \/ \E h \in Handlers : Enter(h) /\ UNCHANGED control
  \/ Leave /\ UNCHANGED control
  \/ Raise

Spec == Init /\ [][Next]_<<handlers, control>>
=============================================================================
