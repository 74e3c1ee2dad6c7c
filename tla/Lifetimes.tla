----------------------------- MODULE Lifetimes -----------------------------
(***************************************************************************)
(* What LPL promises about the end of an object's life and about deferred  *)
(* statements, with no mention of scopes, of control flow or of how the    *)
(* compiler does it (MANUAL.md, "Memory Management" and "Defer").          *)
(*                                                                         *)
(* A running function has a list of things it still has to do: objects it  *)
(* has built and must destroy, and callbacks (deferred statements, finally *)
(* blocks) it has come past and must run.  The list is in the order in     *)
(* which they were registered.                                             *)
(***************************************************************************)
EXTENDS Sequences, Naturals

CONSTANTS
  Objects,    (* objects whose destruction is the compiler's business *)
  Callbacks   (* deferred statements and finally blocks               *)

VARIABLES
  pending,    (* what is still owed, oldest first                     *)
  event,      (* what the latest change of pending was: giving an     *)
              (* object away and destroying it look the same without  *)
  status      (* "active", then "finished" or "aborted"               *)

lifeVars == <<pending, event, status>>

Items == Objects \cup Callbacks

TypeOK ==
  /\ pending \in Seq(Items)
  /\ event \in {"none", "register", "callback", "destroy", "transfer"}
  /\ status \in {"active", "finished", "aborted"}

Init ==
  /\ pending = <<>>
  /\ event = "none"
  /\ status = "active"

(* The list without its k-th element. *)
Without(s, k) == [i \in 1..(Len(s) - 1) |-> IF i < k THEN s[i] ELSE s[i + 1]]

(* The k-th element is the last one of the class S. *)
LastOf(S, k) ==
  /\ pending[k] \in S
  /\ \A j \in (k + 1)..Len(pending) : pending[j] \notin S

(* An object is built, or a callback is come past.  Nothing is owed twice. *)
Register(x) ==
  /\ status = "active"
  /\ \A k \in 1..Len(pending) : pending[k] # x
  /\ pending' = Append(pending, x)
  /\ event' = "register"
  /\ UNCHANGED status

(* Callbacks run last-in first-out.  Everything registered before a        *)
(* callback is still there when it runs: it may use those objects.         *)
RunCallback ==
  /\ status = "active"
  /\ \E k \in 1..Len(pending) :
       /\ LastOf(Callbacks, k)
       /\ pending' = Without(pending, k)
  /\ event' = "callback"
  /\ UNCHANGED status

(* Objects are destroyed last-in first-out, and never while a callback     *)
(* registered after them has yet to run.                                   *)
Destroy ==
  /\ status = "active"
  /\ \E k \in 1..Len(pending) :
       /\ LastOf(Objects, k)
       /\ \A j \in (k + 1)..Len(pending) : pending[j] \notin Callbacks
       /\ pending' = Without(pending, k)
  /\ event' = "destroy"
  /\ UNCHANGED status

(* Ownership of an object goes elsewhere: it is no longer owed. *)
Transfer ==
  /\ status = "active"
  /\ \E k \in 1..Len(pending) :
       /\ pending[k] \in Objects
       /\ pending' = Without(pending, k)
  /\ event' = "transfer"
  /\ UNCHANGED status

(* The function returns only when nothing is owed. *)
Finish ==
  /\ status = "active"
  /\ pending = <<>>
  /\ status' = "finished"
  /\ UNCHANGED <<pending, event>>

(* An exception nobody handles ends the process and every debt with it. *)
Abort ==
  /\ status = "active"
  /\ status' = "aborted"
  /\ UNCHANGED <<pending, event>>

Next ==
  \/ \E x \in Items : Register(x)
  \/ RunCallback
  \/ Destroy
  \/ Transfer
  \/ Finish
  \/ Abort

Spec == Init /\ [][Next]_lifeVars
=============================================================================
