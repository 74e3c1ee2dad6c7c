---------------------------- MODULE MutexThreads ----------------------------
(***************************************************************************)
(* Threads that follow the mutex pattern of the manual (MANUAL.md:1558,    *)
(* examples/mutex.lpl) on one Mutex of stdlib/sync.lpl, which is a pthread *)
(* mutex behind runtime/modules/lpl_sync.c, and that throw and catch.  The *)
(* exception handlers and the exception in flight belong to the process    *)
(* and not to a thread (runtime/lplrt.c), so the threads share them.       *)
(*                                                                         *)
(* LPL has no statement that starts a thread; C code linked to the program *)
(* does.  A thread runs a function of the following shapes for some        *)
(* rounds.  A call of the mutex is one step; one of the exception runtime  *)
(* is two, in which it reads the index of the handlers and writes it: the  *)
(* index is a plain int, so calls of two threads may miss each other's     *)
(* changes.                                                                *)
(*   inside    lock; defer unlock; try { work } catch { }                  *)
(*   outside   try { lock; defer unlock; work } catch { }                  *)
(* and the same with tryLock, which leaves the round if the mutex is held. *)
(***************************************************************************)
EXTENDS Integers, Functions

CONSTANTS
  Threads,
  None,        (* no thread                                                *)
  Shapes,      (* the shapes the functions have                            *)
  Disciplined, (* work throws only if no function has its try outside      *)
  Rounds,      (* the most calls a thread makes: bounds the model          *)
  MaxCalls,    (* the most calls all threads make: bounds the model        *)
  MaxHandlers  (* LPL_MAX_EXCEPTION_HANDLERS                               *)

ASSUME ThreadsAssumption == None \notin Threads /\ Rounds \in Nat /\ MaxCalls \in Nat
ASSUME HandlersAssumption == MaxHandlers \in Nat \ {0}
ASSUME ShapesAssumption == Shapes \subseteq {"inside", "outside"} /\ Disciplined \in BOOLEAN

VARIABLES
  pc,        (* where each thread is                                       *)
  shape,     (* of the function it is in                                   *)
  rounds,    (* calls it has still to begin                                *)
  handle,    (* the mutex: "none", "live" or "destroyed"                   *)
  owner,     (* the thread that has locked it                              *)
  exception_stack,      (* the process's handlers, each named by the thread *)
                        (* whose frame it returns to                       *)
  exception_stack_top,  (* the index of the innermost, -1 if there is none *)
  seen,      (* the index as each thread has read it, -1 between calls     *)
  calling,   (* the threads that have read it and have yet to write it     *)
  landed,    (* the handler the latest longjmp went to                     *)
  thrower,   (* by whom it was thrown                                      *)
  current    (* who threw the exception in flight                          *)

mutexVars == <<handle, owner>>
stackVars == <<exception_stack, exception_stack_top, seen, calling>>
thrownVars == <<landed, thrower, current>>
vars == <<pc, shape, rounds, mutexVars, stackVars, thrownVars>>

Slots == 0..(MaxHandlers - 1)

(* start       before a call, or done with all                             *)
(* entered     has called setjmp; of an "outside" function: wants the lock *)
(* holding     has the lock, and a deferred unlock                         *)
(* trying      in the try body, with the lock                              *)
(* unlocked    of an "outside" function: at the end of the try body        *)
(* landing     has come back from a longjmp                                *)
(* left        out of the try statement                                    *)
Places == {"start", "entered", "holding", "trying", "unlocked", "landing", "left"}

TypeOK ==
  /\ pc \in [Threads -> Places]
  /\ shape \in [Threads -> {"inside", "outside"}]
  /\ rounds \in [Threads -> 0..Rounds]
  /\ handle \in {"none", "live", "destroyed"}
  /\ owner \in Threads \cup {None}
  /\ exception_stack \in [Slots -> Threads \cup {None}]
  /\ exception_stack_top \in Slots \cup {-1}
  /\ seen \in [Threads -> Slots \cup {-1}]
  /\ calling \subseteq Threads
  /\ {landed, thrower, current} \subseteq Threads \cup {None}

NoHandlers ==
  /\ exception_stack = [i \in Slots |-> None]
  /\ exception_stack_top = -1
  /\ seen = [t \in Threads |-> -1]
  /\ calling = {}

(* As many rounds as a thread may make, with all threads as MaxCalls allows. *)
RoundsToMake == {r \in [Threads -> 0..Rounds] : FoldFunction(LAMBDA n, m : n + m, 0, r) <= MaxCalls}

(* Mutant of Init: the constructor leaves the field as it is. *)
InitUnset ==
  /\ pc = [t \in Threads |-> "start"]
  /\ shape \in [Threads -> Shapes]
  /\ rounds \in RoundsToMake
  /\ handle = "unset"
  /\ owner = None
  /\ NoHandlers
  /\ landed = None /\ thrower = None /\ current = None

Init ==
  /\ pc = [t \in Threads |-> "start"]
  /\ shape \in [Threads -> Shapes]
  /\ rounds \in RoundsToMake
  /\ handle = "none"
  /\ owner = None
  /\ NoHandlers
  /\ landed = None /\ thrower = None /\ current = None

At(t, place) == pc[t] = place

Goto(t, place) == pc' = [pc EXCEPT ![t] = place]

Outside(t) == shape[t] = "outside"

-----------------------------------------------------------------------------
(* lpl_sync.c, called through the methods of Mutex. *)

(* The constructor, before the threads start. *)
Create ==
  /\ handle = "none"
  /\ handle' = "live"
  /\ UNCHANGED <<pc, shape, rounds, owner, stackVars, thrownVars>>

AllDone == \A t \in Threads : At(t, "start") /\ rounds[t] = 0

(* The destructor, when the function that declares it returns; it has      *)
(* waited for the threads.                                                 *)
Destroy ==
  /\ handle = "live" /\ AllDone
  /\ handle' = "destroyed"
  /\ UNCHANGED <<pc, shape, rounds, owner, stackVars, thrownVars>>

(* A thread comes to the call of lock or tryLock. *)
WantsLock(t) ==
  /\ handle = "live"
  /\ IF Outside(t) THEN At(t, "entered") ELSE At(t, "start") /\ rounds[t] > 0

(* The call is the start of the function unless the try is outside. *)
CountRound(t) ==
  rounds' = IF Outside(t) THEN rounds ELSE [rounds EXCEPT ![t] = @ - 1]

(* lock returns when the mutex is free. *)
Lock(t) ==
  /\ WantsLock(t)
  /\ owner = None
  /\ owner' = t
  /\ CountRound(t)
  /\ Goto(t, "holding")
  /\ UNCHANGED <<shape, handle, stackVars, thrownVars>>

(* Mutant of TryLockFails: the result of pthread_mutex_trylock is taken    *)
(* for its truth value, which is true when it has failed.                  *)
TryLockFailsInverted(t) ==
  /\ WantsLock(t)
  /\ owner # None
  /\ CountRound(t)
  /\ Goto(t, "holding")
  /\ UNCHANGED <<shape, mutexVars, stackVars, thrownVars>>

(* tryLock returns false; if it returns true it has done what lock does.   *)
TryLockFails(t) ==
  /\ WantsLock(t)
  /\ owner # None
  /\ CountRound(t)
  /\ Goto(t, IF Outside(t) THEN "unlocked" ELSE "start")
  /\ UNCHANGED <<shape, mutexVars, stackVars, thrownVars>>

(* Mutant of Unlock: the test of the handle is the wrong way round. *)
UnlockNothing(t) ==
  /\ IF Outside(t) THEN At(t, "trying") /\ t \notin calling ELSE At(t, "left")
  /\ handle = "live"
  /\ UNCHANGED owner
  /\ Goto(t, IF Outside(t) THEN "unlocked" ELSE "start")
  /\ UNCHANGED <<shape, rounds, handle, stackVars, thrownVars>>

(* The deferred unlock, when the scope of the lock ends. *)
Unlock(t) ==
  /\ IF Outside(t) THEN At(t, "trying") /\ t \notin calling ELSE At(t, "left")
  /\ handle = "live"
  /\ owner' = None
  /\ Goto(t, IF Outside(t) THEN "unlocked" ELSE "start")
  /\ UNCHANGED <<shape, rounds, handle, stackVars, thrownVars>>

-----------------------------------------------------------------------------
(* The try statement: the calls of lplrt.c that generateTry emits. *)

MayThrow == Disciplined => \A u \in Threads : ~Outside(u)

(* A thread comes to a call that changes the index: into the try body, out *)
(* of it, or __lpl_throw.                                                  *)
Enters(t) == IF Outside(t) THEN At(t, "start") /\ rounds[t] > 0 /\ handle = "live" ELSE At(t, "holding")
Leaves(t) == At(t, IF Outside(t) THEN "unlocked" ELSE "trying")
Throws(t) == At(t, "trying") /\ MayThrow

(* The call reads the index. *)
ReadTop(t) ==
  /\ t \notin calling
  /\ Enters(t) \/ Leaves(t) \/ Throws(t)
  /\ calling' = calling \cup {t}
  /\ seen' = [seen EXCEPT ![t] = exception_stack_top]
  /\ UNCHANGED <<pc, shape, rounds, mutexVars, exception_stack, exception_stack_top, thrownVars>>

(* The call goes on from what it has read, and returns. *)
WriteTop(t, top) ==
  /\ t \in calling
  /\ exception_stack_top' = top
  /\ calling' = calling \ {t}
  /\ seen' = [seen EXCEPT ![t] = -1]

(* __lpl_try_enter, and the setjmp on the slot it returns.  With no slot   *)
(* left it would abort; the runs have room for all the calls they make.    *)
TryEnter(t) ==
  /\ Enters(t)
  /\ seen[t] + 1 < MaxHandlers
  /\ WriteTop(t, seen[t] + 1)
  /\ exception_stack' = [exception_stack EXCEPT ![seen[t] + 1] = t]
  /\ rounds' = IF Outside(t) THEN [rounds EXCEPT ![t] = @ - 1] ELSE rounds
  /\ Goto(t, IF Outside(t) THEN "entered" ELSE "trying")
  /\ UNCHANGED <<shape, mutexVars, thrownVars>>

(* With the lock in an "outside" function the work begins at once. *)
Work(t) ==
  /\ Outside(t) /\ At(t, "holding")
  /\ Goto(t, "trying")
  /\ UNCHANGED <<shape, rounds, mutexVars, stackVars, thrownVars>>

(* __lpl_throw: the exception becomes the one in flight, the innermost     *)
(* handler of the process goes, and the thread goes on where its jmp_buf   *)
(* says.  If that is in the frame of another thread nothing is defined;    *)
(* the model lets the thread go on in its own frame.                       *)
Throw(t) ==
  /\ Throws(t)
  /\ seen[t] >= 0
  /\ WriteTop(t, seen[t] - 1)
  /\ current' = t
  /\ thrower' = t
  /\ landed' = exception_stack[seen[t]]
  /\ Goto(t, "landing")
  /\ UNCHANGED <<shape, rounds, mutexVars, exception_stack>>

(* Mutant of TryLeave: the branch out of the body goes back to its start. *)
TryLeaveRepeats(t) ==
  /\ Leaves(t)
  /\ WriteTop(t, IF seen[t] >= 0 THEN seen[t] - 1 ELSE exception_stack_top)
  /\ Goto(t, "holding")
  /\ UNCHANGED <<shape, rounds, mutexVars, exception_stack, thrownVars>>

(* The body ends without an exception.  With no handler, nothing is done.  *)
TryLeave(t) ==
  /\ Leaves(t)
  /\ WriteTop(t, IF seen[t] >= 0 THEN seen[t] - 1 ELSE exception_stack_top)
  /\ Goto(t, IF Outside(t) THEN "start" ELSE "left")
  /\ UNCHANGED <<shape, rounds, mutexVars, exception_stack, thrownVars>>

(* The catch clause takes the exception in flight and clears it. *)
Catch(t) ==
  /\ At(t, "landing")
  /\ current' = None
  /\ Goto(t, IF Outside(t) THEN "start" ELSE "left")
  /\ UNCHANGED <<shape, rounds, mutexVars, stackVars, landed, thrower>>

-----------------------------------------------------------------------------

Step(t) ==
  \/ Lock(t)
  \/ TryLockFails(t)
  \/ Unlock(t)
  \/ ReadTop(t)
  \/ TryEnter(t)
  \/ Work(t)
  \/ Throw(t)
  \/ TryLeave(t)
  \/ Catch(t)

Finished == handle = "destroyed" /\ UNCHANGED vars

Next == Create \/ Destroy \/ Finished \/ \E t \in Threads : Step(t)

(* A thread that can go on does so: the scheduler of the operating system. *)
(* Nothing is assumed of who gets a mutex that several wait for.           *)
Fairness == WF_vars(Create) /\ WF_vars(Destroy) /\ \A t \in Threads : WF_vars(Step(t))

Spec == Init /\ [][Next]_vars /\ Fairness

-----------------------------------------------------------------------------

(* A throw lands in the frame of the thread that threw, and what its catch *)
(* clause looks at is its own exception, although handlers and exception   *)
(* are shared: with every try inside a critical section the mutex guards   *)
(* them too (lplrt.c:88).                                                  *)
ThrowsStayHome ==
  /\ landed = thrower
  /\ \A t \in Threads : At(t, "landing") => current = t

(* "The mutex is ALWAYS unlocked when this scope ends" (MANUAL.md:1571):   *)
(* a thread that is out of the function does not own it.                   *)
UnlockedAtScopeEnd ==
  owner # None => ~At(owner, "start") /\ ~At(owner, "unlocked")

(* Every call of lock returns, every thread comes to the end of its last   *)
(* round, and the mutex can be destroyed.                                  *)
EveryoneFinishes == <>(handle = "destroyed")
=============================================================================
