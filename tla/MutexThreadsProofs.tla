-------------------------- MODULE MutexThreadsProofs --------------------------
(***************************************************************************)
(* Theorems about MutexThreads, for any number of threads and rounds: the  *)
(* state is well typed, and threads that keep to the discipline never take *)
(* each other's handlers or exceptions and never leave with the lock.      *)
(*                                                                         *)
(* The inductive invariant ties the owner of the mutex to the places where *)
(* a thread has the lock (OwnerKnown) and, if every try statement is       *)
(* inside the critical section, the handlers of the process and the calls  *)
(* that change them to the owner's place (HandlersOfOwner).  If some try statement is outside, handlers of *)
(* several threads mix and changes of the index get lost, but nothing is thrown (QuietOutside).              *)
(***************************************************************************)
EXTENDS MutexThreads, TLAPS

-----------------------------------------------------------------------------
(* The invariant. *)

HasLock == {"holding", "trying", "landing", "left"}

(* A thread is where it has the lock exactly if it is the owner; so there  *)
(* is at most one.                                                         *)
OwnerKnown == \A t \in Threads : pc[t] \in HasLock <=> owner = t

(* The places of each shape. *)
PlacesOfShape ==
  \A t \in Threads :
    IF Outside(t) THEN pc[t] \notin {"left", "landing"} ELSE pc[t] \notin {"entered", "unlocked"}

AllInside == \A t \in Threads : ~Outside(t)

(* With all try statements inside, the one handler there may be is that of *)
(* the owner, who alone may be in a call that changes the index and has    *)
(* read it as it is.                                                       *)
HandlersOfOwner ==
  AllInside =>
    /\ \A t \in calling : owner = t /\ pc[t] \in {"holding", "trying"} /\ seen[t] = exception_stack_top
    /\ IF owner # None /\ At(owner, "trying")
       THEN exception_stack_top = 0 /\ exception_stack[0] = owner
       ELSE exception_stack_top = -1

QuietOutside ==
  ~AllInside => landed = None /\ thrower = None /\ \A t \in Threads : ~At(t, "landing")

(* The hypothesis of the theorems: work that throws is in functions that   *)
(* have their try statements inside.                                       *)
Careful == Disciplined \/ "outside" \notin Shapes

(* What it comes to in a state. *)
ThrowsAreInside == Disciplined \/ AllInside

IInv ==
  /\ TypeOK
  /\ ThrowsAreInside
  /\ OwnerKnown
  /\ PlacesOfShape
  /\ HandlersOfOwner
  /\ QuietOutside
  /\ ThrowsStayHome

-----------------------------------------------------------------------------
(* Type correctness needs nothing else. *)

LEMMA InitType == Init => TypeOK
<1> SUFFICES ASSUME Init PROVE TypeOK
  OBVIOUS
<1>1. shape \in [Threads -> {"inside", "outside"}]
  BY ShapesAssumption DEF Init
<1>2. rounds \in [Threads -> 0..Rounds]
  BY DEF Init, RoundsToMake
<1>3. exception_stack \in [Slots -> Threads \cup {None}] /\ seen \in [Threads -> Slots \cup {-1}]
  BY DEF Init, NoHandlers
<1> QED BY <1>1, <1>2, <1>3 DEF Init, NoHandlers, TypeOK, Places

(* Every call keeps the types. *)
LEMMA NextType == TypeOK /\ [Next]_vars => TypeOK'
<1> SUFFICES ASSUME TypeOK, [Next]_vars PROVE TypeOK'
  OBVIOUS
<1> USE ThreadsAssumption, HandlersAssumption DEF TypeOK, Places, Goto, mutexVars, stackVars, thrownVars
<1>1. CASE Create \/ Destroy \/ Finished \/ UNCHANGED vars
  BY <1>1 DEF Create, Destroy, Finished, vars
<1>2. ASSUME NEW t \in Threads, Step(t) PROVE TypeOK'
  <2>1. CASE Lock(t)
    BY <2>1 DEF Lock, WantsLock, CountRound
  <2>2. CASE TryLockFails(t)
    BY <2>2 DEF TryLockFails, WantsLock, CountRound
  <2>3. CASE Unlock(t)
    BY <2>3 DEF Unlock
  <2>4. CASE ReadTop(t)
    BY <2>4 DEF ReadTop
  <2>5. ASSUME NEW top \in Slots \cup {-1}, WriteTop(t, top)
        PROVE  /\ exception_stack_top' \in Slots \cup {-1}
               /\ seen' \in [Threads -> Slots \cup {-1}] /\ calling' \subseteq Threads
    BY <2>5 DEF WriteTop
  <2>6. CASE TryEnter(t)
    <3>1. rounds' \in [Threads -> 0..Rounds]
      BY <2>6 DEF TryEnter, Enters
    <3>2. seen[t] + 1 \in Slots
      BY <2>6 DEF TryEnter, Slots
    <3>3. exception_stack' \in [Slots -> Threads \cup {None}]
      BY <2>6, <3>2 DEF TryEnter
    <3>4. /\ exception_stack_top' \in Slots \cup {-1}
          /\ seen' \in [Threads -> Slots \cup {-1}] /\ calling' \subseteq Threads
      BY <2>5, <2>6, <3>2 DEF TryEnter
    <3>5. pc' \in [Threads -> Places]
      BY <2>6 DEF TryEnter
    <3> QED BY <2>6, <3>1, <3>3, <3>4, <3>5 DEF TryEnter
  <2>7. CASE Work(t)
    BY <2>7 DEF Work
  <2>8. CASE Throw(t)
    <3>1. seen[t] \in Slots /\ seen[t] - 1 \in Slots \cup {-1}
      BY <2>8 DEF Throw, Slots
    <3>2. /\ exception_stack_top' \in Slots \cup {-1}
          /\ seen' \in [Threads -> Slots \cup {-1}] /\ calling' \subseteq Threads
      BY <2>5, <2>8, <3>1 DEF Throw
    <3>3. landed' \in Threads \cup {None}
      BY <2>8, <3>1 DEF Throw
    <3> QED BY <2>8, <3>2, <3>3 DEF Throw
  <2>9. CASE TryLeave(t)
    <3>1. (IF seen[t] >= 0 THEN seen[t] - 1 ELSE exception_stack_top) \in Slots \cup {-1}
      <4>1. seen[t] \in Slots \cup {-1} /\ exception_stack_top \in Slots \cup {-1}
        OBVIOUS
      <4>2. CASE seen[t] >= 0
        BY <4>1, <4>2 DEF Slots
      <4>3. CASE ~(seen[t] >= 0)
        BY <4>1, <4>3
      <4> QED BY <4>2, <4>3
    <3>2. /\ exception_stack_top' \in Slots \cup {-1}
          /\ seen' \in [Threads -> Slots \cup {-1}] /\ calling' \subseteq Threads
      BY <2>5, <2>9, <3>1 DEF TryLeave
    <3> QED BY <2>9, <3>2 DEF TryLeave
  <2>10. CASE Catch(t)
    BY <2>10 DEF Catch
  <2> QED BY <1>2, <2>1, <2>2, <2>3, <2>4, <2>6, <2>7, <2>8, <2>9, <2>10 DEF Step
<1> QED BY <1>1, <1>2 DEF Next

(* For any number of threads, rounds and shapes of functions, disciplined  *)
(* or not, the state of mutex, threads and runtime is well typed           *)
(* (lpl_sync.c, lplrt.c:88-135).                                           *)
THEOREM TypeCorrect == Spec => []TypeOK
<1> QED BY InitType, NextType, PTL DEF Spec

-----------------------------------------------------------------------------
(* The invariant is inductive. *)

LEMMA InitInv == Careful /\ Init => IInv
<1> SUFFICES ASSUME Careful, Init PROVE IInv
  OBVIOUS
<1>1. TypeOK
  BY InitType
<1>2. ThrowsAreInside
  BY Zenon, ShapesAssumption DEF Careful, Init, ThrowsAreInside, AllInside, Outside
<1> QED BY <1>1, <1>2, ThreadsAssumption
      DEF Init, IInv, OwnerKnown, PlacesOfShape, HandlersOfOwner, QuietOutside, ThrowsStayHome,
          HasLock, At, NoHandlers

(* A call of thread t that leaves the handlers and the exception alone and *)
(* does not touch the lock either but for taking it or letting it go.      *)
LEMMA LockSteps ==
  ASSUME IInv, NEW t \in Threads, Lock(t) \/ TryLockFails(t) \/ Unlock(t) \/ Work(t)
  PROVE  IInv'
<1> USE DEF mutexVars, stackVars, thrownVars
<1>1. TypeOK'
  BY NextType DEF IInv, Next, Step
<1>2. /\ OwnerKnown' /\ PlacesOfShape' /\ ThrowsStayHome'
      /\ AllInside' = AllInside /\ QuietOutside' /\ ThrowsAreInside'
  BY ThreadsAssumption
     DEF IInv, TypeOK, Places, OwnerKnown, PlacesOfShape, ThrowsStayHome, QuietOutside,
         ThrowsAreInside, AllInside,
         HasLock, Lock, TryLockFails, Unlock, Work, WantsLock, CountRound, Goto, At, Outside
<1>3. HandlersOfOwner'
  BY <1>2, ThreadsAssumption
     DEF IInv, TypeOK, Places, OwnerKnown, PlacesOfShape, HandlersOfOwner, AllInside,
         HasLock, Lock, TryLockFails, Unlock, Work, WantsLock, CountRound, Goto, At, Outside
<1> QED BY <1>1, <1>2, <1>3 DEF IInv

(* The calls of the try statement. *)
LEMMA TrySteps ==
  ASSUME IInv, NEW t \in Threads,
         ReadTop(t) \/ TryEnter(t) \/ Throw(t) \/ TryLeave(t) \/ Catch(t)
  PROVE  IInv'
<1> USE DEF mutexVars, stackVars, thrownVars, Enters, Leaves, Throws, MayThrow, WriteTop
<1>1. TypeOK'
  BY NextType DEF IInv, Next, Step
<1>2. OwnerKnown' /\ PlacesOfShape' /\ AllInside' = AllInside /\ ThrowsAreInside'
  BY ThreadsAssumption
     DEF IInv, TypeOK, Places, OwnerKnown, PlacesOfShape, ThrowsAreInside, AllInside,
         HasLock, ReadTop, TryEnter, Throw, TryLeave, Catch, Goto, At, Outside
<1>3. CASE AllInside
  <2>1. owner = t /\ owner' = t
    BY <1>3, ThreadsAssumption
       DEF IInv, OwnerKnown, HasLock, AllInside, ReadTop, TryEnter, Throw, TryLeave, Catch, At
  <2>2. /\ calling \subseteq {t} /\ (t \in calling => seen[t] = exception_stack_top)
        /\ IF At(t, "trying") THEN exception_stack_top = 0 /\ exception_stack[0] = t
           ELSE exception_stack_top = -1
    BY <1>3, <2>1, ThreadsAssumption DEF IInv, HandlersOfOwner
  <2>3. /\ calling' \subseteq {t}
        /\ t \in calling' => pc'[t] \in {"holding", "trying"} /\ seen'[t] = exception_stack_top'
    BY <1>3, <2>2
       DEF IInv, TypeOK, AllInside, HandlersOfOwner, ReadTop, TryEnter, Throw, TryLeave, Catch, Goto, At
  <2>4. 0 \in Slots
    BY HandlersAssumption DEF Slots
  <2>5. IF pc'[t] = "trying" THEN exception_stack_top' = 0 /\ exception_stack'[0] = t
        ELSE exception_stack_top' = -1
    <3>1. CASE ReadTop(t)
      BY <2>2, <3>1 DEF ReadTop, At
    <3>2. CASE TryEnter(t)
      BY <1>3, <2>2, <2>4, <3>2 DEF IInv, TypeOK, AllInside, TryEnter, Goto, At
    <3>3. CASE Throw(t)
      BY <1>3, <2>2, <3>3 DEF IInv, TypeOK, AllInside, Throw, Goto, At
    <3>4. CASE TryLeave(t)
      BY <1>3, <2>2, <3>4 DEF IInv, TypeOK, AllInside, TryLeave, Goto, At
    <3>5. CASE Catch(t)
      BY <1>3, <2>2, <3>5 DEF IInv, TypeOK, AllInside, Catch, Goto, At
    <3> QED BY <3>1, <3>2, <3>3, <3>4, <3>5
  <2>6. ThrowsStayHome'
    BY <1>3, <2>1, <2>2, ThreadsAssumption
       DEF IInv, TypeOK, ThrowsStayHome, OwnerKnown, HasLock, AllInside,
           ReadTop, TryEnter, Throw, TryLeave, Catch, Goto, At
  <2>7. HandlersOfOwner'
    BY <2>1, <2>3, <2>5, ThreadsAssumption DEF HandlersOfOwner, At
  <2>8. QuietOutside'
    BY <1>2, <1>3 DEF QuietOutside
  <2> QED BY <1>1, <1>2, <2>6, <2>7, <2>8 DEF IInv
<1>4. CASE ~AllInside
  <2>1. ~Throw(t) /\ ~Catch(t)
      BY <1>4 DEF Throw, Catch, AllInside, IInv, QuietOutside, ThrowsAreInside
  <2>2. OwnerKnown' /\ QuietOutside' /\ ThrowsStayHome'
    BY <1>2, <1>4, <2>1
       DEF IInv, TypeOK, QuietOutside, ThrowsStayHome, AllInside, ReadTop, TryEnter, TryLeave, Goto, At
  <2> QED BY <1>1, <1>2, <1>4, <2>2 DEF IInv, HandlersOfOwner
<1> QED BY <1>3, <1>4

(* Every step keeps the invariant. *)
LEMMA NextInv == IInv /\ [Next]_vars => IInv'
<1> SUFFICES ASSUME IInv, [Next]_vars PROVE IInv'
  OBVIOUS
<1>1. CASE Create \/ Destroy \/ Finished \/ UNCHANGED vars
  <2>1. TypeOK'
    BY NextType DEF IInv
  <2> QED BY <1>1, <2>1
        DEF IInv, OwnerKnown, PlacesOfShape, HandlersOfOwner, QuietOutside, ThrowsStayHome,
            ThrowsAreInside, AllInside, Outside, At, Create, Destroy, Finished, vars, mutexVars,
            stackVars, thrownVars
<1>2. ASSUME NEW t \in Threads, Step(t) PROVE IInv'
  BY <1>2, LockSteps, TrySteps DEF Step
<1> QED BY <1>1, <1>2 DEF Next

(* With every try statement inside the critical section, or with work that *)
(* does not throw, any number of threads can share the handlers and the    *)
(* exception of the process: a throw lands in the frame of its own thread, *)
(* and a catch clause sees the exception of its own thread (lplrt.c:88).   *)
THEOREM SharedHandlersAreSafe == Careful => (Spec => []ThrowsStayHome)
<1> SUFFICES ASSUME Careful PROVE Spec => []ThrowsStayHome
  OBVIOUS
<1>1. Init => IInv
  BY InitInv
<1>2. IInv => ThrowsStayHome
  BY DEF IInv
<1> QED BY <1>1, NextInv, <1>2, PTL DEF Spec

(* A thread that is out of its function does not own the mutex, however    *)
(* many threads there are and whatever their functions look like, under    *)
(* the same discipline (MANUAL.md:1571, lpl_sync.c:44).                    *)
THEOREM LeavesUnlocked == Careful => (Spec => []UnlockedAtScopeEnd)
<1> SUFFICES ASSUME Careful PROVE Spec => []UnlockedAtScopeEnd
  OBVIOUS
<1>1. Init => IInv
  BY InitInv
<1>2. IInv => UnlockedAtScopeEnd
  BY DEF IInv, TypeOK, OwnerKnown, HasLock, UnlockedAtScopeEnd, At
<1> QED BY <1>1, NextInv, <1>2, PTL DEF Spec
=============================================================================
