--------------------------- MODULE ContextsProofs ---------------------------
(***************************************************************************)
(* The context switch implements Threads for any number of threads.  IInv  *)
(* says where the registers of every thread are in each mode.              *)
(***************************************************************************)
EXTENDS Contexts, TLAPS

At(t, d) == [of |-> t, depth |-> d]
Stacks == [Thread -> [1..Depth -> Value]]

(* Of the running thread 0, 1 or 2 blocks are on its stack; all of the      *)
(* context of any other thread is, where its saved sp points to.  A thread  *)
(* that has finished left less, but nothing will load it.                   *)
Pushed ==
  /\ (mode = "boot" => tasks = {Idle} /\ current = Idle /\ preserve = Idle
                     /\ stack[Idle] = Prepared)
  /\ (mode = "thread" => psp = At(preserve, 0) /\ preserve \in tasks)
  /\ (mode = "interrupt" => psp = At(preserve, 1) /\ preserve \in tasks)
  /\ (mode = "service" => psp = At(preserve, Depth) /\ preserve \in tasks)
  /\ (mode = "pendsv" => psp.of = preserve /\ (preserve \in tasks => psp.depth = Depth))

Saved == \A t \in tasks : (mode = "boot" \/ t # preserve) => sp[t] = At(t, Depth)

IInv == ContextsTypeOK /\ Idle \in tasks /\ Pushed /\ Saved

RegistersNow == [t \in tasks |-> RegistersOf(t)]
RunsNow == IF mode = "thread" THEN psp.of ELSE NULL

-----------------------------------------------------------------------------
(* Where the stack pointers point to, before and after a block. *)
LEMMA PointersMove ==
  ASSUME NEW t, NEW d \in Nat
  PROVE  /\ Up(At(t, d)) = At(t, d - 1) /\ Down(At(t, d)) = At(t, d + 1)
         /\ At(t, d).of = t /\ At(t, d).depth = d
BY DEF Up, Down, At

(* A block that is pushed is found again, and no other block is touched. *)
LEMMA StoredIsFound ==
  ASSUME NEW st \in Stacks, NEW t \in Thread, NEW d \in {0, 1}, NEW v \in Value
  PROVE  /\ Stored(st, At(t, d), v) \in Stacks
         /\ Stored(st, At(t, d), v)[t][d + 1] = v
         /\ \A i \in 1..Depth : i # d + 1 => Stored(st, At(t, d), v)[t][i] = st[t][i]
         /\ \A u \in Thread : u # t => Stored(st, At(t, d), v)[u] = st[u]
<1>1. At(t, d).of = t /\ At(t, d).depth + 1 = d + 1 /\ d + 1 \in 1..Depth
  BY DEF At, Depth
<1>2. Stored(st, At(t, d), v) = [st EXCEPT ![t] = [st[t] EXCEPT ![d + 1] = v]]
  BY <1>1 DEF Stored
<1>3. st[t] \in [1..Depth -> Value]
  BY DEF Stacks
<1>4. [st[t] EXCEPT ![d + 1] = v] \in [1..Depth -> Value]
  BY <1>1, <1>3
<1> QED
  BY <1>1, <1>2, <1>3, <1>4 DEF Stacks

(* A whole context that is pushed: its hard part in the first block of the *)
(* two, its soft part in the second.                                       *)
StoredBoth(st, t, v, w) == Stored(Stored(st, At(t, 0), v), Down(At(t, 0)), w)

LEMMA BothAreFound ==
  ASSUME NEW st \in Stacks, NEW t \in Thread, NEW v \in Value, NEW w \in Value
  PROVE  /\ StoredBoth(st, t, v, w) \in Stacks
         /\ StoredBoth(st, t, v, w)[t][1] = v /\ StoredBoth(st, t, v, w)[t][2] = w
         /\ \A u \in Thread : u # t => StoredBoth(st, t, v, w)[u] = st[u]
<1> DEFINE s1 == Stored(st, At(t, 0), v)
           s2 == Stored(s1, At(t, 1), w)
<1>1. StoredBoth(st, t, v, w) = s2
  BY PointersMove DEF StoredBoth
<1>2. s1 \in Stacks /\ s1[t][1] = v /\ \A u \in Thread : u # t => s1[u] = st[u]
  BY StoredIsFound
<1> HIDE DEF s1
<1>3. /\ s2 \in Stacks /\ s2[t][2] = w /\ s2[t][1] = s1[t][1]
      /\ \A u \in Thread : u # t => s2[u] = s1[u]
  BY <1>2, StoredIsFound DEF Depth
<1> QED
  BY <1>1, <1>2, <1>3

(* What a context is loaded from. *)
LEMMA ContextAt ==
  ASSUME NEW t
  PROVE  /\ Context(At(t, Depth)) = [hard |-> stack[t][1], soft |-> stack[t][2]]
         /\ Contents(At(t, 1)) = stack[t][1]
         /\ Up(Up(At(t, Depth))) = At(t, 0) /\ Up(At(t, 1)) = At(t, 0)
         /\ Down(At(t, 0)) = At(t, 1) /\ Down(Down(At(t, 0))) = At(t, Depth)
<1>1. /\ Up(At(t, 2)) = At(t, 1) /\ Up(At(t, 1)) = At(t, 0)
      /\ Down(At(t, 0)) = At(t, 1) /\ Down(At(t, 1)) = At(t, 2)
  BY PointersMove
<1>2. \A d \in Nat : At(t, d).of = t /\ At(t, d).depth = d
  BY PointersMove
<1>3. \A d \in Nat : Contents(At(t, d)) = stack[t][d]
  BY <1>2 DEF Contents
<1> QED
  BY <1>1, <1>3 DEF Context, Depth

-----------------------------------------------------------------------------
(* IInv tells where RegistersOf finds the registers of a thread. *)
OnStack(t) == [hard |-> stack[t][1], soft |-> stack[t][2]]

Found ==
  /\ (mode = "boot" => \A t \in tasks : RegistersOf(t) = OnStack(t))
  /\ (mode = "thread" => RegistersOf(preserve) = cpu)
  /\ (mode = "interrupt" =>
        RegistersOf(preserve) = [hard |-> stack[preserve][1], soft |-> cpu.soft])
  /\ (mode \in {"service", "pendsv"} /\ preserve \in tasks =>
        RegistersOf(preserve) = OnStack(preserve))
  /\ \A t \in tasks : t # preserve => RegistersOf(t) = OnStack(t)

LEMMA RegistersFound == IInv => Found
<1> SUFFICES ASSUME IInv PROVE Found
  OBVIOUS
<1>1. \A t \in Thread : /\ Context(At(t, Depth)) = OnStack(t)
                        /\ Contents(At(t, 1)) = stack[t][1]
  BY ContextAt DEF OnStack
<1>2. \A t \in tasks : (mode = "boot" \/ t # preserve) => Context(sp[t]) = OnStack(t)
  BY <1>1 DEF IInv, Saved, ContextsTypeOK
<1>3. /\ \A t \in Thread, d \in {0, 1, 2} : At(t, d).of = t /\ At(t, d).depth = d
      /\ psp = At(psp.of, psp.depth) /\ preserve \in Thread
  BY DEF At, IInv, ContextsTypeOK, Pointers
<1>4. \A t \in tasks : t # preserve => RegistersOf(t) = OnStack(t)
  <2> SUFFICES ASSUME NEW t \in tasks, t # preserve
               PROVE  RegistersOf(t) = OnStack(t)
    OBVIOUS
  <2>1. Context(sp[t]) = OnStack(t)
    BY <1>2
  <2>2. mode \in {"boot"} \/ psp.of # t
    BY <1>3 DEF IInv, Pushed, ContextsTypeOK, Depth
  <2> QED
    BY <2>1, <2>2 DEF RegistersOf
<1>5. mode = "boot" => \A t \in tasks : RegistersOf(t) = OnStack(t)
  BY <1>2 DEF RegistersOf
<1>6. mode = "thread" => RegistersOf(preserve) = cpu
  BY <1>3 DEF RegistersOf, IInv, Pushed
<1>7. mode = "interrupt" =>
        RegistersOf(preserve) = [hard |-> stack[preserve][1], soft |-> cpu.soft]
  BY <1>1, <1>3 DEF RegistersOf, IInv, Pushed
<1>8. mode \in {"service", "pendsv"} /\ preserve \in tasks =>
        RegistersOf(preserve) = OnStack(preserve)
  <2> SUFFICES ASSUME mode \in {"service", "pendsv"}, preserve \in tasks
               PROVE  RegistersOf(preserve) = OnStack(preserve)
    OBVIOUS
  <2>1. psp = At(preserve, Depth)
    BY <1>3 DEF IInv, Pushed
  <2> QED
    BY <1>1, <1>3, <2>1 DEF RegistersOf, Depth
<1> QED
  BY <1>4, <1>5, <1>6, <1>7, <1>8 DEF Found

(* What a step does to the threads, told by what it does to RegistersOf. *)
LEMMA SameRegisters ==
  ASSUME tasks' = tasks, \A t \in tasks : RegistersOf(t)' = RegistersOf(t)
  PROVE  RegistersNow' = RegistersNow
BY DEF RegistersNow

LEMMA Domain == DOMAIN RegistersNow = tasks
BY DEF RegistersNow

(* The steps of Threads, in terms of RegistersNow and RunsNow. *)
ThreadsStep == [Threads!Next]_(Threads!vars)

LEMMA IsCompute ==
  ASSUME RunsNow \in tasks, RunsNow' = RunsNow, NEW r \in Registers,
         RegistersNow' = [RegistersNow EXCEPT ![RunsNow] = r]
  PROVE  ThreadsStep
<1>1. RunsNow \in DOMAIN RegistersNow
  BY Domain
<1>2. Threads!Compute
  BY <1>1 DEF Threads!Compute, RegistersNow, RunsNow
<1> QED
  BY <1>2 DEF ThreadsStep, Threads!Next

LEMMA IsCreate ==
  ASSUME RunsNow \in tasks, RunsNow' = RunsNow, NEW t \in Thread \ tasks,
         RegistersNow' = [u \in tasks \cup {t} |->
           IF u = t THEN [hard |-> Entry, soft |-> Zero] ELSE RegistersNow[u]]
  PROVE  ThreadsStep
<1>1. RunsNow \in DOMAIN RegistersNow /\ t \notin DOMAIN RegistersNow
  BY Domain
<1>2. Threads!Create(t)
  BY <1>1, Domain DEF Threads!Create, RegistersNow, RunsNow
<1> QED
  BY <1>2 DEF ThreadsStep, Threads!Next

LEMMA IsTrap ==
  ASSUME RunsNow # NULL, RunsNow' = NULL, RegistersNow' = RegistersNow
  PROVE  ThreadsStep
<1>1. Threads!Trap
  BY DEF Threads!Trap, RegistersNow, RunsNow
<1> QED
  BY <1>1 DEF ThreadsStep, Threads!Next

LEMMA IsResume ==
  ASSUME RunsNow = NULL, RunsNow' \in tasks, RegistersNow' = RegistersNow
  PROVE  ThreadsStep
<1>1. RunsNow' \in DOMAIN RegistersNow
  BY Domain
<1>2. Threads!Resume
  BY <1>1 DEF Threads!Resume, RegistersNow, RunsNow
<1> QED
  BY <1>2 DEF ThreadsStep, Threads!Next

LEMMA IsFinish ==
  ASSUME RunsNow \in tasks, RunsNow' = NULL,
         RegistersNow' = [u \in tasks \ {RunsNow} |-> RegistersNow[u]]
  PROVE  ThreadsStep
<1>1. RunsNow \in DOMAIN RegistersNow
  BY Domain
<1>2. Threads!Finish
  BY <1>1, Domain DEF Threads!Finish, RegistersNow, RunsNow
<1> QED
  BY <1>2 DEF ThreadsStep, Threads!Next

LEMMA IsStutter ==
  ASSUME RunsNow' = RunsNow, RegistersNow' = RegistersNow
  PROVE  ThreadsStep
<1>1. UNCHANGED Threads!vars
  BY DEF Threads!vars, RegistersNow, RunsNow
<1> QED
  BY <1>1 DEF ThreadsStep

-----------------------------------------------------------------------------
(* The initial states. *)
LEMMA InitEstablishes == ContextsInit => IInv /\ Threads!Init
<1> SUFFICES ASSUME ContextsInit PROVE IInv /\ Threads!Init
  OBVIOUS
<1> USE ContextsAssumption
<1>1. ContextsTypeOK
  BY DEF ContextsInit, ContextsTypeOK, Pointers, Prepared, Depth
<1>2. IInv
  BY <1>1 DEF ContextsInit, IInv, Pushed, Saved, At
<1>3. RegistersNow = [t \in {Idle} |-> [hard |-> Entry, soft |-> Zero]]
  <2>1. OnStack(Idle) = [hard |-> Entry, soft |-> Zero]
    BY DEF OnStack, ContextsInit, Prepared, Depth
  <2>2. RegistersOf(Idle) = OnStack(Idle) /\ tasks = {Idle}
    BY <1>2, RegistersFound DEF ContextsInit, Found
  <2> QED
    BY <2>1, <2>2 DEF RegistersNow
<1>4. RunsNow = NULL
  BY DEF RunsNow, ContextsInit
<1> QED
  BY <1>2, <1>3, <1>4 DEF Threads!Init, RegistersNow, RunsNow

(* The step of each action: it keeps IInv, and where RegistersOf finds the *)
(* registers after it shows which step of Threads it is.                   *)
LEMMA ExecPspTaskStep ==
  ASSUME IInv, Found, ExecPspTask PROVE IInv' /\ (Found' => ThreadsStep)
<1> USE ContextsAssumption
<1>1. /\ sp[current] = At(Idle, Depth) /\ current = Idle /\ preserve = Idle
      /\ tasks = {Idle} /\ Idle \in Thread
  BY DEF IInv, Pushed, Saved, ExecPspTask
<1>2. cpu' = OnStack(Idle) /\ psp' = At(Idle, 0) /\ mode' = "thread"
  BY <1>1, ContextAt DEF ExecPspTask, OnStack
<1>3. stack[Idle][1] \in Value /\ stack[Idle][2] \in Value
  BY <1>1 DEF IInv, ContextsTypeOK, Depth
<1>4. ContextsTypeOK'
  BY <1>1, <1>2, <1>3
  DEF IInv, ContextsTypeOK, ExecPspTask, Pointers, Registers, OnStack, At, Depth
<1>5. IInv'
  BY <1>1, <1>2, <1>4 DEF IInv, Pushed, Saved, ExecPspTask
<1>6. ASSUME Found' PROVE ThreadsStep
  <2>1. RegistersNow' = RegistersNow
    BY <1>1, <1>2, <1>6, SameRegisters DEF ExecPspTask, Found
  <2>2. RunsNow = NULL /\ RunsNow' = Idle
    BY <1>2 DEF RunsNow, ExecPspTask, At
  <2> QED
    BY <1>1, <2>1, <2>2, IsResume
<1> QED
  BY <1>5, <1>6

LEMMA ComputeStep ==
  ASSUME IInv, Found, Compute PROVE IInv' /\ (Found' => ThreadsStep)
<1> USE ContextsAssumption
<1>1. ContextsTypeOK'
  BY DEF IInv, ContextsTypeOK, Compute
<1>2. IInv'
  BY <1>1 DEF IInv, Pushed, Saved, Compute
<1>3. ASSUME Found' PROVE ThreadsStep
  <2>1. RunsNow = preserve /\ RunsNow' = RunsNow /\ preserve \in tasks
    BY DEF IInv, Pushed, RunsNow, Compute, At
  <2>2. /\ RegistersOf(preserve)' = cpu'
        /\ \A t \in tasks : t # preserve => RegistersOf(t)' = RegistersOf(t)
    BY <1>3 DEF Compute, Found, OnStack
  <2>3. RegistersNow' = [RegistersNow EXCEPT ![RunsNow] = cpu'] /\ cpu' \in Registers
    BY <2>1, <2>2 DEF RegistersNow, Compute
  <2> QED
    BY <2>1, <2>3, IsCompute
<1> QED
  BY <1>2, <1>3

LEMMA BlockCurrentTaskStep ==
  ASSUME IInv, Found, BlockCurrentTask PROVE IInv' /\ (Found' => ThreadsStep)
<1> USE ContextsAssumption
<1>1. /\ psp = At(preserve, 0) /\ preserve \in tasks
      /\ psp.of = preserve /\ current = preserve /\ preserve' = preserve
  BY DEF IInv, Pushed, BlockCurrentTask, At
<1>2. ContextsTypeOK'
  BY <1>1 DEF IInv, ContextsTypeOK, BlockCurrentTask
<1>3. IInv'
  BY <1>1, <1>2 DEF IInv, Pushed, Saved, BlockCurrentTask
<1>4. ASSUME Found' PROVE ThreadsStep
  <2>1. \A t \in tasks : RegistersOf(t)' = RegistersOf(t)
    BY <1>1, <1>4 DEF BlockCurrentTask, Found, OnStack
  <2>2. RunsNow' = RunsNow
    BY DEF RunsNow, BlockCurrentTask
  <2> QED
    BY <2>1, <2>2, SameRegisters, IsStutter DEF BlockCurrentTask
<1> QED
  BY <1>3, <1>4

LEMMA CreateTaskStep ==
  ASSUME IInv, Found, NEW t \in Thread, CreateTask(t)
  PROVE  IInv' /\ (Found' => ThreadsStep)
<1> USE ContextsAssumption
<1>1. psp = At(preserve, 0) /\ preserve \in tasks /\ psp.of = preserve /\ t \notin tasks
  BY DEF IInv, Pushed, CreateTask, At
<1>2. Prepared \in [1..Depth -> Value] /\ Prepared[1] = Entry /\ Prepared[2] = Zero
  BY DEF Prepared, Depth
<1>3. /\ stack' \in Stacks /\ stack'[t] = Prepared
      /\ \A u \in Thread : u # t => stack'[u] = stack[u]
  BY <1>2 DEF IInv, ContextsTypeOK, CreateTask, Stacks
<1>4. /\ sp' \in [Thread -> Pointers] /\ sp'[t] = At(t, Depth)
      /\ \A u \in Thread : u # t => sp'[u] = sp[u]
  BY DEF IInv, ContextsTypeOK, CreateTask, Pointers, At, Depth
<1>5. ContextsTypeOK'
  BY <1>3, <1>4 DEF IInv, ContextsTypeOK, CreateTask, Stacks
<1>6. tasks' = tasks \cup {t} /\ tasks \subseteq Thread
  BY DEF IInv, ContextsTypeOK, CreateTask
<1>7. Saved'
  BY <1>4, <1>6 DEF IInv, Saved, CreateTask
<1>8. IInv'
  BY <1>1, <1>5, <1>6, <1>7 DEF IInv, Pushed, CreateTask
<1>9. ASSUME Found' PROVE ThreadsStep
  <2>1. RunsNow = preserve /\ RunsNow' = RunsNow
    BY <1>1 DEF RunsNow, CreateTask
  <2>2. RegistersOf(t)' = [hard |-> Entry, soft |-> Zero]
    BY <1>1, <1>2, <1>3, <1>6, <1>9 DEF Found, CreateTask, OnStack
  <2>3. \A u \in tasks : RegistersOf(u)' = RegistersOf(u)
    BY <1>1, <1>3, <1>6, <1>9 DEF Found, CreateTask, OnStack
  <2>4. RegistersNow' = [u \in tasks \cup {t} |->
          IF u = t THEN [hard |-> Entry, soft |-> Zero] ELSE RegistersNow[u]]
    BY <1>1, <1>6, <2>2, <2>3 DEF RegistersNow
  <2> QED
    BY <1>1, <2>1, <2>4, IsCreate
<1> QED
  BY <1>8, <1>9

LEMMA SystemCallStep ==
  ASSUME IInv, Found, NEW s \in {"service", "pendsv"}, SystemCall(s)
  PROVE  IInv' /\ (Found' => ThreadsStep)
<1>1. psp = At(preserve, 0) /\ preserve \in tasks /\ preserve \in Thread
  BY DEF IInv, ContextsTypeOK, Pushed, SystemCall
<1>2. cpu.hard \in Value /\ cpu.soft \in Value /\ stack \in Stacks
  BY DEF IInv, ContextsTypeOK, Registers, Stacks
<1>3. stack' = StoredBoth(stack, preserve, cpu.hard, cpu.soft)
  BY <1>1 DEF SystemCall, StoredBoth
<1>4. /\ stack' \in Stacks /\ stack'[preserve][1] = cpu.hard /\ stack'[preserve][2] = cpu.soft
      /\ \A u \in Thread : u # preserve => stack'[u] = stack[u]
  BY <1>1, <1>2, <1>3, BothAreFound
<1>5. psp' = At(preserve, Depth)
  BY <1>1, ContextAt DEF SystemCall
<1>6. /\ psp' = At(preserve, Depth) /\ At(preserve, Depth) \in Pointers
      /\ psp.of = preserve /\ psp'.of = preserve /\ psp'.depth = Depth
  BY <1>1, <1>5 DEF At, Pointers, Depth
<1>7. ContextsTypeOK'
  BY <1>4, <1>6 DEF IInv, ContextsTypeOK, SystemCall, Stacks
<1>8. IInv'
  BY <1>1, <1>6, <1>7 DEF IInv, Pushed, Saved, SystemCall
<1>9. ASSUME Found' PROVE ThreadsStep
  <2>1. RegistersOf(preserve)' = cpu
    <3>1. RegistersOf(preserve)' = [hard |-> cpu.hard, soft |-> cpu.soft]
      BY <1>1, <1>4, <1>9 DEF Found, SystemCall, OnStack
    <3>2. cpu = [hard |-> cpu.hard, soft |-> cpu.soft]
      BY DEF IInv, ContextsTypeOK, Registers
    <3> QED
      BY <3>1, <3>2
  <2>2. \A t \in tasks : t # preserve => t \in Thread /\ RegistersOf(t)' = RegistersOf(t)
    BY <1>4, <1>9 DEF Found, SystemCall, OnStack, IInv, ContextsTypeOK
  <2>3. RegistersNow' = RegistersNow
    BY <2>1, <2>2, SameRegisters DEF Found, SystemCall
  <2>4. RunsNow # NULL /\ RunsNow' = NULL
    BY <1>1, <1>6, ContextsAssumption DEF RunsNow, SystemCall
  <2> QED
    BY <2>3, <2>4, IsTrap
<1> QED
  BY <1>8, <1>9

LEMMA ServiceReturnsStep ==
  ASSUME IInv, Found, ServiceReturns PROVE IInv' /\ (Found' => ThreadsStep)
<1> USE ContextsAssumption
<1>1. psp = At(preserve, Depth) /\ preserve \in tasks /\ preserve \in Thread
  BY DEF IInv, ContextsTypeOK, Pushed, ServiceReturns
<1>2. cpu' = OnStack(preserve) /\ psp' = At(preserve, 0) /\ mode' = "thread"
  BY <1>1, ContextAt DEF ServiceReturns, OnStack
<1>3. OnStack(preserve) \in Registers /\ At(preserve, 0) \in Pointers
  BY <1>1 DEF IInv, ContextsTypeOK, OnStack, Registers, At, Pointers, Depth
<1>4. ContextsTypeOK'
  BY <1>2, <1>3 DEF IInv, ContextsTypeOK, ServiceReturns
<1>5. IInv'
  BY <1>1, <1>2, <1>4 DEF IInv, Pushed, Saved, ServiceReturns
<1>6. ASSUME Found' PROVE ThreadsStep
  <2>1. \A t \in tasks : RegistersOf(t)' = RegistersOf(t)
    BY <1>1, <1>2, <1>6 DEF Found, ServiceReturns, OnStack
  <2>2. RunsNow = NULL /\ RunsNow' = preserve
    BY <1>2 DEF RunsNow, ServiceReturns, At
  <2> QED
    BY <1>1, <2>1, <2>2, SameRegisters, IsResume DEF ServiceReturns
<1> QED
  BY <1>5, <1>6

LEMMA FinishTaskStep ==
  ASSUME IInv, Found, FinishTask PROVE IInv' /\ (Found' => ThreadsStep)
<1>1. /\ psp = At(preserve, 0) /\ psp.of = preserve /\ current = preserve
      /\ preserve \in tasks /\ preserve \in Thread /\ preserve # Idle
  BY DEF IInv, ContextsTypeOK, Pushed, FinishTask, At
<1>2. cpu.hard \in Value /\ stack \in Stacks
  BY DEF IInv, ContextsTypeOK, Registers, Stacks
<1>3. stack' \in Stacks /\ \A u \in Thread : u # preserve => stack'[u] = stack[u]
  BY <1>1, <1>2, StoredIsFound DEF FinishTask
<1>4. psp' = At(preserve, 1)
  BY <1>1, ContextAt DEF FinishTask
<1>5. psp' \in Pointers /\ psp'.of = preserve
  BY <1>1, <1>4 DEF Pointers, At, Depth
<1>6. tasks' = tasks \ {preserve} /\ tasks \subseteq Thread
  BY <1>1 DEF IInv, ContextsTypeOK, FinishTask
<1>7. ContextsTypeOK'
  BY <1>3, <1>5, <1>6 DEF IInv, ContextsTypeOK, FinishTask, Stacks
<1>8. IInv'
  BY <1>1, <1>5, <1>6, <1>7 DEF IInv, Pushed, Saved, FinishTask
<1>9. ASSUME Found' PROVE ThreadsStep
  <2>1. \A t \in tasks' : RegistersOf(t)' = RegistersOf(t)
    BY <1>3, <1>6, <1>9 DEF Found, FinishTask, OnStack
  <2>2. RunsNow = preserve /\ RunsNow' = NULL
    BY <1>1 DEF RunsNow, FinishTask
  <2>3. RegistersNow' = [u \in tasks \ {RunsNow} |-> RegistersNow[u]]
    BY <1>6, <2>1, <2>2 DEF RegistersNow
  <2> QED
    BY <1>1, <2>2, <2>3, IsFinish
<1> QED
  BY <1>8, <1>9

LEMMA PendSVStep ==
  ASSUME IInv, Found, PendSV PROVE IInv' /\ (Found' => ThreadsStep)
<1>1. psp.of = preserve /\ psp \in Pointers /\ preserve \in Thread
  BY DEF IInv, ContextsTypeOK, Pushed, PendSV
<1>2. preserve \in tasks => psp = At(preserve, Depth)
  BY <1>1 DEF IInv, Pushed, PendSV, At, Pointers
<1>3. /\ sp' \in [Thread -> Pointers] /\ sp'[preserve] = psp
      /\ \A t \in Thread : t # preserve => sp'[t] = sp[t]
  BY <1>1 DEF IInv, ContextsTypeOK, PendSV
<1>4. tasks' = tasks /\ tasks \subseteq Thread /\ current' \in tasks /\ preserve' = current'
  BY DEF IInv, ContextsTypeOK, PendSV
<1>5. \A t \in tasks : sp'[t] = At(t, Depth)
  BY <1>2, <1>3, <1>4 DEF IInv, Saved, PendSV
<1>6. cpu' = OnStack(current') /\ psp' = At(current', 0) /\ mode' = "thread"
  BY <1>4, <1>5, ContextAt DEF PendSV, OnStack
<1>7. OnStack(current') \in Registers /\ At(current', 0) \in Pointers
  BY <1>4 DEF IInv, ContextsTypeOK, OnStack, Registers, At, Pointers, Depth
<1>8. ContextsTypeOK'
  BY <1>3, <1>4, <1>6, <1>7 DEF IInv, ContextsTypeOK, PendSV
<1>9. IInv'
  BY <1>4, <1>5, <1>6, <1>8 DEF IInv, Pushed, Saved, PendSV
<1>10. ASSUME Found' PROVE ThreadsStep
  <2>1. \A t \in tasks : RegistersOf(t) = OnStack(t)
    BY DEF Found, PendSV
  <2>2. \A t \in tasks : RegistersOf(t)' = OnStack(t)
    BY <1>4, <1>6, <1>10 DEF Found, PendSV, OnStack
  <2>3. RunsNow = NULL /\ RunsNow' = current'
    BY <1>6 DEF RunsNow, PendSV, At
  <2> QED
    BY <1>4, <2>1, <2>2, <2>3, SameRegisters, IsResume
<1> QED
  BY <1>9, <1>10

LEMMA InterruptStep ==
  ASSUME IInv, Found, Interrupt PROVE IInv' /\ (Found' => ThreadsStep)
<1>1. psp = At(preserve, 0) /\ psp.of = preserve /\ preserve \in tasks /\ preserve \in Thread
  BY DEF IInv, ContextsTypeOK, Pushed, Interrupt, At
<1>2. cpu.hard \in Value /\ cpu.soft \in Value /\ stack \in Stacks
  BY DEF IInv, ContextsTypeOK, Registers, Stacks
<1>3. /\ stack' \in Stacks /\ stack'[preserve][1] = cpu.hard
      /\ \A u \in Thread : u # preserve => stack'[u] = stack[u]
  <2> DEFINE s1 == Stored(stack, At(preserve, 0), cpu.hard)
  <2>1. s1 \in Stacks /\ s1[preserve][0 + 1] = cpu.hard
    BY <1>1, <1>2, StoredIsFound
  <2>2. \A u \in Thread : u # preserve => s1[u] = stack[u]
    BY <1>1, <1>2, StoredIsFound
  <2>3. stack' = s1
    BY <1>1 DEF Interrupt
  <2> HIDE DEF s1
  <2> QED
    BY <2>1, <2>2, <2>3
<1>4. psp' = At(preserve, 1)
  BY <1>1, ContextAt DEF Interrupt
<1>5. psp' \in Pointers
  BY <1>1, <1>4 DEF Pointers, At, Depth
<1>6. cpu' \in Registers /\ cpu'.soft = cpu.soft
  BY <1>2 DEF Interrupt, Registers
<1>7. ContextsTypeOK'
  BY <1>3, <1>5, <1>6 DEF IInv, ContextsTypeOK, Interrupt, Stacks
<1>8. IInv'
  BY <1>1, <1>4, <1>7 DEF IInv, Pushed, Saved, Interrupt
<1>9. ASSUME Found' PROVE ThreadsStep
  <2>1. RegistersOf(preserve)' = cpu
    <3>1. RegistersOf(preserve)' = [hard |-> cpu.hard, soft |-> cpu.soft]
      BY <1>1, <1>3, <1>6, <1>9 DEF Found, Interrupt
    <3>2. cpu = [hard |-> cpu.hard, soft |-> cpu.soft]
      BY DEF IInv, ContextsTypeOK, Registers
    <3> QED
      BY <3>1, <3>2
  <2>2. \A t \in tasks : t # preserve => t \in Thread /\ RegistersOf(t)' = RegistersOf(t)
    BY <1>3, <1>9 DEF Found, Interrupt, OnStack, IInv, ContextsTypeOK
  <2>3. RegistersNow' = RegistersNow
    BY <2>1, <2>2, SameRegisters DEF Found, Interrupt
  <2>4. RunsNow # NULL /\ RunsNow' = NULL
    BY <1>1, ContextsAssumption DEF RunsNow, Interrupt
  <2> QED
    BY <2>3, <2>4, IsTrap
<1> QED
  BY <1>8, <1>9

LEMMA InterruptReturnsStep ==
  ASSUME IInv, Found, InterruptReturns PROVE IInv' /\ (Found' => ThreadsStep)
<1>1. psp = At(preserve, 1) /\ preserve \in tasks /\ preserve \in Thread
  BY DEF IInv, ContextsTypeOK, Pushed, InterruptReturns
<1>2. psp' = At(preserve, 0) /\ At(preserve, 0) \in Pointers
  <2>1. psp' = At(preserve, 0)
    BY <1>1, ContextAt DEF InterruptReturns
  <2> QED
    BY <1>1, <2>1 DEF Pointers, At, Depth
<1>3. cpu' = [hard |-> stack[preserve][1], soft |-> cpu.soft]
  <2>1. Contents(psp) = stack[preserve][1]
    BY <1>1, ContextAt
  <2> QED
    BY <2>1 DEF InterruptReturns, IInv, ContextsTypeOK, Registers
<1>4. cpu' \in Registers
  BY <1>1, <1>3 DEF IInv, ContextsTypeOK, Registers, Depth
<1>5. ContextsTypeOK'
  BY <1>2, <1>4 DEF IInv, ContextsTypeOK, InterruptReturns
<1>6. IInv'
  BY <1>1, <1>2, <1>5 DEF IInv, Pushed, Saved, InterruptReturns
<1>7. ASSUME Found' PROVE ThreadsStep
  <2>1. \A t \in tasks : RegistersOf(t)' = RegistersOf(t)
    BY <1>1, <1>3, <1>7 DEF Found, InterruptReturns, OnStack
  <2>2. RunsNow = NULL /\ RunsNow' = preserve
    BY <1>2 DEF RunsNow, InterruptReturns, At
  <2> QED
    BY <1>1, <2>1, <2>2, SameRegisters, IsResume DEF InterruptReturns
<1> QED
  BY <1>6, <1>7

-----------------------------------------------------------------------------
(* Every step keeps IInv, and is a step of Threads or a stutter. *)
LEMMA StepImplements ==
  ASSUME IInv, Found, [ContextsNext]_vars PROVE IInv' /\ (Found' => ThreadsStep)
<1>1. CASE ExecPspTask BY <1>1, ExecPspTaskStep
<1>2. CASE Compute BY <1>2, ComputeStep
<1>3. CASE BlockCurrentTask BY <1>3, BlockCurrentTaskStep
<1>4. CASE Yields BY <1>4, SystemCallStep DEF Yields
<1>5. CASE Serves BY <1>5, SystemCallStep DEF Serves
<1>6. CASE ServiceReturns BY <1>6, ServiceReturnsStep
<1>7. CASE FinishTask BY <1>7, FinishTaskStep
<1>8. CASE PendSV BY <1>8, PendSVStep
<1>9. CASE Interrupt BY <1>9, InterruptStep
<1>10. CASE InterruptReturns BY <1>10, InterruptReturnsStep
<1>11. CASE \E t \in Thread : CreateTask(t) BY <1>11, CreateTaskStep
<1>12. CASE UNCHANGED vars
  <2>1. IInv'
    BY <1>12 DEF vars, IInv, ContextsTypeOK, Pushed, Saved
  <2>2. RunsNow' = RunsNow /\ RegistersNow' = RegistersNow
    BY <1>12 DEF vars, RunsNow, RegistersNow, RegistersOf, Context, Contents
  <2> QED
    BY <2>1, <2>2, IsStutter
<1> QED
  BY <1>1, <1>2, <1>3, <1>4, <1>5, <1>6, <1>7, <1>8, <1>9, <1>10, <1>11, <1>12
  DEF ContextsNext

(* IInv holds in every reachable state. *)
LEMMA IInvHolds == ContextsSpec => []IInv
<1>1. ContextsInit => IInv
  BY InitEstablishes
<1>2. IInv /\ [ContextsNext]_vars => IInv'
  BY StepImplements, RegistersFound
<1> QED
  BY <1>1, <1>2, PTL DEF ContextsSpec

(* The stack pointers stay within one context above the frames of their     *)
(* thread, whatever system calls, interrupts and task switches follow.     *)
THEOREM ContextsTypeCorrect == ContextsSpec => []ContextsTypeOK
<1>1. IInv => ContextsTypeOK
  BY DEF IInv
<1> QED
  BY <1>1, IInvHolds, PTL

(* Every thread has its registers to itself, for any number of threads.     *)
THEOREM ContextsImplementThreads == ContextsSpec => ImplementsThreads
<1>1. ContextsInit => Threads!Init
  BY InitEstablishes
<1>2. IInv /\ Found /\ Found' /\ [ContextsNext]_vars => [Threads!Next]_(Threads!vars)
  BY StepImplements DEF ThreadsStep
<1> QED
  BY <1>1, <1>2, IInvHolds, RegistersFound, PTL DEF ContextsSpec, ImplementsThreads, Threads!Spec
=============================================================================
