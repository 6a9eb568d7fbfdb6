---------------------------- MODULE VulcanContext -----------------------------
(***************************************************************************)
(* The registers and stacks behind a context switch: the frame that        *)
(* vk_task_create builds, the jump of vk_start into the first task, and    *)
(* PendSV_Handler.  Which task comes next is VulcanSched's subject; here   *)
(* it is any.  The registers are taken in the two groups that are saved    *)
(* apart: those the core stacks on an exception (R0-R3, R12, LR, PC, xPSR) *)
(* and those the handler pushes (R4-R11, S16-S31 and EXC_RETURN).  Of each *)
(* group only the task it belongs to is kept.                              *)
(***************************************************************************)
EXTENDS Naturals

CONSTANTS
  Task,     \* the tasks, idle included
  Main,     \* names main's stack, of the linker script
  Nobody,   \* whose registers main's are, no task either
  Depth     \* bound: the frames a stack has room for, 2 at least

Stack == Task \cup {Main}

(* A stack pointer: the stack it points into, and the frames below it. *)
Pointer == [stack : Stack, height : 0 .. Depth]

Frame == [group : {"core", "callee"}, of : Task \cup {Nobody}]

VARIABLES
  vk_current,
  sp,          \* the field of each TCB; before vk_task_create, main's stack
  mem,         \* the frames on each stack
  msp, psp,    \* the two stack pointers of the core
  control,     \* CONTROL.SPSEL: the pointer that thread mode uses
  place,       \* "main", "thread", or the place in PendSV_Handler
  core,        \* whose PC, xPSR, R0-R3 and R12 are in the registers
  callee       \* whose R4-R11 are

vars == <<vk_current, sp, mem, msp, psp, control, place, core, callee>>

Bottom(s) == [stack |-> s, height |-> 0]

Init ==
  /\ vk_current = Nobody
  /\ sp = [t \in Task |-> Bottom(Main)]
  /\ mem = [s \in Stack |-> [i \in 1 .. Depth |-> [group |-> "core", of |-> Nobody]]]
  /\ msp = Bottom(Main)
  /\ psp = Bottom(Main)
  /\ control = "MSP"
  /\ place = "main"
  /\ core = Nobody
  /\ callee = Nobody

-------------------------------------------------------------------------------

Up(p) == [p EXCEPT !.height = @ + 1]
Down(p) == [p EXCEPT !.height = @ - 1]

(* PUSH through p: the frame comes above p, over whatever lay there. *)
Push(p, frame) == mem' = [mem EXCEPT ![p.stack][p.height + 1] = frame]

(* The frame that POP through p takes. *)
Top(p) == mem[p.stack][p.height]

(* The frame for the first "exception return", and below it R4-R11. *)
vk_task_create(t) ==
  /\ place = "main"
  /\ sp[t] = Bottom(Main)
  /\ mem' = [mem EXCEPT ![t][1] = [group |-> "core", of |-> t],
                        ![t][2] = [group |-> "callee", of |-> t]]
  /\ sp' = [sp EXCEPT ![t] = [stack |-> t, height |-> 2]]
  /\ UNCHANGED <<vk_current, msp, psp, control, place, core, callee>>

Created(t) == sp[t] # Bottom(Main)

(* PSP is set, thread mode switched to it, and both frames are popped. *)
vk_start(first) ==
  /\ place = "main"
  /\ Created(first)
  /\ vk_current' = first
  /\ control' = "PSP"
  /\ callee' = Top(sp[first]).of
  /\ core' = Top(Down(sp[first])).of
  /\ psp' = Down(Down(sp[first]))
  /\ place' = "thread"
  /\ UNCHANGED <<sp, mem, msp>>

-------------------------------------------------------------------------------
\* PendSV_Handler.  From CPSID to CPSIE nothing comes in between; the steps
\* follow the handler's own comments.

(* The core stacks its frame on the stack that thread mode uses, and runs *)
(* the handler on MSP.                                                    *)
Enter ==
  LET p == IF control = "PSP" THEN psp ELSE msp IN
  /\ place = "thread"
  /\ p.height < Depth
  /\ Push(p, [group |-> "core", of |-> core])
  /\ IF control = "PSP" THEN psp' = Up(p) /\ msp' = msp
                        ELSE msp' = Up(p) /\ psp' = psp
  /\ place' = "save"
  /\ UNCHANGED <<vk_current, sp, control, core, callee>>

(* PUSH {R4-R11, LR} and STR SP: in a handler SP is MSP. *)
SaveContext ==
  /\ place = "save"
  /\ msp.height < Depth
  /\ Push(msp, [group |-> "callee", of |-> callee])
  /\ msp' = Up(msp)
  /\ sp' = [sp EXCEPT ![vk_current] = msp']
  /\ place' = "select"
  /\ UNCHANGED <<vk_current, psp, control, core, callee>>

SelectNext(t) ==
  /\ place = "select"
  /\ Created(t)
  /\ vk_current' = t
  /\ place' = "restore"
  /\ UNCHANGED <<sp, mem, msp, psp, control, core, callee>>

(* LDR SP and POP {R4-R11, LR}. *)
RestoreContext ==
  /\ place = "restore"
  /\ callee' = Top(sp[vk_current]).of
  /\ msp' = Down(sp[vk_current])
  /\ place' = "return"
  /\ UNCHANGED <<vk_current, sp, mem, psp, control, core>>

(* BX LR with 0xFFFFFFFD, the EXC_RETURN of every frame: the core unstacks *)
(* its frame from PSP.                                                     *)
ReturnToTask ==
  /\ place = "return"
  /\ psp.height > 0
  /\ core' = Top(psp).of
  /\ psp' = Down(psp)
  /\ control' = "PSP"
  /\ place' = "thread"
  /\ UNCHANGED <<vk_current, sp, mem, msp, callee>>

PendSV_Handler ==
  \/ SaveContext
  \/ \E t \in Task : SelectNext(t)
  \/ RestoreContext
  \/ ReturnToTask

Next ==
  \/ \E t \in Task : vk_task_create(t) \/ vk_start(t)
  \/ Enter
  \/ PendSV_Handler

Spec == Init /\ [][Next]_vars

-------------------------------------------------------------------------------

(* A task resumes with what it was switched out with: in thread mode both   *)
(* groups of registers are those of vk_current ("return from exception ->   *)
(* new task", PendSV_Handler).                                              *)
ResumesAsLeft ==
  place = "thread" => core = vk_current /\ callee = vk_current

===============================================================================
