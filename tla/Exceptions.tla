----------------------------- MODULE Exceptions -----------------------------
(***************************************************************************)
(* From an exception of the CPU to the report on the screen: the stubs,    *)
(* isr_stub.asm, build one frame for all vectors on top of what the CPU    *)
(* has pushed, and isr_handler, isr.c, and page_fault_handler, panic.c,    *)
(* read it as registers_t.                                                 *)
(***************************************************************************)
EXTENDS Integers, Sequences

\* What the CPU pushes as an error code; any other word there is.
ErrorCode == -1
Other     == -2

Vectors == 0 .. 31

\* The vectors for which the CPU pushes an error code.  (29, of which no text of
\* the kernel says so, is raised on virtual machines of one kind only.)
WithErrorCode == {8, 10, 11, 12, 13, 14, 17, 21, 30}

CpuPushes(vector) ==
    (IF vector \in WithErrorCode THEN <<ErrorCode>> ELSE <<>>) \o <<Other, Other, Other>>

\* The stubs that push no word for the error code.
ISR_ERR == {8, 10, 11, 12, 13, 14, 17, 21, 30}

StubPushes(vector) == IF vector \in ISR_ERR THEN <<vector>> ELSE <<vector, 0>>

\* pusha and ds.
CommonStubPushes == [i \in 1 .. 9 |-> Other]

\* The frame, from the top of the stack.
registers_t(vector) == CommonStubPushes \o StubPushes(vector) \o CpuPushes(vector)

int_no(regs)   == regs[10]
err_code(regs) == regs[11]

\* What the report says, and what it should say: which exception, and the CPU's
\* error code, or 0.
isr_handler(regs) == [exception |-> int_no(regs), error |-> err_code(regs)]

Report(vector) ==
    [exception |-> vector,
     error     |-> IF vector \in WithErrorCode THEN ErrorCode ELSE 0]
=============================================================================
