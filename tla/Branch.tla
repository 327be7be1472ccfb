------------------------------- MODULE Branch -------------------------------
(***************************************************************************)
(* The branch instructions of the emulator (branch.c).                     *)
(***************************************************************************)
EXTENDS CpuState

COND_EQ == 0
COND_NE == 1
COND_GE == 10
COND_LT == 11
COND_GT == 12
COND_LE == 13
COND_AL == 14

\* The decoded branches; simm26 and simm19 are sign-extended.
UncondBranch == [op : {"b"}, simm26 : Int]
RegisterBranch == [op : {"br"}, rn : RegNums]
CondBranch == [op : {"b_cond"}, simm19 : Int, cond : 0 .. 15]

BranchOps == {"b", "br", "b_cond"}

\* Faults of the condition switch: gt forgets the overflow, lt includes
\* equality.
GreaterIgnoresOverflow(p, cond) ==
    CASE cond = COND_EQ -> p.Z
      [] cond = COND_NE -> ~p.Z
      [] cond = COND_GE -> ~p.N
      [] cond = COND_LT -> p.N
      [] cond = COND_GT -> ~p.Z /\ ~p.N
      [] cond = COND_LE -> ~(~p.Z /\ p.N = p.V)
      [] cond = COND_AL -> TRUE
      [] OTHER          -> FALSE

LessIncludesEqual(p, cond) ==
    CASE cond = COND_EQ -> p.Z
      [] cond = COND_NE -> ~p.Z
      [] cond = COND_GE -> ~p.N
      [] cond = COND_LT -> p.N \/ p.Z
      [] cond = COND_GT -> ~p.Z /\ p.N = p.V
      [] cond = COND_LE -> ~(~p.Z /\ p.N = p.V)
      [] cond = COND_AL -> TRUE
      [] OTHER          -> FALSE

\* ge and lt look at N alone; a condition the switch does not name is false.
Jumps(p, cond) ==
    CASE cond = COND_EQ -> p.Z
      [] cond = COND_NE -> ~p.Z
      [] cond = COND_GE -> ~p.N
      [] cond = COND_LT -> p.N
      [] cond = COND_GT -> ~p.Z /\ p.N = p.V
      [] cond = COND_LE -> ~(~p.Z /\ p.N = p.V)
      [] cond = COND_AL -> TRUE
      [] OTHER          -> FALSE

conditional_branch(cpu, offset, cond) ==
    [cpu EXCEPT !.PC = (@ + (IF Jumps(cpu.PSTATE, cond) THEN offset ELSE 4))
                           % XMod]

\* br 31 reads the register after R[30], which state_t makes the PC.
BranchTarget(cpu, rn) == IF rn = ZR_REG THEN cpu.PC ELSE cpu.R[rn]

\* A fault of branch_instruction: simm26 counted in bytes.
UnscaledBranch(cpu, i) ==
    CASE i.op = "b"      -> [cpu EXCEPT !.PC = (@ + i.simm26) % XMod]
      [] i.op = "br"     -> [cpu EXCEPT !.PC = BranchTarget(cpu, i.rn)]
      [] i.op = "b_cond" -> conditional_branch(cpu, i.simm19 * 4, i.cond)

branch_instruction(cpu, i) ==
    CASE i.op = "b"      -> [cpu EXCEPT !.PC = (@ + i.simm26 * 4) % XMod]
      [] i.op = "br"     -> [cpu EXCEPT !.PC = BranchTarget(cpu, i.rn)]
      [] i.op = "b_cond" -> conditional_branch(cpu, i.simm19 * 4, i.cond)
=============================================================================
