---------------------------- MODULE MCTrapEntry ----------------------------
EXTENDS TrapEntry, TLC

\* The threads of programs are interchangeable.
Interchangeable == Permutations(Threads \ {Boot})
\* States that differ in registers and contexts nobody reads again are one:
\* the CSRs of the last trap outside the return, the context in task_struct of
\* the running thread, schedule()'s variables after it returned, tf after its
\* call.
Live ==
    <<IF In("ret_regs") THEN cpu ELSE [cpu EXCEPT !.sepc = Entry, !.spp = "U", !.spie = TRUE],
      stack, alive,
      [t \in Threads |->
          IF t \notin alive THEN thread[t].reg ELSE IF t = cpu.tp THEN 0 ELSE thread[t]],
      [t \in Threads |-> IF (t = cpu.tp /\ In("schedule")) \/ (t \in alive \ {cpu.tp} /\ thread[t].ra = "schedule")
                         THEN local[t] ELSE 0],
      [t \in alive |-> IF stack[t] # <<>> /\ stack[t][1].scause = "ecall" THEN tf[t] ELSE 0]>>
=============================================================================
