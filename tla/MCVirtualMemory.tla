-------------------------- MODULE MCVirtualMemory --------------------------
EXTENDS VirtualMemory, TLC

ReadWrite == {{"r", "w"}}
WriteOnly == {{"w"}}

\* Processes and frames are interchangeable.
Interchangeable == Permutations(Procs) \cup Permutations(Frames)

\* States are told apart by what a later step may read: of a process that has
\* no life of its own any more the frames it still has, of one half-built
\* whether it has code to fault at, of a frame that no live process has the
\* count.  Of areas it reads which pages they cover: with one program and one
\* protection to ask for, and memory for every area, two side by side are like
\* one.
Covered(p) == {v \in Pages : HasArea(p, v)}
Entry(p, v) == IF status[p] = "live" THEN pte[p][v] ELSE pte[p][v].frame
OfLive(field, nothing) == [p \in Procs |-> IF status[p] = "live" THEN field[p] ELSE nothing]
StillRead(f) == \E p \in Procs : status[p] = "live" /\
                    (faulting[p].frame = f \/ \E v \in Pages : pte[p][v].frame = f)
LaterSteps ==
    <<status, OfLive(tables, {}), [p \in Procs |-> [v \in Pages |-> Entry(p, v)]],
      OfLive(signal_stack, NoFrame), OfLive(is_handling_signal, FALSE), ref_count, faulting,
      [p \in Procs |-> CASE status[p] = "live" -> Covered(p)
                         [] status[p] = "half_built" -> Covered(p) \cap {0}
                         [] OTHER -> {}],
      [f \in Frames |-> IF StillRead(f) THEN content[f] ELSE Zero]>>
=============================================================================
