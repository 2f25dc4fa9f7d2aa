------------------------------- MODULE Boot -------------------------------
(***************************************************************************)
(* The machine from power-on to a kernel that can hand out memory: the     *)
(* boot loader, what the user and the host do to it, the jump, and the     *)
(* kernel's own start.  The loader hands over nothing but the processor    *)
(* and the address of the device tree, and everything of its own is gone   *)
(* for the kernel.                                                         *)
(***************************************************************************)
EXTENDS Loader, Startup

vars == <<loaderVars, startupVars>>

Init == LoaderInit /\ StartupInit

\* command_load's last line, the kernel's first.
start_kernel ==
    /\ jump
    /\ stage' = "entry"
    /\ UNCHANGED <<mapped, found, pool, reserved_regions, arrays>>

\* The user switches the machine off and on: to load another kernel, or
\* because the loader waits for bytes nobody will send.
power_cycle ==
    /\ Waits \/ stage = "ready"
    /\ reload
    /\ switch_off

Processor ==
    \/ LoaderStep /\ UNCHANGED startupVars
    \/ start_kernel
    \/ StartupStep /\ UNCHANGED loaderVars

User ==
    \/ HostStep /\ UNCHANGED startupVars
    \/ power_cycle

Next == Processor \/ User

\* The processor goes on; nobody has to type, send or switch.
Spec == Init /\ [][Next]_vars /\ WF_vars(Processor)

(***************************************************************************)
(* The loader always comes to its prompt in its new place, and a kernel    *)
(* that was sent whole is started and comes to the end of its own start.   *)
(***************************************************************************)
SentKernelRuns ==
    /\ (pc = "start") ~> (pc = "shell" /\ home = "copy")
    /\ (file # <<>> /\ rx = Sent(file)) ~> (stage = "ready")
============================================================================
