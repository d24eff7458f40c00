----------------------------- MODULE SchedReuse -----------------------------
(***************************************************************************)
(* Sched.tla with the process table reused: newproc of                     *)
(* kernel/processes/proc.c takes a Proc off procalloc.free, where          *)
(* schedinit puts the Proc of a process that has exited.                   *)
(*                                                                         *)
(* schedinit puts it there, and releases procalloc, before it executes     *)
(* up->cpu = nil (Schedinit and ClearCpu of Sched.tla): in between,        *)
(* another processor can make a new process of the same Proc.  A Dead      *)
(* process is on procalloc.free.                                           *)
(***************************************************************************)
EXTENDS Sched

(* newproc, called by a running process; the caller will ready() it.       *)
Newproc(c, p) ==
    /\ Executes(c)
    /\ state[up[c]] = "Running"
    /\ state[p] = "Dead"
    /\ state' = [state EXCEPT ![p] = "Scheding"]
    /\ priority' = [priority EXCEPT ![p] = Npriq - 1]
    /\ oncpu' = [oncpu EXCEPT ![p] = NoCpu]
    /\ lastcpu' = [lastcpu EXCEPT ![p] = NoCpu]
    /\ wired' = [wired EXCEPT ![p] = NoCpu]
    /\ waiting' = waiting \cup {p}
    /\ UNCHANGED <<fixedpri, runq, cpuvars>>

ReuseNext == Next \/ \E c \in Cpu, p \in Proc : Newproc(c, p)

ReuseSpec == Init /\ [][ReuseNext]_vars
=============================================================================
