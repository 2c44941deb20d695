---------------------------- MODULE MCInterrupts ----------------------------
(***************************************************************************)
(* The callback lists under any use of them, and the command line example  *)
(* on top of what they promise.  A behaviour is one or the other.          *)
(***************************************************************************)
EXTENDS CliTasks, FiniteSets

CONSTANTS Callbacks, Nodes, Null, Garbage

VARIABLES part, head, node, unused, op, listFails, ran

irqVars == <<head, node, unused, op, listFails, ran>>

Irq == INSTANCE IrqCallbacks WITH fails <- listFails

mcVars == <<part, vars, irqVars>>

ASSUME ListsAssumption == /\ IsFiniteSet(Nodes) /\ Null \notin Nodes
                          /\ Garbage \notin Callbacks

(* One task of a single packet, the two tasks of one role, and one that    *)
(* sets its running flag before it registers.                              *)
MCOrder == <<"a_rx", "b_ini", "b_resp", "d_ini">>
MCRole  == [a_rx |-> "commtrx", b_ini |-> "dstwr", b_resp |-> "dstwr",
            d_ini |-> "rngaoa"]
MCUses  == [a_rx |-> <<"rx0">>, b_ini |-> <<"tx", "rx0">>,
            b_resp |-> <<"tx", "rx0">>, d_ini |-> <<"tx", "rx0">>]

MCInit == part \in {"lists", "tasks"} /\ Init /\ Irq!Init

ListsNext == part = "lists" /\ Irq!Next /\ UNCHANGED vars
TasksNext == part = "tasks" /\ Next /\ UNCHANGED irqVars

MCSpec ==
    /\ MCInit /\ [][(ListsNext \/ TasksNext) /\ UNCHANGED part]_mcVars
    /\ WF_mcVars(part = "tasks" /\ MainLoop /\ UNCHANGED <<part, irqVars>>)
    /\ \A e \in Entries :
          WF_mcVars(part = "tasks" /\ Interrupt(e) /\ UNCHANGED <<part, irqVars>>)
    /\ \A r \in Suspendable :
          WF_mcVars(part = "tasks" /\ running[r] /\ Suspend(r)
                    /\ UNCHANGED <<part, irqVars>>)

TypesOK      == TypeOK /\ Irq!TypeOK
ListsAreSets == Irq!ListsAreSets
HeapBalanced == Irq!HeapBalanced
=============================================================================
