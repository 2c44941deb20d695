------------------------------ MODULE CliTasks ------------------------------
(***************************************************************************)
(* The command line example uwb_CLI.  Commands are run in the interrupt of *)
(* the UART: a start sets the execute flag of a task, a suspend clears the *)
(* running flag of a role.  The main loop goes through the tasks in order  *)
(* (TaskHandler); a task registers its callbacks, uses the radio until its *)
(* role is suspended or, for the single packets of command a, until its    *)
(* interrupt has come, removes its callbacks and returns.  Interrupts and  *)
(* commands come between any two steps of the main loop.  The callback     *)
(* lists are what CallbackSet promises, which IrqCallbacks implements.     *)
(* Packets, timers and the states of a role are left out: a role starts    *)
(* the radio and takes the flags its interrupts set.                       *)
(***************************************************************************)
EXTENDS Integers, Sequences

CONSTANTS Entries,    \* enIrqEntry
          Order,      \* the tasks as TaskHandler goes through them
          Once,       \* tasks of one packet: commtx, commrx
          FlagFirst,  \* tasks that set the running flag, then register
          Role,       \* dstwr, pdoa, ...: the module of a task
          Uses,       \* the interrupt entries of a task, as registered
          MaxFails    \* calls of register that find no memory

Tasks == {Order[i] : i \in DOMAIN Order}
Roles == {Role[t] : t \in Tasks}
Suspendable == {Role[t] : t \in Tasks \ Once}

ASSUME TasksAssumption ==
    /\ Order \in Seq(Tasks) /\ Order # <<>> /\ MaxFails \in Nat
    /\ Once \subseteq Tasks /\ FlagFirst \subseteq Tasks \ Once
    /\ \A t \in Tasks : Uses[t] \in Seq(Entries) /\ Len(Uses[t]) > 0

VARIABLES execute,    \* g_task_*_execute
          running,    \* s_*RunningFlag of a role
          status,     \* s_stIrqStatus of a role: the entries that came
          at,         \* where TaskHandler is
          pc,         \* where the task at this place is
          todo,       \* entries it has still to register or remove
          armed,      \* entries whose event the radio was started for
          wanted,     \* tasks started since they began last
          registered, \* roles with a callback in the list of an entry
          fails       \* failed registrations so far

listVars == <<registered, fails>>
vars     == <<execute, running, status, at, pc, todo, armed, wanted, listVars>>

Places == {"scan", "register", "enter", "loop", "wait", "remove", "reset", "off"}
Task   == Order[at]
Mine   == Role[Task]

TypeOK ==
    /\ execute \in [Tasks -> BOOLEAN]
    /\ running \in [Suspendable -> BOOLEAN]
    /\ status \in [Roles -> SUBSET Entries]
    /\ at \in DOMAIN Order
    /\ pc \in Places
    /\ todo \in Seq(Entries)
    /\ armed \subseteq Entries
    /\ wanted \subseteq Tasks
    /\ registered \in [Entries -> SUBSET Roles]
    /\ fails \in 0..MaxFails

Init ==
    /\ execute = [t \in Tasks |-> FALSE]
    /\ running = [r \in Suspendable |-> FALSE]
    /\ status = [r \in Roles |-> {}]
    /\ at = 1 /\ pc = "scan" /\ todo = <<>>
    /\ armed = {} /\ wanted = {}
    /\ registered = [e \in Entries |-> {}] /\ fails = 0
-----------------------------------------------------------------------------
(* The command line: processUartRxBuffer and APP_UART_Func_a to _d.        *)
Start(t) ==
    /\ execute' = [execute EXCEPT ![t] = TRUE]
    /\ wanted' = wanted \cup {t}
    /\ UNCHANGED <<listVars, running, status, at, pc, todo, armed>>

Suspend(r) ==                         \* app_dstwr_suspend and its like
    /\ running' = [running EXCEPT ![r] = FALSE]
    /\ UNCHANGED <<listVars, execute, status, at, pc, todo, armed, wanted>>

Command == (\E t \in Tasks : Start(t)) \/ (\E r \in Suspendable : Suspend(r))

(* An event of the radio: one for every start of it.                       *)
Interrupt(e) ==
    /\ e \in armed
    /\ status' = [r \in Roles |->
                    IF r \in registered[e] THEN status[r] \cup {e} ELSE status[r]]
    /\ armed' = armed \ {e}
    /\ UNCHANGED <<listVars, execute, running, at, pc, todo, wanted>>
-----------------------------------------------------------------------------
(* TaskHandler.                                                            *)
NextTaskNoWrap == at + 1
NextTask == IF at = Len(Order) THEN 1 ELSE at + 1

Skip ==
    /\ pc = "scan" /\ ~execute[Task]
    /\ at' = NextTask
    /\ UNCHANGED <<listVars, execute, running, status, pc, todo, armed, wanted>>

Begin ==
    /\ pc = "scan" /\ execute[Task]
    /\ pc' = IF Task \in FlagFirst THEN "enter" ELSE "register"
    /\ todo' = Uses[Task]
    /\ wanted' = wanted \ {Task}
    /\ UNCHANGED <<listVars, execute, running, status, at, armed>>

ReturnKeepsFlag ==
    /\ pc = "off" /\ armed = {}
    /\ pc' = "scan" /\ at' = NextTask
    /\ UNCHANGED <<listVars, execute, running, status, todo, armed, wanted>>

ReturnStartsOver ==
    /\ pc = "off" /\ armed = {}
    /\ execute' = [execute EXCEPT ![Task] = FALSE]
    /\ pc' = "scan" /\ at' = 1
    /\ UNCHANGED <<listVars, running, status, todo, armed, wanted>>

Return ==                             \* the flag is cleared after the task
    /\ pc = "off" /\ armed = {}
    /\ execute' = [execute EXCEPT ![Task] = FALSE]
    /\ pc' = "scan" /\ at' = NextTask
    /\ UNCHANGED <<listVars, running, status, todo, armed, wanted>>
-----------------------------------------------------------------------------
(* The task: app_pdoa_initiator, app_uwb_commrx_main and the others.       *)
RegisterNext ==
    /\ pc = "register" /\ todo # <<>>
    /\ \/ /\ registered' = [registered EXCEPT ![Head(todo)] = @ \cup {Mine}]
          /\ UNCHANGED fails
       \/ /\ fails < MaxFails /\ fails' = fails + 1
          /\ UNCHANGED registered
    /\ todo' = Tail(todo)
    /\ UNCHANGED <<execute, running, status, at, pc, armed, wanted>>

AllRegistered ==
    /\ pc = "register" /\ todo = <<>>
    /\ pc' = IF Task \in FlagFirst \cup Once THEN "loop" ELSE "enter"
    /\ UNCHANGED <<listVars, execute, running, status, at, todo, armed, wanted>>

SetRunning ==
    /\ pc = "enter"
    /\ running' = [running EXCEPT ![Mine] = TRUE]
    /\ pc' = IF Task \in FlagFirst THEN "register" ELSE "loop"
    /\ UNCHANGED <<listVars, execute, status, at, todo, armed, wanted>>

StartOnce(e) ==
    /\ pc = "loop" /\ Task \in Once
    /\ armed' = armed \cup {e}
    /\ pc' = "wait"
    /\ UNCHANGED <<listVars, execute, running, status, at, todo, wanted>>

TakeDone(e) ==                        \* s_simpleTxDoneFlag, s_simpleRxDoneFlag
    /\ pc = "wait" /\ e \in status[Mine]
    /\ status' = [status EXCEPT ![Mine] = @ \ {e}]
    /\ pc' = "remove" /\ todo' = Uses[Task]
    /\ UNCHANGED <<listVars, execute, running, at, armed, wanted>>

RoleGoesOn == pc = "loop" /\ Task \notin Once /\ running[Mine]

StartRadio(e) ==
    /\ RoleGoesOn /\ e \notin armed
    /\ armed' = armed \cup {e}
    /\ UNCHANGED <<listVars, execute, running, status, at, pc, todo, wanted>>

TakeFlag(e) ==
    /\ RoleGoesOn /\ e \in status[Mine]
    /\ status' = [status EXCEPT ![Mine] = @ \ {e}]
    /\ UNCHANGED <<listVars, execute, running, at, pc, todo, armed, wanted>>

LeaveLoopForgetsOne ==
    /\ pc = "loop" /\ Task \notin Once /\ ~running[Mine]
    /\ pc' = "remove" /\ todo' = Tail(Uses[Task])
    /\ UNCHANGED <<listVars, execute, running, status, at, armed, wanted>>

LeaveLoop ==
    /\ pc = "loop" /\ Task \notin Once /\ ~running[Mine]
    /\ pc' = "remove" /\ todo' = Uses[Task]
    /\ UNCHANGED <<listVars, execute, running, status, at, armed, wanted>>

RemoveNext ==
    /\ pc = "remove" /\ todo # <<>>
    /\ registered' = [registered EXCEPT ![Head(todo)] = @ \ {Mine}]
    /\ todo' = Tail(todo)
    /\ UNCHANGED <<fails, execute, running, status, at, pc, armed, wanted>>

AllRemoved ==
    /\ pc = "remove" /\ todo = <<>>
    /\ pc' = IF Task \in Once THEN "off" ELSE "reset"
    /\ UNCHANGED <<listVars, execute, running, status, at, todo, armed, wanted>>

ResetForgotten ==
    /\ pc = "reset"
    /\ pc' = "off"
    /\ UNCHANGED <<listVars, execute, running, status, at, todo, armed, wanted>>

Reset ==                              \* app_pdoa_reset and its like
    /\ pc = "reset"
    /\ status' = [status EXCEPT ![Mine] = {}]
    /\ pc' = "off"
    /\ UNCHANGED <<listVars, execute, running, at, todo, armed, wanted>>

RadioOff ==                           \* tx_end, rx_end, cb_framework_uwb_off
    /\ pc = "off" /\ armed # {}
    /\ armed' = {}
    /\ UNCHANGED <<listVars, execute, running, status, at, pc, todo, wanted>>

MainLoop ==
    \/ Skip \/ Begin \/ Return
    \/ RegisterNext \/ AllRegistered \/ SetRunning
    \/ \E i \in DOMAIN Uses[Task] :
          LET e == Uses[Task][i]
          IN  StartOnce(e) \/ TakeDone(e) \/ StartRadio(e) \/ TakeFlag(e)
    \/ LeaveLoop \/ RemoveNext \/ AllRemoved \/ Reset \/ RadioOff

Next == MainLoop \/ Command \/ \E e \in Entries : Interrupt(e)

Spec == Init /\ [][Next]_vars

(* The main loop runs on, the event the radio was started for comes, and   *)
(* whoever is at the command line suspends a role some time.               *)
FairSpec == /\ Spec /\ WF_vars(MainLoop)
            /\ \A e \in Entries : WF_vars(Interrupt(e))
            /\ \A r \in Suspendable : WF_vars(running[r] /\ Suspend(r))
-----------------------------------------------------------------------------
(* An interrupt that comes late, between two tasks or in the next one,     *)
(* finds no callback of another role.                                      *)
OnlyOwnCallbacks ==
    \A e \in Entries : registered[e] \subseteq (IF pc = "scan" THEN {} ELSE {Mine})

(* No interrupt of an earlier run, however late it came, has left a flag   *)
(* that a task would take for an event of its own.                         *)
FlagsClearAtStart == pc \in {"scan", "enter", "register"} =>
                         \A r \in Roles : status[r] = {}

(* A task runs again only if it was started after it began last, although  *)
(* a start that comes while it runs is dropped when it returns.            *)
RunsOncePerStart == [][Begin => Task \in wanted]_vars

(* A task that was started gets its turn, whatever is started besides and  *)
(* whenever it is suspended, unless an allocation failed: without its      *)
(* callback a task of one packet waits for ever, and everything with it.   *)
EveryTaskGetsItsTurn ==
    \A t \in Tasks :
        execute[t] ~> (Task = t /\ pc # "scan") \/ fails > 0
=============================================================================
