--------------------------- MODULE Interrupts_proofs --------------------------
(***************************************************************************)
(* For every list of tasks, roles and interrupt entries: callbacks and     *)
(* flags never pass from one task to the next, and no task runs again      *)
(* without having been started again.  For all callbacks and every heap:   *)
(* the linked lists are the sets that CallbackSet promises, between any    *)
(* two writes of the main loop, and no node is lost.                       *)
(***************************************************************************)
EXTENDS MCInterrupts, FiniteSetTheorems, FunctionTheorems,
        WellFoundedInduction, TLAPS

Elems(s) == {s[i] : i \in 1..Len(s)}

(* What is registered: by the place of the task, and never for an entry    *)
(* the task does not use, so that it removes all there is.                 *)
Registrations ==
    /\ \A e \in Entries : registered[e] \subseteq {Mine}
    /\ \A e \in Entries : registered[e] # {} => e \in Elems(Uses[Task])
    /\ pc \in {"scan", "reset", "off"} => \A e \in Entries : registered[e] = {}
    /\ pc = "remove" =>
          \A e \in Entries : registered[e] # {} => e \in Elems(todo)
    /\ pc \in {"enter", "register"} => Elems(todo) \subseteq Elems(Uses[Task])

Quiet == armed = {} /\ \A r \in Roles : status[r] = {}

(* Whose flags may be set, and when the radio may still set one.           *)
Flags ==
    /\ \A r \in Roles : r # Mine => status[r] = {}
    /\ pc \in {"scan", "enter", "register"} => Quiet
    /\ pc = "off" => \A r \in Roles : status[r] = {}
    /\ pc = "reset" => Task \notin Once
    /\ Task \in Once /\ pc \in {"loop", "remove", "off"} => Quiet
    /\ pc = "wait" => /\ Task \in Once
                      /\ armed \cap status[Mine] = {}
                      /\ \E e \in Entries : armed \cup status[Mine] \subseteq {e}

Started == \A t \in Tasks : execute[t] /\ (pc = "scan" \/ t # Task) => t \in wanted

TasksInv == TypeOK /\ Registrations /\ Flags /\ Started

(* A task is one of the list, and its role one of the roles.               *)
LEMMA TaskInList ==
    ASSUME at \in DOMAIN Order
    PROVE  Task \in Tasks /\ Mine \in Roles
           /\ (Task \notin Once => Mine \in Suspendable)
           /\ Uses[Task] \in Seq(Entries) /\ Uses[Task] # <<>>
<1>1. Task \in Tasks
  BY DEF Task, Tasks
<1> QED
  BY <1>1, TasksAssumption DEF Mine, Roles, Suspendable

(* What TaskHandler comes to next is in the list.                          *)
LEMMA NextInList ==
    ASSUME at \in DOMAIN Order
    PROVE  NextTask \in DOMAIN Order
<1>1. Order \in Seq(Tasks) /\ Order # <<>> /\ DOMAIN Order = 1..Len(Order)
  BY TasksAssumption
<1>2. Len(Order) \in Nat /\ Len(Order) >= 1
  BY <1>1
<1> QED
  BY <1>1, <1>2 DEF NextTask

(* The elements of a sequence are its head and those of its tail.          *)
LEMMA HeadAndTail ==
    ASSUME NEW S, NEW s \in Seq(S), s # <<>>
    PROVE  /\ Head(s) \in S /\ Tail(s) \in Seq(S)
           /\ Elems(s) = {Head(s)} \cup Elems(Tail(s))
<1>1. Len(s) \in Nat /\ Len(s) >= 1
  OBVIOUS
<1>2. Head(s) = s[1] /\ Tail(s) \in Seq(S) /\ Len(Tail(s)) = Len(s) - 1
  BY <1>1
<1>3. \A i \in 1..(Len(s) - 1) : Tail(s)[i] = s[i + 1]
  BY <1>1
<1>4. ASSUME NEW i \in 1..Len(s)
      PROVE  s[i] \in {Head(s)} \cup Elems(Tail(s))
  <2>1. CASE i = 1
    BY <2>1, <1>2
  <2>2. CASE i # 1
    <3>1. i - 1 \in 1..(Len(s) - 1) /\ s[i] = Tail(s)[i - 1]
      BY <2>2, <1>1, <1>3
    <3> QED
      BY <3>1, <1>2 DEF Elems
  <2> QED
    BY <2>1, <2>2
<1>5. ASSUME NEW i \in 1..(Len(s) - 1)
      PROVE  Tail(s)[i] \in Elems(s)
  <2>1. i + 1 \in 1..Len(s) /\ Tail(s)[i] = s[i + 1]
    BY <1>1, <1>3
  <2> QED
    BY <2>1 DEF Elems
<1>6. Head(s) \in Elems(s)
  BY <1>1, <1>2 DEF Elems
<1> QED
  BY <1>1, <1>2, <1>4, <1>5, <1>6 DEF Elems

LEMMA EmptyElems == Elems(<<>>) = {}
BY DEF Elems
-----------------------------------------------------------------------------
LEMMA InitTasksInv == Init => TasksInv
<1> SUFFICES ASSUME Init PROVE TasksInv
  OBVIOUS
<1>1. at \in DOMAIN Order /\ todo \in Seq(Entries) /\ fails \in 0..MaxFails
  <2>1. Order \in Seq(Tasks) /\ Order # <<>>
    BY TasksAssumption
  <2>2. 1 \in DOMAIN Order
    BY <2>1
  <2> QED
    BY <2>2, TasksAssumption DEF Init
<1>2. TypeOK
  BY <1>1 DEF Init, TypeOK, Places
<1>3. Registrations /\ Flags /\ Started
  BY DEF Init, Registrations, Flags, Started, Quiet
<1> QED
  BY <1>2, <1>3 DEF TasksInv
-----------------------------------------------------------------------------
(* Every step keeps the types.                                             *)
LEMMA NextTypeOK == TypeOK /\ Next => TypeOK'
<1> SUFFICES ASSUME TypeOK, Next PROVE TypeOK'
  OBVIOUS
<1>t. Task \in Tasks /\ Mine \in Roles /\ Uses[Task] \in Seq(Entries) /\ Uses[Task] # <<>>
  BY TaskInList DEF TypeOK
<1>m. Task \notin Once => Mine \in Suspendable
  BY TaskInList DEF TypeOK
<1>n. NextTask \in DOMAIN Order
  BY NextInList DEF TypeOK
<1>h. todo # <<>> => Head(todo) \in Entries /\ Tail(todo) \in Seq(Entries)
  BY HeadAndTail DEF TypeOK
<1>u. \A i \in DOMAIN Uses[Task] : Uses[Task][i] \in Entries
  BY <1>t
<1>1. ASSUME NEW t \in Tasks, Start(t) PROVE TypeOK'
  BY <1>1 DEF Start, TypeOK, listVars
<1>2. ASSUME NEW r \in Suspendable, Suspend(r) PROVE TypeOK'
  BY <1>2 DEF Suspend, TypeOK, listVars
<1>3. ASSUME NEW e \in Entries, Interrupt(e) PROVE TypeOK'
  <2>1. status' \in [Roles -> SUBSET Entries]
    BY <1>3 DEF Interrupt, TypeOK
  <2>2. armed' \subseteq Entries
    BY <1>3 DEF Interrupt, TypeOK
  <2> QED
    BY <1>3, <2>1, <2>2 DEF Interrupt, TypeOK, listVars
<1>4. CASE Skip
  BY <1>4, <1>n DEF Skip, TypeOK, listVars
<1>5. CASE Begin
  BY <1>5, <1>t DEF Begin, TypeOK, Places, listVars
<1>6. CASE Return
  BY <1>6, <1>n, <1>t DEF Return, TypeOK, Places, listVars
<1>7. CASE RegisterNext
  <2>1. registered' \in [Entries -> SUBSET Roles]
    BY <1>7, <1>h, <1>t DEF RegisterNext, TypeOK
  <2>2. fails' \in 0..MaxFails
    BY <1>7, TasksAssumption DEF RegisterNext, TypeOK
  <2> QED
    BY <1>7, <1>h, <2>1, <2>2 DEF RegisterNext, TypeOK
<1>8. CASE AllRegistered
  BY <1>8 DEF AllRegistered, TypeOK, Places, listVars
<1>9. CASE SetRunning
  BY <1>9 DEF SetRunning, TypeOK, Places, listVars
<1>10. ASSUME NEW e \in Entries, StartOnce(e) PROVE TypeOK'
  BY <1>10 DEF StartOnce, TypeOK, Places, listVars
<1>11. ASSUME NEW e \in Entries, TakeDone(e) PROVE TypeOK'
  BY <1>11, <1>t DEF TakeDone, TypeOK, Places, listVars
<1>12. ASSUME NEW e \in Entries, StartRadio(e) PROVE TypeOK'
  BY <1>12 DEF StartRadio, TypeOK, listVars
<1>13. ASSUME NEW e \in Entries, TakeFlag(e) PROVE TypeOK'
  BY <1>13, <1>t DEF TakeFlag, TypeOK, listVars
<1>14. CASE LeaveLoop
  BY <1>14, <1>t DEF LeaveLoop, TypeOK, Places, listVars
<1>15. CASE RemoveNext
  BY <1>15, <1>h, <1>t DEF RemoveNext, TypeOK
<1>16. CASE AllRemoved
  BY <1>16 DEF AllRemoved, TypeOK, Places, listVars
<1>17. CASE Reset
  BY <1>17, <1>t DEF Reset, TypeOK, Places, listVars
<1>18. CASE RadioOff
  BY <1>18 DEF RadioOff, TypeOK, listVars
<1> QED
  BY <1>1, <1>2, <1>3, <1>4, <1>5, <1>6, <1>7, <1>8, <1>9, <1>10, <1>11, <1>12,
     <1>13, <1>14, <1>15, <1>16, <1>17, <1>18, <1>u DEF Next, MainLoop, Command

(* Callbacks: only those of the task at this place, and none of a task that*)
(* has gone through the list of those it removes.                          *)
LEMMA NextRegistrations == TypeOK /\ Registrations /\ Next => Registrations'
<1> SUFFICES ASSUME TypeOK, Registrations, Next PROVE Registrations'
  OBVIOUS
<1>t. Mine \in Roles /\ Uses[Task] \in Seq(Entries) /\ Uses[Task] # <<>>
  BY TaskInList DEF TypeOK
<1>s. at' = at => Task' = Task /\ Mine' = Mine
  BY DEF Task, Mine
<1>h. todo # <<>> => Elems(todo) = {Head(todo)} \cup Elems(Tail(todo))
  BY HeadAndTail DEF TypeOK
<1>0. ASSUME at' = at, pc' = pc, todo' = todo, registered' = registered
      PROVE  Registrations'
  BY <1>0, <1>s DEF Registrations
<1>1. ASSUME NEW t \in Tasks, Start(t) PROVE Registrations'
  BY <1>1, <1>0 DEF Start, listVars
<1>2. ASSUME NEW r \in Suspendable, Suspend(r) PROVE Registrations'
  BY <1>2, <1>0 DEF Suspend, listVars
<1>3. ASSUME NEW e \in Entries, Interrupt(e) PROVE Registrations'
  BY <1>3, <1>0 DEF Interrupt, listVars
<1>4. CASE Skip
  BY <1>4 DEF Skip, Registrations, listVars
<1>5. CASE Begin
  <2>1. at' = at /\ registered' = registered /\ todo' = Uses[Task]
        /\ pc' \in {"enter", "register"} /\ \A e \in Entries : registered[e] = {}
    BY <1>5 DEF Begin, Registrations, listVars
  <2> QED
    BY <2>1, <1>s DEF Registrations
<1>6. CASE Return
  BY <1>6 DEF Return, Registrations, listVars
<1>7. CASE RegisterNext
  <2>1. at' = at /\ pc = "register" /\ pc' = pc /\ todo' = Tail(todo)
    BY <1>7 DEF RegisterNext
  <2>2. Head(todo) \in Elems(Uses[Task]) /\ Elems(todo') \subseteq Elems(Uses[Task])
    BY <2>1, <1>7, <1>h DEF RegisterNext, Registrations
  <2>3. ASSUME NEW e \in Entries
        PROVE  registered'[e] \subseteq {Mine}
               /\ (registered'[e] # {} => e \in Elems(Uses[Task]))
    <3>1. registered'[e] = registered[e]
          \/ (e = Head(todo) /\ registered'[e] = registered[e] \cup {Mine})
      BY <1>7 DEF RegisterNext, TypeOK
    <3> QED
      BY <3>1, <2>2 DEF Registrations
  <2> QED
    BY <2>1, <2>2, <2>3, <1>s DEF Registrations
<1>8. CASE AllRegistered
  <2>1. at' = at /\ registered' = registered /\ todo' = todo
        /\ pc = "register" /\ pc' \in {"enter", "loop"}
    BY <1>8 DEF AllRegistered, listVars
  <2> QED
    BY <2>1, <1>s DEF Registrations
<1>9. CASE SetRunning
  <2>1. at' = at /\ registered' = registered /\ todo' = todo
        /\ pc = "enter" /\ pc' \in {"register", "loop"}
    BY <1>9 DEF SetRunning, listVars
  <2> QED
    BY <2>1, <1>s DEF Registrations
<1>10. ASSUME NEW e \in Entries, StartOnce(e) PROVE Registrations'
  BY <1>10, <1>s DEF StartOnce, Registrations, listVars
<1>11. ASSUME NEW e \in Entries, TakeDone(e) PROVE Registrations'
  BY <1>11, <1>s DEF TakeDone, Registrations, listVars
<1>12. ASSUME NEW e \in Entries, StartRadio(e) PROVE Registrations'
  BY <1>12, <1>0 DEF StartRadio, listVars
<1>13. ASSUME NEW e \in Entries, TakeFlag(e) PROVE Registrations'
  BY <1>13, <1>0 DEF TakeFlag, listVars
<1>14. CASE LeaveLoop
  BY <1>14, <1>s DEF LeaveLoop, Registrations, listVars
<1>15. CASE RemoveNext
  <2>1. at' = at /\ pc = "remove" /\ pc' = pc /\ todo' = Tail(todo)
    BY <1>15 DEF RemoveNext
  <2>2. ASSUME NEW e \in Entries
        PROVE  /\ registered'[e] \subseteq registered[e]
               /\ registered'[e] # {} => e \in Elems(Tail(todo))
    <3>1. registered'[e] = IF e = Head(todo) THEN registered[e] \ {Mine}
                                             ELSE registered[e]
      BY <1>15 DEF RemoveNext, TypeOK
    <3>2. registered[e] # {} => e \in Elems(todo)
      BY <2>1 DEF Registrations
    <3> QED
      BY <3>1, <3>2, <1>h, <1>15 DEF RemoveNext, Registrations
  <2> QED
    BY <2>1, <2>2, <1>s DEF Registrations
<1>16. CASE AllRemoved
  <2>1. at' = at /\ registered' = registered /\ todo' = todo
        /\ pc' \in {"off", "reset"}
    BY <1>16 DEF AllRemoved, listVars
  <2>2. \A e \in Entries : registered[e] = {}
    BY <1>16, EmptyElems DEF AllRemoved, Registrations
  <2> QED
    BY <2>1, <2>2, <1>s DEF Registrations
<1>17. CASE Reset
  BY <1>17, <1>s DEF Reset, Registrations, listVars
<1>18. CASE RadioOff
  BY <1>18, <1>0 DEF RadioOff, listVars
<1>u. \A i \in DOMAIN Uses[Task] : Uses[Task][i] \in Entries
  BY <1>t
<1> QED
  BY <1>1, <1>2, <1>3, <1>4, <1>5, <1>6, <1>7, <1>8, <1>9, <1>10, <1>11, <1>12,
     <1>13, <1>14, <1>15, <1>16, <1>17, <1>18, <1>u DEF Next, MainLoop, Command

(* Flags: an interrupt sets only those of the role that runs, the radio is *)
(* off when the task returns, and a role that may have been interrupted    *)
(* while it removed its callbacks is reset.                                *)
LEMMA NextFlags == TypeOK /\ Registrations /\ Flags /\ Next => Flags'
<1> SUFFICES ASSUME TypeOK, Registrations, Flags, Next PROVE Flags'
  OBVIOUS
<1>t. Mine \in Roles /\ Uses[Task] \in Seq(Entries) /\ Uses[Task] # <<>>
  BY TaskInList DEF TypeOK
<1>s. at' = at => Task' = Task /\ Mine' = Mine
  BY DEF Task, Mine
<1>o. FlagFirst \cap Once = {}
  BY TasksAssumption
<1>0. ASSUME at' = at, pc' = pc, armed' = armed, status' = status
      PROVE  Flags'
  BY <1>0, <1>s DEF Flags, Quiet
<1>1. ASSUME NEW t \in Tasks, Start(t) PROVE Flags'
  BY <1>1, <1>0 DEF Start
<1>2. ASSUME NEW r \in Suspendable, Suspend(r) PROVE Flags'
  BY <1>2, <1>0 DEF Suspend
<1>3. ASSUME NEW e \in Entries, Interrupt(e) PROVE Flags'
  <2>1. at' = at /\ pc' = pc /\ e \in armed /\ armed' = armed \ {e}
    BY <1>3 DEF Interrupt
  <2>2. \A r \in Roles : status'[r] = IF r \in registered[e] THEN status[r] \cup {e}
                                                            ELSE status[r]
    BY <1>3 DEF Interrupt
  <2>3. \A r \in Roles : r # Mine => status'[r] = {}
    BY <2>2 DEF Registrations, Flags
  <2>4. pc \notin {"scan", "enter", "register"}
        /\ ~(Task \in Once /\ pc \in {"loop", "remove", "off"})
    BY <2>1 DEF Flags, Quiet
  <2>5. pc = "off" => \A r \in Roles : status'[r] = {}
    BY <2>2 DEF Registrations, Flags
  <2>6. pc = "wait" => /\ armed' \cap status'[Mine] = {}
                       /\ \E f \in Entries : armed' \cup status'[Mine] \subseteq {f}
    <3> SUFFICES ASSUME pc = "wait"
                 PROVE  /\ armed' \cap status'[Mine] = {}
                        /\ \E f \in Entries : armed' \cup status'[Mine] \subseteq {f}
      OBVIOUS
    <3>1. armed \cup status[Mine] \subseteq {e} /\ armed \cap status[Mine] = {}
      BY <2>1 DEF Flags
    <3>2. armed' = {} /\ status'[Mine] \subseteq {e}
      BY <3>1, <2>1, <2>2, <1>t
    <3> QED
      BY <3>2
  <2> QED
    BY <2>1, <2>3, <2>4, <2>5, <2>6, <1>s DEF Flags
<1>4. CASE Skip
  <2>1. pc = "scan" /\ pc' = pc /\ armed' = armed /\ status' = status
    BY <1>4 DEF Skip
  <2> QED
    BY <2>1 DEF Flags, Quiet
<1>5. CASE Begin
  BY <1>5, <1>s DEF Begin, Flags, Quiet
<1>6. CASE Return
  <2>1. pc = "off" /\ pc' = "scan" /\ armed' = {} /\ status' = status
    BY <1>6 DEF Return
  <2> QED
    BY <2>1 DEF Flags, Quiet
<1>7. CASE RegisterNext
  BY <1>7, <1>0 DEF RegisterNext
<1>8. CASE AllRegistered
  BY <1>8, <1>s DEF AllRegistered, Flags, Quiet
<1>9. CASE SetRunning
  BY <1>9, <1>s, <1>o DEF SetRunning, Flags, Quiet
<1>10. ASSUME NEW e \in Entries, StartOnce(e) PROVE Flags'
  <2>1. at' = at /\ pc = "loop" /\ pc' = "wait" /\ armed' = armed \cup {e}
        /\ status' = status /\ Task \in Once
    BY <1>10 DEF StartOnce
  <2>2. armed = {} /\ status[Mine] = {}
    BY <2>1, <1>t DEF Flags, Quiet
  <2> QED
    BY <2>1, <2>2, <1>s DEF Flags
<1>11. ASSUME NEW e \in Entries, TakeDone(e) PROVE Flags'
  <2>1. at' = at /\ pc = "wait" /\ pc' = "remove" /\ armed' = armed
        /\ e \in status[Mine]
    BY <1>11 DEF TakeDone
  <2>2. status'[Mine] = status[Mine] \ {e}
        /\ \A r \in Roles : r # Mine => status'[r] = status[r]
    BY <1>11, <1>t DEF TakeDone, TypeOK
  <2>3. armed = {} /\ status'[Mine] = {}
    BY <2>1, <2>2 DEF Flags
  <2> QED
    BY <2>1, <2>2, <2>3, <1>s DEF Flags, Quiet
<1>12. ASSUME NEW e \in Entries, StartRadio(e) PROVE Flags'
  BY <1>12, <1>s DEF StartRadio, RoleGoesOn, Flags
<1>13. ASSUME NEW e \in Entries, TakeFlag(e) PROVE Flags'
  <2>1. at' = at /\ pc = "loop" /\ pc' = pc /\ Task \notin Once
    BY <1>13 DEF TakeFlag, RoleGoesOn
  <2>2. \A r \in Roles : r # Mine => status'[r] = status[r]
    BY <1>13 DEF TakeFlag, TypeOK
  <2> QED
    BY <2>1, <2>2, <1>s DEF Flags
<1>14. CASE LeaveLoop
  BY <1>14, <1>s DEF LeaveLoop, Flags
<1>15. CASE RemoveNext
  BY <1>15, <1>0 DEF RemoveNext
<1>16. CASE AllRemoved
  BY <1>16, <1>s DEF AllRemoved, Flags, Quiet
<1>17. CASE Reset
  <2>1. at' = at /\ pc' = "off" /\ Task \notin Once /\ armed' = armed
    BY <1>17 DEF Reset, Flags
  <2>2. \A r \in Roles : status'[r] = {}
    BY <1>17 DEF Reset, TypeOK, Flags
  <2> QED
    BY <2>1, <2>2, <1>s DEF Flags
<1>18. CASE RadioOff
  BY <1>18, <1>s DEF RadioOff, Flags, Quiet
<1>u. \A i \in DOMAIN Uses[Task] : Uses[Task][i] \in Entries
  BY <1>t
<1> QED
  BY <1>1, <1>2, <1>3, <1>4, <1>5, <1>6, <1>7, <1>8, <1>9, <1>10, <1>11, <1>12,
     <1>13, <1>14, <1>15, <1>16, <1>17, <1>18, <1>u DEF Next, MainLoop, Command

(* A task whose flag is set was started since it began last, unless it is  *)
(* the one that runs, whose flag is cleared when it returns.               *)
LEMMA NextStarted == TypeOK /\ Started /\ Next => Started'
<1> SUFFICES ASSUME TypeOK, Started, Next PROVE Started'
  OBVIOUS
<1>t. Task \in Tasks
  BY TaskInList DEF TypeOK
<1>s. at' = at => Task' = Task
  BY DEF Task
<1>0. ASSUME at' = at, execute' = execute, wanted' = wanted, pc # "scan" \/ pc' = "scan",
             pc = "scan" \/ pc' # "scan"
      PROVE  Started'
  BY <1>0, <1>s DEF Started
<1>1. ASSUME NEW t \in Tasks, Start(t) PROVE Started'
  <2>1. at' = at /\ pc' = pc /\ wanted' = wanted \cup {t}
        /\ \A u \in Tasks : u # t => execute'[u] = execute[u]
    BY <1>1 DEF Start, TypeOK
  <2> QED
    BY <2>1, <1>s DEF Started
<1>2. ASSUME NEW r \in Suspendable, Suspend(r) PROVE Started'
  BY <1>2, <1>0 DEF Suspend
<1>3. ASSUME NEW e \in Entries, Interrupt(e) PROVE Started'
  BY <1>3, <1>0 DEF Interrupt
<1>4. CASE Skip
  BY <1>4 DEF Skip, Started
<1>5. CASE Begin
  BY <1>5, <1>s DEF Begin, Started
<1>6. CASE Return
  <2>1. ASSUME NEW u \in Tasks, execute'[u] PROVE u \in wanted'
    <3>1. u # Task /\ execute[u]
      BY <1>6, <2>1, <1>t DEF Return, TypeOK
    <3> QED
      BY <3>1, <1>6 DEF Return, Started
  <2> QED
    BY <2>1 DEF Started
<1>7. CASE RegisterNext
  BY <1>7, <1>0 DEF RegisterNext
<1>8. CASE AllRegistered
  BY <1>8, <1>0 DEF AllRegistered
<1>9. CASE SetRunning
  BY <1>9, <1>0 DEF SetRunning
<1>10. ASSUME NEW e \in Entries, StartOnce(e) PROVE Started'
  BY <1>10, <1>0 DEF StartOnce
<1>11. ASSUME NEW e \in Entries, TakeDone(e) PROVE Started'
  BY <1>11, <1>0 DEF TakeDone
<1>12. ASSUME NEW e \in Entries, StartRadio(e) PROVE Started'
  BY <1>12, <1>0 DEF StartRadio
<1>13. ASSUME NEW e \in Entries, TakeFlag(e) PROVE Started'
  BY <1>13, <1>0 DEF TakeFlag
<1>14. CASE LeaveLoop
  BY <1>14, <1>0 DEF LeaveLoop
<1>15. CASE RemoveNext
  BY <1>15, <1>0 DEF RemoveNext
<1>16. CASE AllRemoved
  BY <1>16, <1>0 DEF AllRemoved
<1>17. CASE Reset
  BY <1>17, <1>0 DEF Reset
<1>18. CASE RadioOff
  BY <1>18, <1>0 DEF RadioOff
<1>u. \A i \in DOMAIN Uses[Task] : Uses[Task][i] \in Entries
  BY TaskInList DEF TypeOK
<1> QED
  BY <1>1, <1>2, <1>3, <1>4, <1>5, <1>6, <1>7, <1>8, <1>9, <1>10, <1>11, <1>12,
     <1>13, <1>14, <1>15, <1>16, <1>17, <1>18, <1>u DEF Next, MainLoop, Command

LEMMA NextTasksInv == TasksInv /\ [Next]_vars => TasksInv'
<1> SUFFICES ASSUME TasksInv, [Next]_vars PROVE TasksInv'
  OBVIOUS
<1>1. CASE Next
  BY <1>1, NextTypeOK, NextRegistrations, NextFlags, NextStarted DEF TasksInv
<1>2. CASE UNCHANGED vars
  <2>1. /\ execute' = execute /\ running' = running /\ status' = status
        /\ at' = at /\ pc' = pc /\ todo' = todo /\ armed' = armed
        /\ wanted' = wanted /\ registered' = registered /\ fails' = fails
    BY <1>2 DEF vars, listVars
  <2>2. Task' = Task /\ Mine' = Mine
    BY <2>1 DEF Task, Mine
  <2>3. TypeOK'
    BY <2>1 DEF TypeOK, TasksInv
  <2>4. Registrations' /\ Flags' /\ Started'
    BY <2>1, <2>2 DEF Registrations, Flags, Quiet, Started, TasksInv
  <2> QED
    BY <2>3, <2>4 DEF TasksInv
<1> QED
  BY <1>1, <1>2

LEMMA TasksInvariant == Spec => []TasksInv
BY InitTasksInv, NextTasksInv, PTL DEF Spec
-----------------------------------------------------------------------------
(* The types, for every list of tasks.                                     *)
THEOREM TaskTypes == Spec => []TypeOK
<1>1. TasksInv => TypeOK
  BY DEF TasksInv
<1> QED
  BY <1>1, TasksInvariant, PTL

(* Between two tasks no callback is registered, and while one runs only    *)
(* callbacks of its own role are.                                          *)
THEOREM NoForeignCallback == Spec => []OnlyOwnCallbacks
<1>1. TasksInv => OnlyOwnCallbacks
  BY DEF TasksInv, Registrations, OnlyOwnCallbacks
<1> QED
  BY <1>1, TasksInvariant, PTL

(* No task begins with an interrupt flag of an earlier one set.            *)
THEOREM NoStaleFlag == Spec => []FlagsClearAtStart
<1>1. TasksInv => FlagsClearAtStart
  BY DEF TasksInv, Flags, Quiet, FlagsClearAtStart
<1> QED
  BY <1>1, TasksInvariant, PTL

(* A task begins only if it was started since it began last.               *)
THEOREM OneRunPerStart == Spec => RunsOncePerStart
<1>1. TasksInv /\ [Next]_vars => [Begin => Task \in wanted]_vars
  <2> SUFFICES ASSUME TasksInv, Begin PROVE Task \in wanted
    OBVIOUS
  <2>1. Task \in Tasks
    BY TaskInList DEF TasksInv, TypeOK
  <2> QED
    BY <2>1 DEF TasksInv, Started, Begin
<1> QED
  BY <1>1, TasksInvariant, PTL DEF Spec, RunsOncePerStart
-----------------------------------------------------------------------------
(* Induction over the natural numbers, for sets.                           *)
Less == OpToRel(<, Nat)

LEMMA LessThan == \A x, y \in Nat : <<x, y>> \in Less <=> x < y
BY DEF Less, OpToRel

LEMMA LeastNumber ==
    ASSUME NEW T, T \subseteq Nat, T # {}
    PROVE  \E x \in T : \A y \in T : x <= y
<1>1. IsWellFoundedOn(Less, Nat)
  BY NatLessThanWellFounded DEF Less
<1>2. PICK x \in T : \A y \in T : ~(<<y, x>> \in Less)
  BY <1>1, WFMin
<1>3. \A y \in T : y \in Nat /\ x \in Nat /\ ~(y < x)
  BY <1>2, LessThan
<1> QED
  BY <1>3

LEMMA SetInduction ==
    ASSUME NEW S, 0 \in S, \A i \in Nat : i \in S => i + 1 \in S
    PROVE  Nat \subseteq S
<1> SUFFICES ASSUME ~(Nat \subseteq S) PROVE FALSE
  OBVIOUS
<1>1. PICK x \in Nat \ S : \A y \in Nat \ S : x <= y
  BY LeastNumber
<1>2. x - 1 \in Nat /\ x - 1 \in S
  BY <1>1
<1> QED
  BY <1>1, <1>2
-----------------------------------------------------------------------------
(* A list, from its first node h by the nodes nd: what a walk meets, and   *)
(* the sequence l of n nodes that it should.                               *)
Walked(h, nd) ==
    LET c[i \in 0..Cardinality(Nodes)] ==
          IF i = 0 THEN h
          ELSE IF c[i - 1] = Null THEN Null ELSE nd[c[i - 1]].next
    IN  c

Members(h, nd) == {Walked(h, nd)[i] : i \in 0..Cardinality(Nodes)} \ {Null}

Names(h, nd) == {nd[m].callback : m \in Members(h, nd)}

Linked(h, nd, l, n) ==
    /\ l \in [Nat -> Nodes \cup {Null}]
    /\ n \in Nat
    /\ l[0] = h
    /\ \A i \in Nat : i < n <=> l[i] # Null
    /\ \A i \in Nat : i < n => /\ nd[l[i]].next = l[i + 1]
                               /\ nd[l[i]].callback \in Callbacks
    /\ \A i, j \in Nat : i < n /\ j < n /\ nd[l[i]].callback = nd[l[j]].callback
                            => i = j

IsList(h, nd) == \E l, n : Linked(h, nd, l, n)

LEMMA HeapSize == Cardinality(Nodes) \in Nat
BY ListsAssumption, FS_CardinalityType

(* A list has no more nodes than there are, for no node is in it twice.    *)
LEMMA ListFits ==
    ASSUME NEW h, NEW nd, NEW l, NEW n, Linked(h, nd, l, n)
    PROVE  n <= Cardinality(Nodes)
<1> DEFINE f == [i \in 1..n |-> l[i - 1]]
<1>1. n \in Nat /\ \A i \in 1..n : i - 1 \in Nat /\ i - 1 < n
  BY DEF Linked
<1>2. f \in [1..n -> Nodes]
  BY <1>1 DEF Linked
<1>3. \A i, j \in 1..n : f[i] = f[j] => i = j
  <2> SUFFICES ASSUME NEW i \in 1..n, NEW j \in 1..n, f[i] = f[j]
               PROVE  i = j
    OBVIOUS
  <2>1. l[i - 1] = l[j - 1]
    OBVIOUS
  <2>2. i - 1 = j - 1
    BY <1>1, <2>1 DEF Linked
  <2> QED
    BY <1>1, <2>2
<1>4. f \in Injection(1..n, Nodes)
  BY <1>2, <1>3, Fun_IsInj
<1>5. Cardinality(1..n) <= Cardinality(Nodes)
  BY <1>4, ListsAssumption, FS_Injection
<1>6. Cardinality(1..n) = IF 1 > n THEN 0 ELSE n - 1 + 1
  BY <1>1, FS_Interval
<1> QED
  BY <1>1, <1>5, <1>6, HeapSize

(* The walk meets the nodes of the list, and then the end.                 *)
LEMMA WalkMeetsList ==
    ASSUME NEW h, NEW nd, NEW l, NEW n, Linked(h, nd, l, n)
    PROVE  Walked(h, nd) = [i \in 0..Cardinality(Nodes) |-> l[i]]
<1> DEFINE size == Cardinality(Nodes)
           Def(c) == [i \in 0..size |->
                         IF i = 0 THEN h
                         ELSE IF c[i - 1] = Null THEN Null
                         ELSE nd[c[i - 1]].next]
           w == Walked(h, nd)
           met == [i \in 0..size |-> l[i]]
<1>0. size \in Nat
  BY HeapSize
<1>1. w = CHOOSE c : c = Def(c)
  BY DEF Walked
<1>2. met = Def(met)
  <2> SUFFICES ASSUME NEW i \in 0..size PROVE met[i] = Def(met)[i]
    OBVIOUS
  <2>1. CASE i = 0
    BY <2>1 DEF Linked
  <2>2. CASE i # 0
    <3>1. i - 1 \in 0..size /\ i - 1 \in Nat /\ (i - 1) + 1 = i
      BY <1>0, <2>2
    <3>2. met[i - 1] = l[i - 1]
      BY <3>1
    <3>3. l[i] = IF l[i - 1] = Null THEN Null ELSE nd[l[i - 1]].next
      BY <3>1 DEF Linked
    <3> QED
      BY <2>2, <3>1, <3>2, <3>3
  <2> QED
    BY <2>1, <2>2
<1> HIDE DEF Def, met, w
<1>3. w = Def(w)
  BY <1>1, <1>2
<1> USE DEF Def, met
<1> DEFINE S == {i \in Nat : i <= size => w[i] = l[i]}
<1>4. 0 \in S
  <2>1. 0 \in 0..size
    BY <1>0
  <2> QED
    BY <1>3, <2>1 DEF Linked
<1>5. \A i \in Nat : i \in S => i + 1 \in S
  <2> SUFFICES ASSUME NEW i \in Nat, i \in S, i + 1 <= size
               PROVE  w[i + 1] = l[i + 1]
    OBVIOUS
  <2>1. i + 1 \in 0..size /\ i + 1 # 0 /\ (i + 1) - 1 = i /\ w[i] = l[i]
    BY <1>0
  <2>2. w[i + 1] = IF w[i] = Null THEN Null ELSE nd[w[i]].next
    BY <1>3, <2>1
  <2>3. l[i + 1] = IF l[i] = Null THEN Null ELSE nd[l[i]].next
    BY DEF Linked
  <2> QED
    BY <2>1, <2>2, <2>3
<1> HIDE DEF S
<1>6. Nat \subseteq S
  BY <1>4, <1>5, SetInduction
<1>7. \A i \in 0..size : w[i] = l[i]
  BY <1>0, <1>6 DEF S
<1> QED
  BY <1>3, <1>7 DEF w

LEMMA MembersOfList ==
    ASSUME NEW h, NEW nd, NEW l, NEW n, Linked(h, nd, l, n)
    PROVE  /\ \A m : m \in Members(h, nd) <=> \E i \in Nat : i < n /\ m = l[i]
           /\ Walked(h, nd)[Cardinality(Nodes)] = Null
<1>1. Walked(h, nd) = [i \in 0..Cardinality(Nodes) |-> l[i]]
  BY WalkMeetsList
<1>2. n <= Cardinality(Nodes)
  BY ListFits
<1>3. n \in Nat /\ \A i \in Nat : i < n <=> l[i] # Null
  BY DEF Linked
<1>4. Members(h, nd) = {l[i] : i \in 0..Cardinality(Nodes)} \ {Null}
  BY <1>1 DEF Members
<1>5. \A i \in Nat : i < n => i \in 0..Cardinality(Nodes)
  BY <1>2, <1>3, HeapSize
<1>6. \A i \in 0..Cardinality(Nodes) : i \in Nat
  OBVIOUS
<1>7. ASSUME NEW m
      PROVE  m \in Members(h, nd) <=> \E i \in Nat : i < n /\ m = l[i]
  BY <1>3, <1>4, <1>5, <1>6
<1>8. Walked(h, nd)[Cardinality(Nodes)] = l[Cardinality(Nodes)]
  BY <1>1, HeapSize
<1>9. l[Cardinality(Nodes)] = Null
  BY <1>2, <1>3, HeapSize
<1> QED
  BY <1>7, <1>8, <1>9

(* The nodes of a list are nodes, its names callbacks, each of one node,   *)
(* and a walk of it ends.                                                  *)
LEMMA ListFacts ==
    ASSUME NEW h, NEW nd, IsList(h, nd)
    PROVE  /\ Members(h, nd) \subseteq Nodes
           /\ Names(h, nd) \subseteq Callbacks
           /\ \A m, p \in Members(h, nd) : nd[m].callback = nd[p].callback => m = p
           /\ Walked(h, nd)[Cardinality(Nodes)] = Null
<1>1. PICK l, n : Linked(h, nd, l, n)
  BY DEF IsList
<1>2. /\ \A m : m \in Members(h, nd) <=> \E i \in Nat : i < n /\ m = l[i]
      /\ Walked(h, nd)[Cardinality(Nodes)] = Null
  BY <1>1, MembersOfList
<1>3. \A i \in Nat : i < n => l[i] \in Nodes /\ nd[l[i]].callback \in Callbacks
  BY <1>1 DEF Linked
<1>4. \A i, j \in Nat :
         i < n /\ j < n /\ nd[l[i]].callback = nd[l[j]].callback => i = j
  BY <1>1 DEF Linked
<1> QED
  BY <1>2, <1>3, <1>4 DEF Names

LEMMA EmptyList ==
    ASSUME NEW nd
    PROVE  IsList(Null, nd) /\ Members(Null, nd) = {}
<1> DEFINE l == [i \in Nat |-> Null]
<1>1. Linked(Null, nd, l, 0)
  BY DEF Linked
<1>2. \A m : m \notin Members(Null, nd)
  BY <1>1, MembersOfList
<1> QED
  BY <1>1, <1>2 DEF IsList

(* A list does not change with nodes that are not in it.                   *)
LEMMA ListStays ==
    ASSUME NEW h, NEW nd, NEW nd2, IsList(h, nd),
           \A m \in Members(h, nd) : nd2[m] = nd[m]
    PROVE  /\ IsList(h, nd2) /\ Members(h, nd2) = Members(h, nd)
           /\ Names(h, nd2) = Names(h, nd)
<1>1. PICK l, n : Linked(h, nd, l, n)
  BY DEF IsList
<1>2. \A m : m \in Members(h, nd) <=> \E i \in Nat : i < n /\ m = l[i]
  BY <1>1, MembersOfList
<1>3. \A i \in Nat : i < n => nd2[l[i]] = nd[l[i]]
  BY <1>2
<1>4. Linked(h, nd2, l, n)
  BY <1>1, <1>3 DEF Linked
<1>5. \A m : m \in Members(h, nd2) <=> \E i \in Nat : i < n /\ m = l[i]
  BY <1>4, MembersOfList
<1>6. Members(h, nd2) = Members(h, nd)
  BY <1>2, <1>5
<1> QED
  BY <1>4, <1>6 DEF IsList, Names

(* A node that links to the head becomes the head.                         *)
LEMMA ListPush ==
    ASSUME NEW h, NEW nd, IsList(h, nd), NEW m \in Nodes \ Members(h, nd),
           nd[m].next = h, nd[m].callback \in Callbacks \ Names(h, nd)
    PROVE  IsList(m, nd) /\ Members(m, nd) = Members(h, nd) \cup {m}
<1>1. PICK l, n : Linked(h, nd, l, n)
  BY DEF IsList
<1>2. \A p : p \in Members(h, nd) <=> \E i \in Nat : i < n /\ p = l[i]
  BY <1>1, MembersOfList
<1> DEFINE k == [i \in Nat |-> IF i = 0 THEN m ELSE l[i - 1]]
<1>3. /\ n \in Nat /\ l \in [Nat -> Nodes \cup {Null}] /\ l[0] = h
      /\ \A i \in Nat : i < n <=> l[i] # Null
  BY <1>1 DEF Linked
<1>4. \A i \in Nat : i # 0 => /\ i - 1 \in Nat /\ (i < n + 1 <=> i - 1 < n)
                              /\ k[i] = l[i - 1] /\ (i - 1) + 1 = i
  BY <1>3
<1>5. k[0] = m /\ 0 < n + 1 /\ m # Null
  BY <1>3, ListsAssumption
<1>6. \A i \in Nat : i + 1 \in Nat /\ i + 1 # 0 /\ k[i + 1] = l[i]
  OBVIOUS
<1>7. k \in [Nat -> Nodes \cup {Null}]
  BY <1>3, <1>4
<1>8. \A i \in Nat : i < n => /\ nd[l[i]].next = l[i + 1]
                              /\ nd[l[i]].callback \in Callbacks
                              /\ nd[l[i]].callback # nd[m].callback
  BY <1>1, <1>2 DEF Linked, Names
<1>9. \A i, j \in Nat :
         i < n /\ j < n /\ nd[l[i]].callback = nd[l[j]].callback => i = j
  BY <1>1 DEF Linked
<1> HIDE DEF k
<1>10. \A i \in Nat : i < n + 1 <=> k[i] # Null
  BY <1>3, <1>4, <1>5
<1>11. \A i \in Nat : i < n + 1 => /\ nd[k[i]].next = k[i + 1]
                                   /\ nd[k[i]].callback \in Callbacks
  BY <1>3, <1>4, <1>5, <1>6, <1>8
<1>12. \A i, j \in Nat :
          i < n + 1 /\ j < n + 1 /\ nd[k[i]].callback = nd[k[j]].callback => i = j
  <2> SUFFICES ASSUME NEW i \in Nat, NEW j \in Nat, i < n + 1, j < n + 1,
                      nd[k[i]].callback = nd[k[j]].callback
               PROVE  i = j
    OBVIOUS
  <2>1. CASE i = 0 \/ j = 0
    BY <1>4, <1>5, <1>8, <2>1
  <2>2. CASE i # 0 /\ j # 0
    <3>1. i - 1 = j - 1
      BY <1>4, <1>9, <2>2
    <3> QED
      BY <3>1
  <2> QED
    BY <2>1, <2>2
<1>13. n + 1 \in Nat
  BY <1>3
<1>14. Linked(m, nd, k, n + 1)
  BY <1>5, <1>7, <1>10, <1>11, <1>12, <1>13 DEF Linked
<1>15. \A p : p \in Members(m, nd) <=> \E i \in Nat : i < n + 1 /\ p = k[i]
  BY <1>14, MembersOfList
<1>16. ASSUME NEW p
       PROVE  p \in Members(m, nd) <=> p \in Members(h, nd) \cup {m}
  <2>1. (\E i \in Nat : i < n + 1 /\ p = k[i])
          <=> p = m \/ \E i \in Nat : i < n /\ p = l[i]
    BY <1>3, <1>4, <1>5, <1>6
  <2> QED
    BY <1>2, <1>15, <2>1
<1> QED
  BY <1>14, <1>16 DEF IsList

(* Without its head, a list is what its head links to.                     *)
LEMMA ListPop ==
    ASSUME NEW h, NEW nd, IsList(h, nd), h # Null
    PROVE  /\ h \in Members(h, nd) /\ IsList(nd[h].next, nd)
           /\ Members(nd[h].next, nd) = Members(h, nd) \ {h}
<1>1. PICK l, n : Linked(h, nd, l, n)
  BY DEF IsList
<1>2. \A p : p \in Members(h, nd) <=> \E i \in Nat : i < n /\ p = l[i]
  BY <1>1, MembersOfList
<1> DEFINE k == [i \in Nat |-> l[i + 1]]
<1>3. /\ n \in Nat /\ l \in [Nat -> Nodes \cup {Null}] /\ l[0] = h
      /\ \A i \in Nat : i < n <=> l[i] # Null
      /\ \A i \in Nat : i < n => /\ nd[l[i]].next = l[i + 1]
                                 /\ nd[l[i]].callback \in Callbacks
      /\ \A i, j \in Nat :
            i < n /\ j < n /\ nd[l[i]].callback = nd[l[j]].callback => i = j
  BY <1>1 DEF Linked
<1>4. 0 < n /\ n - 1 \in Nat /\ nd[h].next = k[0]
  BY <1>3
<1>5. \A i \in Nat : k[i] = l[i + 1] /\ i + 1 \in Nat /\ (i < n - 1 <=> i + 1 < n)
  BY <1>3
<1>6. k \in [Nat -> Nodes \cup {Null}]
  BY <1>3
<1> HIDE DEF k
<1>7. \A i \in Nat : i < n - 1 <=> k[i] # Null
  BY <1>3, <1>5
<1>8. \A i \in Nat : i < n - 1 => /\ nd[k[i]].next = k[i + 1]
                                  /\ nd[k[i]].callback \in Callbacks
  BY <1>3, <1>5
<1>9. \A i, j \in Nat :
          i < n - 1 /\ j < n - 1 /\ nd[k[i]].callback = nd[k[j]].callback => i = j
  <2> SUFFICES ASSUME NEW i \in Nat, NEW j \in Nat, i < n - 1, j < n - 1,
                      nd[k[i]].callback = nd[k[j]].callback
               PROVE  i = j
    OBVIOUS
  <2>1. i + 1 = j + 1
    BY <1>3, <1>5
  <2> QED
    BY <2>1
<1>10. Linked(nd[h].next, nd, k, n - 1)
  BY <1>4, <1>6, <1>7, <1>8, <1>9 DEF Linked
<1>11. \A p : p \in Members(nd[h].next, nd) <=> \E i \in Nat : i < n - 1 /\ p = k[i]
  BY <1>10, MembersOfList
<1>12. \A i \in Nat : i # 0 /\ i < n => i - 1 \in Nat /\ i - 1 < n - 1 /\ k[i - 1] = l[i]
  BY <1>3, <1>5
<1>13. \A i \in Nat : i < n /\ l[i] = h => i = 0
  BY <1>3
<1>14. ASSUME NEW p
       PROVE  p \in Members(nd[h].next, nd) <=> p \in Members(h, nd) \ {h}
  <2>1. ASSUME NEW i \in Nat, i < n - 1, p = k[i]
        PROVE  p # h /\ \E j \in Nat : j < n /\ p = l[j]
    <3>1. i + 1 \in Nat /\ i + 1 < n /\ p = l[i + 1] /\ i + 1 # 0
      BY <1>5, <2>1
    <3> QED
      BY <1>13, <3>1
  <2>2. ASSUME NEW i \in Nat, i < n, p = l[i], p # h
        PROVE  \E j \in Nat : j < n - 1 /\ p = k[j]
    <3>1. i # 0
      BY <1>3, <2>2
    <3> QED
      BY <1>12, <2>2, <3>1
  <2> QED
    BY <1>2, <1>11, <2>1, <2>2
<1> QED
  BY <1>2, <1>3, <1>4, <1>10, <1>14 DEF IsList

(* A node that is linked past is out of the list.                          *)
LinksPast(h, nd, nd2, p, m) ==
    /\ IsList(h, nd)
    /\ p \in Members(h, nd) /\ m \in Members(h, nd) /\ nd[p].next = m
    /\ nd2[p].next = nd[m].next /\ nd2[p].callback = nd[p].callback
    /\ \A q \in Members(h, nd) \ {p} : nd2[q] = nd[q]

LEMMA ListCut ==
    ASSUME NEW h, NEW nd, NEW nd2, NEW p, NEW m, LinksPast(h, nd, nd2, p, m)
    PROVE  IsList(h, nd2) /\ Members(h, nd2) = Members(h, nd) \ {m}
<1>0. /\ IsList(h, nd) /\ p \in Members(h, nd) /\ m \in Members(h, nd)
      /\ nd[p].next = m /\ nd2[p].next = nd[m].next
      /\ nd2[p].callback = nd[p].callback
      /\ \A q \in Members(h, nd) \ {p} : nd2[q] = nd[q]
  BY DEF LinksPast
<1>1. PICK l, n : Linked(h, nd, l, n)
  BY <1>0 DEF IsList
<1>2. \A q : q \in Members(h, nd) <=> \E i \in Nat : i < n /\ q = l[i]
  BY <1>1, MembersOfList
<1>3. /\ n \in Nat /\ l \in [Nat -> Nodes \cup {Null}] /\ l[0] = h
      /\ \A i \in Nat : i < n <=> l[i] # Null
      /\ \A i \in Nat : i < n => /\ nd[l[i]].next = l[i + 1]
                                 /\ nd[l[i]].callback \in Callbacks
      /\ \A i, j \in Nat :
            i < n /\ j < n /\ nd[l[i]].callback = nd[l[j]].callback => i = j
  BY <1>1 DEF Linked
<1>4. PICK k \in Nat : k < n /\ p = l[k]
  BY <1>0, <1>2
<1>5. m = l[k + 1] /\ k + 1 \in Nat /\ k + 1 < n /\ n - 1 \in Nat /\ k < n - 1
  <2>1. m = l[k + 1]
    BY <1>0, <1>3, <1>4
  <2>2. m # Null
    BY <1>0 DEF Members
  <2> QED
    BY <1>3, <1>4, <2>1, <2>2
<1>6. nd[m].next = l[k + 2]
  <2>1. (k + 1) + 1 = k + 2
    OBVIOUS
  <2> QED
    BY <1>3, <1>5, <2>1
<1> DEFINE c == [i \in Nat |-> IF i <= k THEN l[i] ELSE l[i + 1]]
<1>7. \A i \in Nat : i <= k => c[i] = l[i] /\ i < n - 1 /\ i < n
  BY <1>3, <1>5
<1>8. \A i \in Nat : ~(i <= k) => /\ c[i] = l[i + 1] /\ i + 1 \in Nat
                                  /\ (i < n - 1 <=> i + 1 < n) /\ i + 1 # k
  BY <1>3, <1>5
<1>9. c \in [Nat -> Nodes \cup {Null}] /\ c[0] = h
  BY <1>3
<1> HIDE DEF c
<1>10. \A i \in Nat : i < n - 1 <=> c[i] # Null
  BY <1>3, <1>7, <1>8
<1>11. \A i, j \in Nat : i < n /\ j < n /\ l[i] = l[j] => i = j
  BY <1>3
<1>12. ASSUME NEW i \in Nat, i < n, i # k PROVE nd2[l[i]] = nd[l[i]]
  BY <1>0, <1>2, <1>4, <1>11, <1>12
<1>23. ASSUME NEW i \in Nat, i < n PROVE nd2[l[i]].callback = nd[l[i]].callback
  BY <1>0, <1>4, <1>12, <1>23
<1>13. ASSUME NEW i \in Nat, i < n - 1
       PROVE  nd2[c[i]].next = c[i + 1] /\ nd2[c[i]].callback \in Callbacks
  <2>1. CASE i = k
    <3>1. c[i] = p /\ i < n
      BY <1>4, <1>7, <2>1
    <3>2. ~(i + 1 <= k) /\ i + 1 \in Nat /\ (i + 1) + 1 = k + 2
      BY <2>1
    <3>3. c[i + 1] = l[k + 2]
      BY <1>8, <3>2
    <3> QED
      BY <1>0, <1>3, <1>4, <1>6, <3>1, <3>3
  <2>2. CASE i <= k /\ i # k
    <3>1. i + 1 \in Nat /\ i + 1 <= k
      BY <2>2
    <3>2. c[i] = l[i] /\ c[i + 1] = l[i + 1] /\ i < n
      BY <1>7, <2>2, <3>1
    <3>3. nd2[l[i]] = nd[l[i]]
      BY <1>12, <2>2, <3>2
    <3>4. nd[l[i]].next = l[i + 1] /\ nd[l[i]].callback \in Callbacks
      BY <1>3, <3>2
    <3> QED
      BY <3>2, <3>3, <3>4
  <2>3. CASE ~(i <= k)
    <3>1. PICK j \in Nat : j = i + 1 /\ ~(j <= k)
      BY <2>3
    <3>2. c[i] = l[j] /\ j < n /\ j # k
      BY <1>8, <1>13, <2>3, <3>1
    <3>3. c[j] = l[j + 1]
      BY <1>8, <3>1
    <3>4. nd2[l[j]] = nd[l[j]]
      BY <1>12, <3>2
    <3>5. nd[l[j]].next = l[j + 1] /\ nd[l[j]].callback \in Callbacks
      BY <1>3, <3>2
    <3> QED
      BY <3>1, <3>2, <3>3, <3>4, <3>5
  <2> QED
    BY <2>1, <2>2, <2>3
<1> DEFINE At(i) == IF i <= k THEN i ELSE i + 1
<1>14. \A i \in Nat : i < n - 1 => At(i) \in Nat /\ At(i) < n /\ c[i] = l[At(i)]
  BY <1>7, <1>8
<1>15. \A i, j \in Nat : At(i) = At(j) => i = j
  OBVIOUS
<1>16. \A i \in Nat : At(i) # k + 1
  OBVIOUS
<1>17. \A i \in Nat : i < n /\ i # k + 1 =>
          \E j \in Nat : j < n - 1 /\ i = At(j)
  <2> SUFFICES ASSUME NEW i \in Nat, i < n, i # k + 1
               PROVE  \E j \in Nat : j < n - 1 /\ i = At(j)
    OBVIOUS
  <2>1. CASE i <= k
    BY <1>5, <2>1
  <2>2. CASE ~(i <= k)
    <3>1. i - 1 \in Nat /\ i - 1 < n - 1 /\ i = At(i - 1)
      BY <1>3, <2>2
    <3> QED
      BY <3>1
  <2> QED
    BY <2>1, <2>2
<1> HIDE DEF At
<1>18. \A i, j \in Nat :
          i < n - 1 /\ j < n - 1 /\ nd2[c[i]].callback = nd2[c[j]].callback => i = j
  <2> SUFFICES ASSUME NEW i \in Nat, NEW j \in Nat, i < n - 1, j < n - 1,
                      nd2[c[i]].callback = nd2[c[j]].callback
               PROVE  i = j
    OBVIOUS
  <2>1. nd[l[At(i)]].callback = nd[l[At(j)]].callback
    BY <1>14, <1>23
  <2>2. At(i) = At(j)
    BY <1>3, <1>14, <2>1
  <2> QED
    BY <1>15, <2>2
<1>19. Linked(h, nd2, c, n - 1)
  BY <1>5, <1>9, <1>10, <1>13, <1>18 DEF Linked
<1>20. \A q : q \in Members(h, nd2) <=> \E i \in Nat : i < n - 1 /\ q = c[i]
  BY <1>19, MembersOfList
<1>21. ASSUME NEW q
       PROVE  q \in Members(h, nd2) <=> q \in Members(h, nd) \ {m}
  <2>1. ASSUME NEW i \in Nat, i < n - 1, q = c[i]
        PROVE  q # m /\ \E j \in Nat : j < n /\ q = l[j]
    BY <1>5, <1>11, <1>14, <1>16, <2>1
  <2>2. ASSUME NEW i \in Nat, i < n, q = l[i], q # m
        PROVE  \E j \in Nat : j < n - 1 /\ q = c[j]
    <3>1. i # k + 1
      BY <1>5, <2>2
    <3> QED
      BY <1>14, <1>17, <2>2, <3>1
  <2> QED
    BY <1>2, <1>20, <2>1, <2>2
<1> QED
  BY <1>19, <1>21 DEF IsList
-----------------------------------------------------------------------------
(* The lists of the module, in these words.                                *)
LEMMA ChainIsWalk ==
    ASSUME NEW e \in Entries
    PROVE  Irq!Chain(e) = Walked(head[e], node)
<1> DEFINE Walk(size) == CHOOSE c : c =
                           [i \in 0..size |->
                              IF i = 0 THEN head[e]
                              ELSE IF c[i - 1] = Null THEN Null
                              ELSE node[c[i - 1]].next]
<1>1. Irq!Cardinality(Nodes) = Cardinality(Nodes)
  BY DEF Irq!Cardinality, Cardinality
<1>2. Irq!Chain(e) = Walk(Irq!Cardinality(Nodes))
  BY DEF Irq!Chain
<1>3. Walked(head[e], node) = Walk(Cardinality(Nodes))
  BY DEF Walked
<1> HIDE DEF Walk
<1> QED
  BY <1>1, <1>2, <1>3

LEMMA InWords ==
    ASSUME NEW e \in Entries, IsList(head[e], node)
    PROVE  /\ Irq!Chain(e) = Walked(head[e], node)
           /\ Irq!InList(e) = Members(head[e], node)
           /\ Irq!Registered(e) = Names(head[e], node)
<1>1. PICK l, n : Linked(head[e], node, l, n)
  BY DEF IsList
<1>2. DOMAIN Walked(head[e], node) = 0..Cardinality(Nodes)
  BY <1>1, WalkMeetsList
<1>3. Irq!InList(e) = Members(head[e], node)
  BY <1>2, ChainIsWalk DEF Irq!InList, Members
<1> QED
  BY <1>3, ChainIsWalk DEF Irq!Registered, Names
-----------------------------------------------------------------------------
Listed(e) == Members(head[e], node)

(* Every entry has a list of its own, and a node that is in no list is in  *)
(* the heap or is the one the main loop has in hand.  That node is in no   *)
(* list: its callback is new to the list it will be the head of, and it    *)
(* links to that list before it becomes its head.                          *)
ListsInv ==
    /\ Irq!TypeOK
    /\ \A e \in Entries : IsList(head[e], node)
    /\ \A e, f \in Entries : e # f => Listed(e) \cap Listed(f) = {}
    /\ \A n \in Nodes : n \in unused <=>
           (\A e \in Entries : n \notin Listed(e)) /\ (op = Irq!NoOp \/ n # op.node)
    /\ op # Irq!NoOp => \A e \in Entries : op.node \notin Listed(e)
    /\ op.kind \in {"link next", "link head"} =>
          node[op.node].callback \in Callbacks \ Names(head[op.entry], node)
    /\ op.kind = "link head" => node[op.node].next = head[op.entry]

LEMMA ListsInitInv == Irq!Init => ListsInv
<1> SUFFICES ASSUME Irq!Init PROVE ListsInv
  OBVIOUS
<1> USE DEF Irq!Init
<1>1. Irq!TypeOK
  BY TasksAssumption DEF Irq!TypeOK, Irq!Freed, Irq!Ops
<1>2. \A e \in Entries : IsList(head[e], node) /\ Listed(e) = {}
  BY EmptyList DEF Listed
<1> QED
  BY <1>1, <1>2 DEF ListsInv, Irq!NoOp

(* An operation that writes nodes of no list leaves the lists as they are. *)
LEMMA SameLists ==
    ASSUME ListsInv, head' = head,
           \A e \in Entries : \A m \in Listed(e) : node'[m] = node[m]
    PROVE  \A e \in Entries : /\ IsList(head'[e], node') /\ Listed(e)' = Listed(e)
                              /\ Names(head'[e], node') = Names(head[e], node)
<1> SUFFICES ASSUME NEW e \in Entries
             PROVE  /\ IsList(head'[e], node')
                    /\ Members(head'[e], node') = Members(head[e], node)
                    /\ Names(head'[e], node') = Names(head[e], node)
  BY DEF Listed
<1>1. PICK h : h = head[e]
  OBVIOUS
<1>2. PICK nd : nd = node
  OBVIOUS
<1>3. PICK nd2 : nd2 = node'
  OBVIOUS
<1>4. IsList(h, nd) /\ \A m \in Members(h, nd) : nd2[m] = nd[m]
  BY <1>1, <1>2, <1>3 DEF ListsInv, Listed
<1>5. /\ IsList(h, nd2) /\ Members(h, nd2) = Members(h, nd)
      /\ Names(h, nd2) = Names(h, nd)
  BY <1>4, ListStays
<1> QED
  BY <1>1, <1>2, <1>3, <1>5

LEMMA SameListsInv ==
    ASSUME ListsInv, Irq!TypeOK', head' = head,
           \A e \in Entries : \A m \in Listed(e) : node'[m] = node[m],
           \A n \in Nodes : n \in unused' <=>
           (\A e \in Entries : n \notin Listed(e)) /\ (op' = Irq!NoOp \/ n # op'.node),
           op' # Irq!NoOp => \A e \in Entries : op'.node \notin Listed(e),
           op'.kind \in {"link next", "link head"} =>
              /\ op'.entry \in Entries
              /\ node'[op'.node].callback \in Callbacks \ Names(head[op'.entry], node),
           op'.kind = "link head" => node'[op'.node].next = head[op'.entry]
    PROVE  ListsInv'
<1>1. \A e \in Entries : /\ IsList(head'[e], node') /\ Listed(e)' = Listed(e)
                         /\ Names(head'[e], node') = Names(head[e], node)
  BY SameLists
<1>2. \A e, f \in Entries : e # f => Listed(e)' \cap Listed(f)' = {}
  <2>1. \A e, f \in Entries : e # f => Listed(e) \cap Listed(f) = {}
    BY DEF ListsInv
  <2> QED
    BY <1>1, <2>1
<1>3. \A n \in Nodes : n \in unused' <=>
           (\A e \in Entries : n \notin Listed(e)') /\ (op' = Irq!NoOp \/ n # op'.node)
  BY <1>1
<1>4. op' # Irq!NoOp => \A e \in Entries : op'.node \notin Listed(e)'
  BY <1>1
<1>5. op'.kind \in {"link next", "link head"} =>
         node'[op'.node].callback \in Callbacks \ Names(head'[op'.entry], node')
  BY <1>1
<1>6. \A e \in Entries : IsList(head'[e], node')
  BY <1>1
<1> QED
  BY <1>2, <1>3, <1>4, <1>5, <1>6 DEF ListsInv

(* A new node, one that is not linked yet and one that is out are in no    *)
(* list: what the main loop writes to them changes none.                   *)
LEMMA WritesElsewhere ==
    ASSUME ListsInv,
           \/ \E e \in Entries, c \in Callbacks : Irq!NewNode(e, c)
           \/ Irq!LinkNext \/ Irq!Free
    PROVE  /\ head' = head
           /\ \A f \in Entries : \A m \in Listed(f) : node'[m] = node[m]
<1>1. PICK n \in Nodes : /\ \A f \in Entries : n \notin Listed(f)
                         /\ \A m \in Nodes : m # n => node'[m] = node[m]
                         /\ head' = head
  <2>0. node \in [Nodes -> [callback : Callbacks \cup {Garbage},
                            next : Nodes \cup {Null}]]
    BY DEF ListsInv, Irq!TypeOK
  <2>1. ASSUME NEW e \in Entries, NEW c \in Callbacks, Irq!NewNode(e, c)
        PROVE  \E n \in Nodes : /\ \A f \in Entries : n \notin Listed(f)
                                /\ \A m \in Nodes : m # n => node'[m] = node[m]
                                /\ head' = head
    <3>1. PICK n \in unused :
            node' = [node EXCEPT ![n] = [callback |-> c, next |-> Null]]
      BY <2>1 DEF Irq!NewNode
    <3>2. n \in Nodes
      BY DEF ListsInv, Irq!TypeOK
    <3>3. \A f \in Entries : n \notin Listed(f)
      BY <3>2 DEF ListsInv
    <3>4. head' = head
      BY <2>1 DEF Irq!NewNode
    <3> QED
      BY <2>0, <3>1, <3>2, <3>3, <3>4
  <2>2. ASSUME Irq!LinkNext \/ Irq!Free
        PROVE  /\ op.node \in Nodes /\ \A f \in Entries : op.node \notin Listed(f)
               /\ \A m \in Nodes : m # op.node => node'[m] = node[m]
               /\ head' = head
    <3>1. /\ op.kind \in {"link next", "free"} /\ head' = head
          /\ \/ node' = [node EXCEPT ![op.node].next = head[op.entry]]
             \/ node' = [node EXCEPT ![op.node] = Irq!Freed]
      BY <2>2 DEF Irq!LinkNext, Irq!Free
    <3>2. op # Irq!NoOp
      <4>1. Irq!NoOp.kind = "none"
        BY DEF Irq!NoOp
      <4> QED
        BY <3>1, <4>1
    <3>3. op.node \in Nodes
      BY <3>2 DEF ListsInv, Irq!TypeOK, Irq!Ops
    <3>4. \A f \in Entries : op.node \notin Listed(f)
      BY <3>2 DEF ListsInv
    <3>5. \A m \in Nodes : m # op.node => node'[m] = node[m]
      BY <2>0, <3>1
    <3> QED
      BY <3>1, <3>3, <3>4, <3>5
  <2> QED
    BY <2>1, <2>2
<1>2. ASSUME NEW f \in Entries, NEW m \in Listed(f)
      PROVE  m \in Nodes
  BY ListFacts DEF ListsInv, Listed
<1> QED
  BY <1>1, <1>2

LEMMA NewNodeInv ==
    ASSUME ListsInv, NEW e \in Entries, NEW c \in Callbacks,
           Irq!NewNode(e, c), UNCHANGED ran
    PROVE  ListsInv'
<1>1. PICK n \in unused :
         /\ node' = [node EXCEPT ![n] = [callback |-> c, next |-> Null]]
         /\ unused' = unused \ {n}
         /\ op' = [kind |-> "link next", entry |-> e, node |-> n]
  BY DEF Irq!NewNode
<1>2. /\ op = Irq!NoOp /\ c \notin Names(head[e], node)
      /\ head' = head /\ listFails' = listFails /\ n \in Nodes
  BY InWords DEF Irq!NewNode, ListsInv, Irq!TypeOK
<1>3. \A f \in Entries : n \notin Listed(f)
  <2>1. n \in Nodes /\ n \in unused
    BY <1>2
  <2> QED
    BY <2>1 DEF ListsInv
<1>4. \A f \in Entries : \A m \in Listed(f) : node'[m] = node[m]
  BY WritesElsewhere
<1>5. Irq!TypeOK'
  BY <1>1, <1>2 DEF ListsInv, Irq!TypeOK, Irq!Ops, Irq!Steps
<1>6. op'.kind = "link next" /\ op'.node = n /\ op'.entry = e /\ op' # Irq!NoOp
  BY <1>1 DEF Irq!NoOp
<1>7. node'[n].callback = c
  BY <1>1, <1>2 DEF ListsInv, Irq!TypeOK
<1>8. \A m \in Nodes : m \in unused' <=> m \in unused /\ m # n
  BY <1>1
<1>9. \A m \in Nodes : m \in unused <=> \A f \in Entries : m \notin Listed(f)
  <2>1. op = Irq!NoOp
    BY <1>2
  <2> QED
    BY <2>1 DEF ListsInv
<1>10. \A m \in Nodes : m \in unused' <=>
           (\A f \in Entries : m \notin Listed(f)) /\ (op' = Irq!NoOp \/ m # op'.node)
  BY <1>6, <1>8, <1>9
<1>11. head' = head /\ op'.kind # "link head"
  BY <1>2, <1>6
<1>12. /\ op'.entry \in Entries
       /\ node'[op'.node].callback \in Callbacks \ Names(head[op'.entry], node)
  BY <1>2, <1>6, <1>7
<1>13. \A f \in Entries : op'.node \notin Listed(f)
  BY <1>3, <1>6
<1> QED
  BY <1>4, <1>5, <1>10, <1>11, <1>12, <1>13, SameListsInv

LEMMA LinkNextInv ==
    ASSUME ListsInv, Irq!LinkNext, UNCHANGED ran
    PROVE  ListsInv'
<1>1. /\ op.kind = "link next"
      /\ node' = [node EXCEPT ![op.node].next = head[op.entry]]
      /\ op' = [op EXCEPT !.kind = "link head"]
      /\ head' = head /\ unused' = unused /\ listFails' = listFails
  BY DEF Irq!LinkNext
<1>2. op # Irq!NoOp
  <2>1. op.kind = "link next"
    BY <1>1
  <2>2. Irq!NoOp.kind = "none"
    BY DEF Irq!NoOp
  <2> QED
    BY <2>1, <2>2
<1>3. op \in [kind : Irq!Steps, entry : Entries, node : Nodes]
  BY <1>2 DEF ListsInv, Irq!TypeOK, Irq!Ops
<1>4. /\ op'.kind = "link head" /\ op'.node = op.node /\ op'.entry = op.entry
      /\ op' # Irq!NoOp
      /\ op' \in [kind : Irq!Steps, entry : Entries, node : Nodes]
  BY <1>1, <1>3 DEF Irq!NoOp, Irq!Steps
<1>5. \A f \in Entries : op.node \notin Listed(f)
  BY <1>2 DEF ListsInv
<1>6. \A f \in Entries : \A m \in Listed(f) : node'[m] = node[m]
  BY WritesElsewhere
<1>7. /\ node'[op.node].callback = node[op.node].callback
      /\ node'[op.node].next = head[op.entry]
  BY <1>1, <1>3, ZenonT(60) DEF ListsInv, Irq!TypeOK
<1>8. Irq!TypeOK'
  <2>1. /\ head \in [Entries -> Nodes \cup {Null}]
        /\ node \in [Nodes -> [callback : Callbacks \cup {Garbage},
                              next : Nodes \cup {Null}]]
        /\ op.node \in Nodes /\ head[op.entry] \in Nodes \cup {Null}
    BY <1>3 DEF ListsInv, Irq!TypeOK
  <2>2. node' \in [Nodes -> [callback : Callbacks \cup {Garbage},
                            next : Nodes \cup {Null}]]
    BY <1>1, <2>1
  <2>3. op' \in Irq!Ops
    BY <1>4 DEF Irq!Ops
  <2>4. /\ head' = head /\ unused' = unused /\ listFails' = listFails
        /\ ran' = ran
    BY <1>1
  <2> QED
    BY <2>2, <2>3, <2>4 DEF ListsInv, Irq!TypeOK
<1>9. node[op.node].callback \in Callbacks \ Names(head[op.entry], node)
  <2>1. op.kind = "link next"
    BY <1>1
  <2> QED
    BY <2>1 DEF ListsInv
<1>10. \A m \in Nodes : m \in unused' <=>
           (\A f \in Entries : m \notin Listed(f)) /\ (op' = Irq!NoOp \/ m # op'.node)
  <2>1. unused' = unused
    BY <1>1
  <2> QED
    BY <1>2, <1>4, <2>1 DEF ListsInv
<1>11. head' = head
  BY <1>1
<1>12. /\ op'.entry \in Entries
       /\ node'[op'.node].callback \in Callbacks \ Names(head[op'.entry], node)
       /\ node'[op'.node].next = head[op'.entry]
  BY <1>3, <1>4, <1>7, <1>9
<1>13. \A f \in Entries : op'.node \notin Listed(f)
  BY <1>4, <1>5
<1> QED
  BY <1>6, <1>8, <1>10, <1>11, <1>12, <1>13, SameListsInv

LEMMA FreeInv ==
    ASSUME ListsInv, Irq!Free, UNCHANGED ran
    PROVE  ListsInv'
<1>1. /\ op.kind = "free" /\ op' = Irq!NoOp
      /\ node' = [node EXCEPT ![op.node] = Irq!Freed]
      /\ unused' = unused \cup {op.node}
      /\ head' = head /\ listFails' = listFails
  BY DEF Irq!Free
<1>2. op # Irq!NoOp
  BY <1>1 DEF Irq!NoOp
<1>3. op \in [kind : Irq!Steps, entry : Entries, node : Nodes]
  BY <1>2 DEF ListsInv, Irq!TypeOK, Irq!Ops
<1>4. \A f \in Entries : op.node \notin Listed(f)
  BY <1>2 DEF ListsInv
<1>5. \A f \in Entries : \A m \in Listed(f) : node'[m] = node[m]
  BY WritesElsewhere
<1>6. Irq!TypeOK'
  BY <1>1, <1>3 DEF ListsInv, Irq!TypeOK, Irq!Ops, Irq!Freed
<1>7. op'.kind = "none"
  BY <1>1 DEF Irq!NoOp
<1>8. \A m \in Nodes : m \in unused' <=> m \in unused \/ m = op.node
  BY <1>1
<1>9. \A m \in Nodes : m \in unused' <=> \A f \in Entries : m \notin Listed(f)
  BY <1>2, <1>4, <1>8 DEF ListsInv
<1>10. head' = head /\ op' = Irq!NoOp
  BY <1>1
<1> QED
  BY <1>5, <1>6, <1>7, <1>9, <1>10, SameListsInv

(* The node becomes the head of its list, which had no such callback.      *)
LEMMA LinkHeadLists ==
    ASSUME ListsInv, Irq!LinkHead
    PROVE  /\ op.entry \in Entries /\ op.node \in Nodes
           /\ op' = Irq!NoOp /\ node' = node /\ unused' = unused
           /\ listFails' = listFails /\ op # Irq!NoOp
           /\ head' \in [Entries -> Nodes \cup {Null}]
           /\ \A f \in Entries : IsList(head'[f], node')
           /\ \A f \in Entries :
                 Listed(f)' = IF f = op.entry THEN Listed(f) \cup {op.node}
                                              ELSE Listed(f)
<1>1. /\ op.kind = "link head"
      /\ head' = [head EXCEPT ![op.entry] = op.node]
      /\ op' = Irq!NoOp
      /\ node' = node /\ unused' = unused /\ listFails' = listFails
  BY DEF Irq!LinkHead
<1>2. op # Irq!NoOp
  <2>1. Irq!NoOp.kind = "none"
    BY DEF Irq!NoOp
  <2> QED
    BY <1>1, <2>1
<1>3. op.entry \in Entries /\ op.node \in Nodes
  BY <1>2 DEF ListsInv, Irq!TypeOK, Irq!Ops
<1>4. /\ head \in [Entries -> Nodes \cup {Null}]
      /\ \A f \in Entries : IsList(head[f], node)
  BY DEF ListsInv, Irq!TypeOK
<1>5. /\ IsList(head[op.entry], node)
      /\ op.node \notin Members(head[op.entry], node)
      /\ node[op.node].next = head[op.entry]
      /\ node[op.node].callback \in Callbacks \ Names(head[op.entry], node)
  BY <1>1, <1>2, <1>3 DEF ListsInv, Listed
<1>6. PICK h, nd, m : h = head[op.entry] /\ nd = node /\ m = op.node
  OBVIOUS
<1>7. IsList(m, nd) /\ Members(m, nd) = Members(h, nd) \cup {m}
  <2>1. /\ IsList(h, nd) /\ m \in Nodes \ Members(h, nd) /\ nd[m].next = h
        /\ nd[m].callback \in Callbacks \ Names(h, nd)
    BY <1>3, <1>5, <1>6
  <2> QED
    BY <2>1, ListPush
<1>8. ASSUME NEW f \in Entries
      PROVE  /\ IsList(head'[f], node')
             /\ Members(head'[f], node') =
                   IF f = op.entry THEN Members(head[f], node) \cup {op.node}
                                   ELSE Members(head[f], node)
  <2>1. CASE f = op.entry
    <3>1. head'[f] = op.node
      BY <1>1, <1>3, <1>4, <2>1
    <3>2. head'[f] = m /\ node' = nd /\ head[f] = h /\ node = nd /\ op.node = m
      BY <1>1, <1>6, <2>1, <3>1
    <3>3. /\ IsList(head'[f], node')
          /\ Members(head'[f], node') = Members(head[f], node) \cup {op.node}
      BY <1>7, <3>2
    <3> QED
      BY <2>1, <3>3
  <2>2. CASE f # op.entry
    <3>1. head'[f] = head[f] /\ node' = node
      BY <1>1, <1>4, <2>2
    <3> QED
      BY <1>4, <2>2, <3>1
  <2> QED
    BY <2>1, <2>2
<1>9. head' \in [Entries -> Nodes \cup {Null}]
  BY <1>1, <1>3, <1>4
<1> QED
  BY <1>1, <1>2, <1>3, <1>8, <1>9 DEF Listed

LEMMA LinkHeadInv ==
    ASSUME ListsInv, Irq!LinkHead, UNCHANGED ran
    PROVE  ListsInv'
<1>1. /\ op.entry \in Entries /\ op.node \in Nodes
      /\ op' = Irq!NoOp /\ node' = node /\ unused' = unused
      /\ listFails' = listFails /\ op # Irq!NoOp
      /\ head' \in [Entries -> Nodes \cup {Null}]
      /\ \A f \in Entries : IsList(head'[f], node')
      /\ \A f \in Entries :
            Listed(f)' = IF f = op.entry THEN Listed(f) \cup {op.node}
                                         ELSE Listed(f)
  BY LinkHeadLists
<1>2. Irq!TypeOK'
  BY <1>1 DEF ListsInv, Irq!TypeOK, Irq!Ops
<1>3. \A f \in Entries : op.node \notin Listed(f)
  BY <1>1 DEF ListsInv
<1>4. \A e, f \in Entries : e # f => Listed(e)' \cap Listed(f)' = {}
  <2>1. \A e, f \in Entries : e # f => Listed(e) \cap Listed(f) = {}
    BY DEF ListsInv
  <2> QED
    BY <1>1, <1>3, <2>1
<1>5. \A n \in Nodes : n \in unused' <=> \A e \in Entries : n \notin Listed(e)'
  <2>1. \A n \in Nodes :
           n \in unused <=> (\A e \in Entries : n \notin Listed(e)) /\ n # op.node
    BY <1>1 DEF ListsInv
  <2> QED
    BY <1>1, <2>1
<1>6. op'.kind = "none"
  BY <1>1 DEF Irq!NoOp
<1> QED
  BY <1>1, <1>2, <1>4, <1>5, <1>6 DEF ListsInv

(* The node is out of its list, and its callback with it.                  *)
LEMMA UnlinkLists ==
    ASSUME ListsInv, NEW e \in Entries, NEW c \in Callbacks, Irq!Unlink(e, c)
    PROVE  \E n \in Listed(e) :
              /\ node[n].callback = c /\ op = Irq!NoOp
              /\ op' = [kind |-> "free", entry |-> e, node |-> n]
              /\ unused' = unused /\ listFails' = listFails
              /\ head' \in [Entries -> Nodes \cup {Null}]
              /\ node' \in [Nodes -> [callback : Callbacks \cup {Garbage},
                                      next : Nodes \cup {Null}]]
              /\ \A m \in Nodes : node'[m].callback = node[m].callback
              /\ \A f \in Entries : IsList(head'[f], node')
              /\ \A f \in Entries :
                    Listed(f)' = IF f = e THEN Listed(f) \ {n} ELSE Listed(f)
<1> USE DEF Listed
<1>0. /\ head \in [Entries -> Nodes \cup {Null}]
      /\ node \in [Nodes -> [callback : Callbacks \cup {Garbage},
                             next : Nodes \cup {Null}]]
      /\ \A f \in Entries : IsList(head[f], node)
      /\ \A f \in Entries : f # e => Listed(e) \cap Listed(f) = {}
  BY DEF ListsInv, Irq!TypeOK
<1>1. Irq!InList(e) = Listed(e) /\ Listed(e) \subseteq Nodes
  BY <1>0, InWords, ListFacts
<1>2. PICK n \in Listed(e) :
         /\ node[n].callback = c
         /\ \/ /\ head[e] = n
               /\ head' = [head EXCEPT ![e] = node[n].next] /\ node' = node
            \/ /\ head[e] # n /\ head' = head
               /\ \E prev \in Listed(e) :
                     /\ node[prev].next = n
                     /\ node' = [node EXCEPT ![prev].next = node[n].next]
         /\ op' = [kind |-> "free", entry |-> e, node |-> n]
  BY <1>1 DEF Irq!Unlink
<1>3. op = Irq!NoOp /\ unused' = unused /\ listFails' = listFails
  BY DEF Irq!Unlink
<1>4. n \in Nodes /\ node[n].next \in Nodes \cup {Null} /\ n # Null
  BY <1>0, <1>1, ListsAssumption
<1>5. CASE head[e] = n
  <2>1. head' = [head EXCEPT ![e] = node[n].next] /\ node' = node
    BY <1>2, <1>5
  <2>2. PICK h, nd : h = head[e] /\ nd = node
    OBVIOUS
  <2>3. IsList(nd[h].next, nd) /\ Members(nd[h].next, nd) = Members(h, nd) \ {h}
    BY <1>0, <1>4, <1>5, <2>2, ListPop
  <2>4. head'[e] = node[n].next /\ \A f \in Entries : f # e => head'[f] = head[f]
    BY <1>0, <2>1
  <2>5. ASSUME NEW f \in Entries
        PROVE  /\ IsList(head'[f], node')
               /\ Members(head'[f], node') =
                     IF f = e THEN Members(head[f], node) \ {n}
                              ELSE Members(head[f], node)
    BY <1>0, <1>5, <2>1, <2>2, <2>3, <2>4
  <2>6. head' \in [Entries -> Nodes \cup {Null}]
    BY <1>0, <1>4, <2>1
  <2> QED
    BY <1>0, <1>2, <1>3, <2>1, <2>5, <2>6
<1>6. CASE head[e] # n
  <2>1. PICK prev \in Listed(e) :
           /\ node[prev].next = n
           /\ node' = [node EXCEPT ![prev].next = node[n].next]
    BY <1>2, <1>6
  <2>2. head' = head /\ prev \in Nodes
    BY <1>1, <1>2, <1>6
  <2>3. /\ node' \in [Nodes -> [callback : Callbacks \cup {Garbage},
                                next : Nodes \cup {Null}]]
        /\ node'[prev].next = node[n].next
        /\ node'[prev].callback = node[prev].callback
        /\ \A m \in Nodes : m # prev => node'[m] = node[m]
    BY <1>0, <1>4, <2>1, <2>2
  <2>4. PICK h, nd, nd2 : h = head[e] /\ nd = node /\ nd2 = node'
    OBVIOUS
  <2>5. IsList(h, nd2) /\ Members(h, nd2) = Members(h, nd) \ {n}
    <3>1. /\ IsList(h, nd) /\ prev \in Members(h, nd) /\ n \in Members(h, nd)
          /\ nd[prev].next = n /\ nd2[prev].next = nd[n].next
          /\ nd2[prev].callback = nd[prev].callback
      BY <1>0, <2>1, <2>3, <2>4
    <3>2. \A q \in Members(h, nd) \ {prev} : nd2[q] = nd[q]
      BY <1>1, <2>3, <2>4
    <3>3. LinksPast(h, nd, nd2, prev, n)
      BY <3>1, <3>2 DEF LinksPast
    <3> QED
      BY <3>3, ListCut
  <2>6. ASSUME NEW f \in Entries, f # e
        PROVE  IsList(head[f], node') /\ Members(head[f], node') = Members(head[f], node)
    <3>1. PICK g : g = head[f]
      OBVIOUS
    <3>6. IsList(g, nd)
      BY <1>0, <2>4, <3>1
    <3>2. IsList(g, nd) /\ Members(g, nd) \subseteq Nodes
      BY <3>6, ListFacts
    <3>3. prev \notin Members(g, nd)
      BY <1>0, <2>1, <2>4, <2>6, <3>1
    <3>4. \A q \in Members(g, nd) : nd2[q] = nd[q]
      BY <2>3, <2>4, <3>2, <3>3
    <3>5. IsList(g, nd2) /\ Members(g, nd2) = Members(g, nd)
      BY <3>2, <3>4, ListStays
    <3> QED
      BY <2>4, <3>1, <3>5
  <2>7. ASSUME NEW f \in Entries
        PROVE  /\ IsList(head'[f], node')
               /\ Members(head'[f], node') =
                     IF f = e THEN Members(head[f], node) \ {n}
                              ELSE Members(head[f], node)
    BY <2>2, <2>4, <2>5, <2>6
  <2>8. \A m \in Nodes : node'[m].callback = node[m].callback
    BY <2>3
  <2> QED
    BY <1>0, <1>2, <1>3, <2>2, <2>3, <2>7, <2>8
<1> QED
  BY <1>5, <1>6

LEMMA UnlinkInv ==
    ASSUME ListsInv, NEW e \in Entries, NEW c \in Callbacks, Irq!Unlink(e, c),
           UNCHANGED ran
    PROVE  ListsInv'
<1>1. PICK n \in Listed(e) :
         /\ node[n].callback = c /\ op = Irq!NoOp
         /\ op' = [kind |-> "free", entry |-> e, node |-> n]
         /\ unused' = unused /\ listFails' = listFails
         /\ head' \in [Entries -> Nodes \cup {Null}]
         /\ node' \in [Nodes -> [callback : Callbacks \cup {Garbage},
                                 next : Nodes \cup {Null}]]
         /\ \A m \in Nodes : node'[m].callback = node[m].callback
         /\ \A f \in Entries : IsList(head'[f], node')
         /\ \A f \in Entries :
               Listed(f)' = IF f = e THEN Listed(f) \ {n} ELSE Listed(f)
  BY UnlinkLists
<1>2. n \in Nodes
  BY ListFacts DEF ListsInv, Listed
<1>3. Irq!TypeOK'
  BY <1>1, <1>2 DEF ListsInv, Irq!TypeOK, Irq!Ops, Irq!Steps
<1>4. op'.kind = "free" /\ op'.node = n /\ op' # Irq!NoOp
  <2>1. op'.kind = "free" /\ op'.node = n
    BY <1>1
  <2>2. Irq!NoOp.kind = "none"
    BY DEF Irq!NoOp
  <2> QED
    BY <2>1, <2>2
<1>5. \A f, g \in Entries : f # g => Listed(f) \cap Listed(g) = {}
  BY DEF ListsInv
<1>6. \A f, g \in Entries : f # g => Listed(f)' \cap Listed(g)' = {}
  BY <1>1, <1>5
<1>7. \A f \in Entries : n \notin Listed(f)'
  BY <1>1, <1>5
<1>8. \A m \in Nodes : m \in unused' <=>
           (\A f \in Entries : m \notin Listed(f)') /\ m # n
  <2>1. \A m \in Nodes : m \in unused <=> \A f \in Entries : m \notin Listed(f)
    BY <1>1 DEF ListsInv
  <2> QED
    BY <1>1, <2>1
<1> QED
  BY <1>1, <1>3, <1>4, <1>6, <1>7, <1>8 DEF ListsInv

LEMMA CallsInv ==
    ASSUME ListsInv, UNCHANGED <<head, node, unused, op>>, listFails' \in 0..MaxFails,
           ran' \in [Entries -> SUBSET (Callbacks \cup {Garbage})]
    PROVE  ListsInv'
<1>1. Irq!TypeOK'
  BY DEF ListsInv, Irq!TypeOK
<1>2. PICK h, nd, u, o : h = head /\ nd = node /\ u = unused /\ o = op
  OBVIOUS
<1>3. h = head' /\ nd = node' /\ u = unused' /\ o = op'
  BY <1>2
<1> DEFINE Rest ==
             /\ \A e \in Entries : IsList(h[e], nd)
             /\ \A e, f \in Entries :
                   e # f => Members(h[e], nd) \cap Members(h[f], nd) = {}
             /\ \A n \in Nodes : n \in u <=>
                   /\ \A e \in Entries : n \notin Members(h[e], nd)
                   /\ o = Irq!NoOp \/ n # o.node
             /\ o # Irq!NoOp => \A e \in Entries : o.node \notin Members(h[e], nd)
             /\ o.kind \in {"link next", "link head"} =>
                   nd[o.node].callback \in Callbacks \ Names(h[o.entry], nd)
             /\ o.kind = "link head" => nd[o.node].next = h[o.entry]
<1>4. Rest
  BY <1>2 DEF ListsInv, Listed
<1> QED
  BY <1>1, <1>3, <1>4 DEF ListsInv, Listed

(* A step of the lists, by what it does to them.                           *)
LEMMA ListsSteps ==
    ASSUME ListsInv, [Irq!Next]_irqVars
    PROVE  \/ UNCHANGED <<head, node, unused, op, ran>> /\ listFails' \in 0..MaxFails
           \/ \E e \in Entries : Irq!Walk(e)
           \/ /\ ran' = ran
              /\ \/ \E e \in Entries, c \in Callbacks :
                       Irq!NewNode(e, c) \/ Irq!Unlink(e, c)
                 \/ Irq!LinkNext \/ Irq!LinkHead \/ Irq!Free
<1>1. listFails \in 0..MaxFails /\ MaxFails \in Nat
  BY TasksAssumption DEF ListsInv, Irq!TypeOK
<1>2. CASE UNCHANGED irqVars
  BY <1>1, <1>2 DEF irqVars
<1>3. ASSUME NEW e \in Entries, NEW c \in Callbacks, Irq!Register(e, c)
      PROVE  \/ UNCHANGED <<head, node, unused, op>> /\ listFails' \in 0..MaxFails
             \/ Irq!NewNode(e, c)
  <2>1. CASE Irq!AlreadyRegistered(e, c)
    BY <1>1, <2>1 DEF Irq!AlreadyRegistered, Irq!callVars
  <2>2. CASE Irq!NoMemory(e, c)
    BY <1>1, <2>2 DEF Irq!NoMemory
  <2> QED
    BY <1>3, <2>1, <2>2 DEF Irq!Register
<1>4. ASSUME NEW e \in Entries, NEW c \in Callbacks, Irq!Deregister(e, c)
      PROVE  \/ UNCHANGED <<head, node, unused, op>> /\ listFails' \in 0..MaxFails
             \/ Irq!Unlink(e, c)
  BY <1>1, <1>4 DEF Irq!Deregister, Irq!NotRegistered, Irq!callVars
<1>5. CASE Irq!MainLoop
  BY <1>3, <1>4, <1>5 DEF Irq!MainLoop
<1> QED
  BY <1>2, <1>5 DEF Irq!Next

(* What an interrupt runs.                                                 *)
LEMMA WalkRuns ==
    ASSUME ListsInv, NEW e \in Entries, Irq!Walk(e)
    PROVE  /\ UNCHANGED <<head, node, unused, op, listFails>>
           /\ ran' = [ran EXCEPT ![e] = Irq!Registered(e)]
           /\ ran' \in [Entries -> SUBSET (Callbacks \cup {Garbage})]
<1>1. IsList(head[e], node)
  BY DEF ListsInv
<1>2. Irq!Registered(e) \subseteq Callbacks
  BY <1>1, InWords, ListFacts
<1>3. /\ UNCHANGED <<head, node, unused, op, listFails>>
      /\ ran' = [ran EXCEPT ![e] = Irq!Registered(e)]
  BY DEF Irq!Walk, Irq!callVars
<1>4. ran \in [Entries -> SUBSET (Callbacks \cup {Garbage})]
  BY DEF ListsInv, Irq!TypeOK
<1> QED
  BY <1>2, <1>3, <1>4

LEMMA ListsNextInv == ListsInv /\ [Irq!Next]_irqVars => ListsInv'
<1> SUFFICES ASSUME ListsInv, [Irq!Next]_irqVars PROVE ListsInv'
  OBVIOUS
<1>1. CASE UNCHANGED <<head, node, unused, op, ran>> /\ listFails' \in 0..MaxFails
  <2>1. ran \in [Entries -> SUBSET (Callbacks \cup {Garbage})]
    BY DEF ListsInv, Irq!TypeOK
  <2> QED
    BY <1>1, <2>1, CallsInv
<1>2. ASSUME NEW e \in Entries, Irq!Walk(e)
      PROVE  ListsInv'
  <2>1. listFails \in 0..MaxFails
    BY DEF ListsInv, Irq!TypeOK
  <2> QED
    BY <1>2, <2>1, WalkRuns, CallsInv
<1>3. ASSUME NEW e \in Entries, NEW c \in Callbacks,
             Irq!NewNode(e, c) \/ Irq!Unlink(e, c), ran' = ran
      PROVE  ListsInv'
  BY <1>3, NewNodeInv, UnlinkInv
<1>4. ASSUME Irq!LinkNext \/ Irq!LinkHead \/ Irq!Free, ran' = ran
      PROVE  ListsInv'
  BY <1>4, LinkNextInv, LinkHeadInv, FreeInv
<1> QED
  BY <1>1, <1>2, <1>3, <1>4, ListsSteps

LEMMA ListsInvariant == Irq!Spec => []ListsInv
BY ListsInitInv, ListsNextInv, PTL DEF Irq!Spec, Irq!vars, irqVars

(* A behaviour is one of the lists and one of the tasks.                   *)
LEMMA BothParts == MCSpec => Spec /\ Irq!Spec
<1>1. MCInit => Init /\ Irq!Init
  BY DEF MCInit
<1>2. [(ListsNext \/ TasksNext) /\ UNCHANGED part]_mcVars
        => [Next]_vars /\ [Irq!Next]_irqVars
  BY DEF ListsNext, TasksNext, mcVars
<1> QED
  BY <1>1, <1>2, PTL DEF MCSpec, Spec, Irq!Spec, Irq!vars, irqVars
-----------------------------------------------------------------------------
(* Every callback and every node is of its type, whatever is registered,   *)
(* removed and refused, and whenever interrupts come.                      *)
THEOREM InterruptTypes == MCSpec => []TypesOK
<1>1. ListsInv => Irq!TypeOK
  BY DEF ListsInv
<1>2. TypeOK /\ Irq!TypeOK => TypesOK
  BY DEF TypesOK
<1> QED
  BY <1>1, <1>2, BothParts, TaskTypes, ListsInvariant, PTL

(* Between two calls of app_irq_register_irqcallback and its counterpart   *)
(* every node is in the heap or in one list, once, and every list ends.    *)
THEOREM NothingLeaks == MCSpec => []HeapBalanced
<1>1. ListsInv => HeapBalanced
  <2> SUFFICES ASSUME ListsInv, op = Irq!NoOp
               PROVE  /\ unused = Nodes \ UNION {Irq!InList(e) : e \in Entries}
                      /\ \A e \in Entries :
                            Irq!Chain(e)[Irq!Cardinality(Nodes)] = Null
                      /\ \A e, f \in Entries :
                            e # f => Irq!InList(e) \cap Irq!InList(f) = {}
    BY DEF HeapBalanced, Irq!HeapBalanced
  <2>1. \A e \in Entries : /\ Irq!InList(e) = Listed(e)
                           /\ Irq!Chain(e) = Walked(head[e], node)
                           /\ Walked(head[e], node)[Cardinality(Nodes)] = Null
    BY InWords, ListFacts DEF ListsInv, Listed
  <2>2. Irq!Cardinality(Nodes) = Cardinality(Nodes)
    BY DEF Irq!Cardinality, Cardinality
  <2>3. \A n \in Nodes : n \in unused <=> \A e \in Entries : n \notin Listed(e)
    BY DEF ListsInv
  <2>4. unused \subseteq Nodes
    BY DEF ListsInv, Irq!TypeOK
  <2>5. unused = Nodes \ UNION {Irq!InList(e) : e \in Entries}
    BY <2>1, <2>3, <2>4
  <2>6. \A e, f \in Entries : e # f => Listed(e) \cap Listed(f) = {}
    BY DEF ListsInv
  <2> QED
    BY <2>1, <2>2, <2>5, <2>6
<1> QED
  BY <1>1, BothParts, ListsInvariant, PTL

(* What is registered, step by step.                                       *)
InSets == \A e \in Entries : Irq!Registered(e) = Names(head[e], node)

LEMMA SetsInWords == ListsInv => InSets
BY InWords DEF ListsInv, InSets

LEMMA SetsSteps ==
    ASSUME ListsInv, InSets, InSets', [Irq!Next]_irqVars
    PROVE  [Irq!Lists!Next]_(Irq!Lists!vars)
<1> DEFINE R == [e \in Entries |-> Irq!Registered(e)]
<1>1. \A e \in Entries : R[e] = Names(head[e], node) /\ R'[e] = Names(head'[e], node')
  BY DEF InSets
<1>2. ASSUME R' = R, ran' = ran PROVE UNCHANGED Irq!Lists!vars
  BY <1>2 DEF Irq!Lists!vars
<1>3. CASE UNCHANGED <<head, node, unused, op, ran>>
  <2>1. R' = R
    BY <1>3 DEF InSets
  <2> QED
    BY <1>2, <1>3, <2>1
<1>4. ASSUME NEW e \in Entries, Irq!Walk(e)
      PROVE  Irq!Lists!Next
  <2>1. /\ UNCHANGED <<head, node>> /\ ran' = [ran EXCEPT ![e] = R[e]]
    BY <1>4, WalkRuns
  <2>2. R' = R
    BY <2>1 DEF InSets
  <2>3. Irq!Lists!Interrupt(e)
    BY <2>1, <2>2 DEF Irq!Lists!Interrupt
  <2> QED
    BY <2>3 DEF Irq!Lists!Next
<1>5. ASSUME \/ \E e \in Entries, c \in Callbacks : Irq!NewNode(e, c)
             \/ Irq!LinkNext \/ Irq!Free
      PROVE  R' = R
  <2>1. /\ head' = head
        /\ \A f \in Entries : \A m \in Listed(f) : node'[m] = node[m]
    BY <1>5, WritesElsewhere
  <2>2. \A f \in Entries : Names(head'[f], node') = Names(head[f], node)
    BY <2>1, SameLists
  <2> QED
    BY <2>2 DEF InSets
<1>6. ASSUME NEW e \in Entries, NEW c \in Callbacks, Irq!Unlink(e, c), ran' = ran
      PROVE  Irq!Lists!Next
  <2>1. PICK n \in Listed(e) :
           /\ node[n].callback = c
           /\ \A m \in Nodes : node'[m].callback = node[m].callback
           /\ \A f \in Entries :
                 Listed(f)' = IF f = e THEN Listed(f) \ {n} ELSE Listed(f)
    BY <1>6, UnlinkLists
  <2>2. \A f \in Entries : Listed(f) \subseteq Nodes /\ Listed(f)' \subseteq Nodes
    <3>1. \A f \in Entries : Listed(f) \subseteq Nodes
      BY ListFacts DEF ListsInv, Listed
    <3> QED
      BY <2>1, <3>1
  <2>3. \A f \in Entries : /\ R[f] = {node[m].callback : m \in Listed(f)}
                           /\ R'[f] = {node'[m].callback : m \in Listed(f)'}
    BY <1>1 DEF Names, Listed
  <2>4. \A f \in Entries : R'[f] = {node[m].callback : m \in Listed(f)'}
    BY <2>1, <2>2, <2>3
  <2>5. \A m \in Listed(e) : node[m].callback = c => m = n
    BY <2>1, ListFacts DEF ListsInv, Listed
  <2>6. R'[e] = R[e] \ {c}
    BY <2>1, <2>3, <2>4, <2>5
  <2>7. \A f \in Entries : f # e => R'[f] = R[f]
    BY <2>1, <2>3, <2>4
  <2>8. R' = [R EXCEPT ![e] = R[e] \ {c}]
    BY <2>6, <2>7
  <2>9. Irq!Lists!Deregister(e, c)
    BY <1>6, <2>8 DEF Irq!Lists!Deregister
  <2> QED
    BY <2>9 DEF Irq!Lists!Next
<1>7. ASSUME Irq!LinkHead, ran' = ran
      PROVE  Irq!Lists!Next
  <2>1. /\ op.entry \in Entries /\ op.node \in Nodes /\ node' = node
        /\ \A f \in Entries :
              Listed(f)' = IF f = op.entry THEN Listed(f) \cup {op.node}
                                           ELSE Listed(f)
    BY <1>7, LinkHeadLists
  <2>0. PICK e \in Entries, n \in Nodes : e = op.entry /\ n = op.node
    BY <2>1
  <2>10. PICK c : c = node[n].callback
    OBVIOUS
  <2>2. e = op.entry /\ n = op.node /\ c = node[n].callback
    BY <2>0, <2>10
  <2>3. c \in Callbacks
    <3>1. op.kind = "link head"
      BY <1>7 DEF Irq!LinkHead
    <3> QED
      BY <2>2, <3>1 DEF ListsInv
  <2>4. \A f \in Entries : /\ R[f] = {node[m].callback : m \in Listed(f)}
                           /\ R'[f] = {node[m].callback : m \in Listed(f)'}
    BY <1>1, <2>1 DEF Names, Listed
  <2>5. /\ Listed(e)' = Listed(e) \cup {n}
        /\ \A f \in Entries : f # e => Listed(f)' = Listed(f)
    BY <2>1, <2>2
  <2>6. R'[e] = R[e] \cup {c}
    <3>1. /\ R[e] = {node[m].callback : m \in Listed(e)}
          /\ R'[e] = {node[m].callback : m \in Listed(e) \cup {n}}
      BY <2>4, <2>5
    <3> QED
      BY <2>2, <3>1
  <2>7. \A f \in Entries : f # e => R'[f] = R[f]
    BY <2>4, <2>5
  <2>8. R' = [R EXCEPT ![e] = R[e] \cup {c}]
    BY <2>6, <2>7
  <2>9. Irq!Lists!Register(e, c)
    BY <1>7, <2>8 DEF Irq!Lists!Register
  <2> QED
    BY <2>3, <2>9 DEF Irq!Lists!Next
<1> QED
  BY <1>2, <1>3, <1>4, <1>5, <1>6, <1>7, ListsSteps

(* An interrupt between any two writes of the main loop runs exactly the   *)
(* callbacks that are registered when it comes: the lists are the sets     *)
(* that CallbackSet promises.                                              *)
THEOREM ListsImplementSets == MCSpec => ListsAreSets
<1>1. Irq!Init => Irq!Lists!Init
  <2> SUFFICES ASSUME Irq!Init PROVE Irq!Lists!Init
    OBVIOUS
  <2>1. InSets
    BY ListsInitInv, SetsInWords
  <2>2. \A e \in Entries : Names(head[e], node) = {}
    BY EmptyList DEF Irq!Init, Names
  <2> QED
    BY <2>1, <2>2 DEF InSets, Irq!Init, Irq!Lists!Init
<1>2. ListsInv /\ InSets /\ InSets' /\ [Irq!Next]_irqVars
        => [Irq!Lists!Next]_(Irq!Lists!vars)
  BY SetsSteps
<1> QED
  BY <1>1, <1>2, BothParts, ListsInvariant, SetsInWords, PTL
  DEF ListsAreSets, Irq!ListsAreSets, Irq!Lists!Spec, Irq!Spec, Irq!vars, irqVars
=============================================================================
