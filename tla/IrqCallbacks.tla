---------------------------- MODULE IrqCallbacks ----------------------------
(***************************************************************************)
(* AppSysIrqCallback.c: a linked list of callbacks for every interrupt     *)
(* entry.  The main loop registers and removes callbacks; an interrupt     *)
(* may come between any two of its writes and walks the list.  Interrupt   *)
(* handlers only walk: those that would remove a callback are the ones the *)
(* examples switch off (sfdDone, rx0PdDone, rx0SfdDetDone of AppUwbCommTrx)*)
(* so a walk is one step, and a scan by the main loop goes with its write. *)
(***************************************************************************)
EXTENDS Integers, FiniteSets

CONSTANTS Entries,    \* enIrqEntry
          Callbacks,  \* callback functions
          Nodes,      \* what the heap can hold
          Null,       \* no node
          Garbage,    \* the callback in a node that was freed
          MaxFails    \* allocations that fail

VARIABLES head,       \* callback_lists[e].head
          node,       \* callback_node_t: callback and next
          unused,     \* nodes that malloc may return
          op,         \* the call the main loop is in, and its node
          fails,      \* failed allocations so far
          ran         \* what the last interrupt of an entry ran

vars == <<head, node, unused, op, fails, ran>>
callVars == <<head, node, unused, op, fails>>

NoOp   == [kind |-> "none"]
Steps  == {"link next", "link head", "free"}
Ops    == {NoOp} \cup [kind : Steps, entry : Entries, node : Nodes]
Freed  == [callback |-> Garbage, next |-> Null]

(* The nodes that a walk from the head of e meets, in N steps at most.     *)
Chain(e) == LET c[i \in 0..Cardinality(Nodes)] ==
                  IF i = 0 THEN head[e]
                  ELSE IF c[i - 1] = Null THEN Null ELSE node[c[i - 1]].next
            IN  c
InList(e)     == {Chain(e)[i] : i \in DOMAIN Chain(e)} \ {Null}
Registered(e) == {node[n].callback : n \in InList(e)}

TypeOK ==
    /\ head \in [Entries -> Nodes \cup {Null}]
    /\ node \in [Nodes -> [callback : Callbacks \cup {Garbage},
                           next : Nodes \cup {Null}]]
    /\ unused \subseteq Nodes
    /\ op \in Ops
    /\ fails \in 0..MaxFails
    /\ ran \in [Entries -> SUBSET (Callbacks \cup {Garbage})]

Init ==
    /\ head = [e \in Entries |-> Null]
    /\ node = [n \in Nodes |-> Freed]
    /\ unused = Nodes
    /\ op = NoOp
    /\ fails = 0
    /\ ran = [e \in Entries |-> {}]
-----------------------------------------------------------------------------
(* app_irq_register_irqcallback: a callback that is in the list stays as   *)
(* it is; the new node is written before the list can reach it.            *)
AlreadyRegistered(e, c) ==
    /\ op = NoOp /\ c \in Registered(e)
    /\ UNCHANGED callVars

NoMemory(e, c) ==
    /\ op = NoOp /\ c \notin Registered(e)
    /\ fails < MaxFails /\ fails' = fails + 1
    /\ UNCHANGED <<head, node, unused, op>>

NewNode(e, c) ==
    /\ op = NoOp /\ c \notin Registered(e)
    /\ \E n \in unused :
          /\ node' = [node EXCEPT ![n] = [callback |-> c, next |-> Null]]
          /\ unused' = unused \ {n}
          /\ op' = [kind |-> "link next", entry |-> e, node |-> n]
    /\ UNCHANGED <<head, fails>>

Register(e, c) == AlreadyRegistered(e, c) \/ NoMemory(e, c) \/ NewNode(e, c)

LinkNext ==
    /\ op.kind = "link next"
    /\ node' = [node EXCEPT ![op.node].next = head[op.entry]]
    /\ op' = [op EXCEPT !.kind = "link head"]
    /\ UNCHANGED <<head, unused, fails>>

LinkHead ==
    /\ op.kind = "link head"
    /\ head' = [head EXCEPT ![op.entry] = op.node]
    /\ op' = NoOp
    /\ UNCHANGED <<node, unused, fails>>

(* app_irq_deregister_irqcallback: unlink, then free.                      *)
NotRegistered(e, c) ==
    /\ op = NoOp /\ c \notin Registered(e)
    /\ UNCHANGED callVars

UnlinkDropsRest(e, c) ==
    /\ op = NoOp
    /\ \E n \in InList(e) :
          /\ node[n].callback = c
          /\ head' = [head EXCEPT ![e] = IF @ = n THEN Null ELSE @]
          /\ node' = [p \in Nodes |-> IF node[p].next = n
                                      THEN [node[p] EXCEPT !.next = Null] ELSE node[p]]
          /\ op' = [kind |-> "free", entry |-> e, node |-> n]
    /\ UNCHANGED <<unused, fails>>

Unlink(e, c) ==
    /\ op = NoOp
    /\ \E n \in InList(e) :
          /\ node[n].callback = c
          /\ IF head[e] = n
             THEN head' = [head EXCEPT ![e] = node[n].next] /\ UNCHANGED node
             ELSE \E prev \in InList(e) :
                     /\ node[prev].next = n
                     /\ node' = [node EXCEPT ![prev].next = node[n].next]
                     /\ UNCHANGED head
          /\ op' = [kind |-> "free", entry |-> e, node |-> n]
    /\ UNCHANGED <<unused, fails>>

Deregister(e, c) == NotRegistered(e, c) \/ Unlink(e, c)

FreeForgotten ==
    /\ op.kind = "free"
    /\ op' = NoOp
    /\ UNCHANGED <<head, node, unused, fails>>

Free ==
    /\ op.kind = "free"
    /\ node' = [node EXCEPT ![op.node] = Freed]
    /\ unused' = unused \cup {op.node}
    /\ op' = NoOp
    /\ UNCHANGED <<head, fails>>

(* APP_IRQ_CallBack.                                                       *)
Walk(e) ==
    /\ ran' = [ran EXCEPT ![e] = Registered(e)]
    /\ UNCHANGED callVars

MainLoop ==
    /\ \/ \E e \in Entries, c \in Callbacks : Register(e, c) \/ Deregister(e, c)
       \/ LinkNext \/ LinkHead \/ Free
    /\ UNCHANGED ran

Next == MainLoop \/ \E e \in Entries : Walk(e)

Spec == Init /\ [][Next]_vars
-----------------------------------------------------------------------------
(* An interrupt between any two writes of the main loop runs exactly the   *)
(* callbacks that are registered.                                          *)
Lists == INSTANCE CallbackSet
           WITH registered <- [e \in Entries |-> Registered(e)]
ListsAreSets == Lists!Spec

(* Between two calls every node is in one list or in the heap, and once    *)
(* only: nothing leaks and no list runs into another or into itself.       *)
HeapBalanced ==
    op = NoOp =>
        /\ unused = Nodes \ UNION {InList(e) : e \in Entries}
        /\ \A e \in Entries : Chain(e)[Cardinality(Nodes)] = Null
        /\ \A e, f \in Entries : e # f => InList(e) \cap InList(f) = {}
=============================================================================
