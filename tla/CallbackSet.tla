---------------------------- MODULE CallbackSet -----------------------------
(***************************************************************************)
(* What AppSysIrqCallback promises: an interrupt entry has a set of        *)
(* callbacks; a call of register adds one or, without memory, does         *)
(* nothing, a call of deregister removes one, and an interrupt runs those  *)
(* that are in the set when it comes, whatever call it interrupts.         *)
(***************************************************************************)
CONSTANTS Entries, Callbacks

VARIABLES registered,   \* the callbacks of every entry
          ran           \* those the last interrupt of an entry ran

vars == <<registered, ran>>

Init == registered = [e \in Entries |-> {}] /\ ran = [e \in Entries |-> {}]

Register(e, c) ==
    /\ registered' = [registered EXCEPT ![e] = @ \cup {c}]
    /\ UNCHANGED ran

Deregister(e, c) ==
    /\ registered' = [registered EXCEPT ![e] = @ \ {c}]
    /\ UNCHANGED ran

Interrupt(e) ==
    /\ ran' = [ran EXCEPT ![e] = registered[e]]
    /\ UNCHANGED registered

Next == \E e \in Entries :
            Interrupt(e) \/ \E c \in Callbacks : Register(e, c) \/ Deregister(e, c)

Spec == Init /\ [][Next]_vars
=============================================================================
