--------------------------- MODULE DurableRecord ---------------------------
(***************************************************************************)
(* What a record kept in two flash copies promises to the code above it,   *)
(* whatever the order in which the copies are erased and programmed.       *)
(*                                                                         *)
(* rec is what a load would return now, Default when it would find no      *)
(* valid copy.  safe says that a second failure can be afforded: the copy  *)
(* that a load reads is not the one that the next save destroys first.     *)
(* A save commits in one step, an interrupted save leaves the old or the   *)
(* new record, and a record is lost only by a save that starts (or goes    *)
(* on) while safe is FALSE.  Where the code does not notice a failing      *)
(* flash operation (MayFail), a save can cease to be safe on its way.      *)
(***************************************************************************)
CONSTANTS Value,    \* the records that can be saved
          Default,  \* what a load yields when no copy is valid
          NoSave,   \* no save in progress
          MayFail   \* whether a save goes on after a failing operation

VARIABLES rec, safe, saving

drvars == <<rec, safe, saving>>

Init == /\ rec \in Value \cup {Default}
        /\ safe \in BOOLEAN
        /\ saving = NoSave

(* A save of v is requested.                                               *)
Begin(v) == /\ saving = NoSave
            /\ saving' = v
            /\ UNCHANGED <<rec, safe>>

(* The only copy is being rewritten: a load would find nothing.            *)
Expose == /\ saving # NoSave
          /\ ~safe
          /\ rec' = Default
          /\ UNCHANGED <<safe, saving>>

(* The copy that was to hold the new record while the other is rewritten   *)
(* does not: an operation on it failed and the save goes on.               *)
Damage == /\ MayFail
          /\ saving # NoSave
          /\ safe' = FALSE
          /\ UNCHANGED <<rec, saving>>

(* The new record takes effect.                                            *)
Commit == /\ saving # NoSave
          /\ rec' = saving
          /\ safe' = FALSE
          /\ UNCHANGED saving

(* The second copy is written too.  It may be the only one that is, after  *)
(* a failing operation on the first.                                       *)
Complete == /\ saving # NoSave
            /\ rec = saving \/ MayFail
            /\ rec' = saving
            /\ safe' = TRUE
            /\ saving' = NoSave

(* A power cut or a failed flash operation ends the save early, before or  *)
(* after the operation in progress has had its effect on what a load finds.*)
(* A save that was damaged on its way no longer matters to the next one.   *)
Abandon == /\ saving # NoSave
           /\ saving' = NoSave
           /\ \/ UNCHANGED <<rec, safe>>
              \/ MayFail /\ safe' = TRUE /\ UNCHANGED rec
              \/ rec' = saving /\ safe' = FALSE
              \/ ~safe /\ rec' = Default /\ UNCHANGED safe

Next == \/ \E v \in Value \cup {Default} : Begin(v)
        \/ Expose
        \/ Damage
        \/ Commit
        \/ Complete
        \/ Abandon

Spec == Init /\ [][Next]_drvars
=============================================================================
