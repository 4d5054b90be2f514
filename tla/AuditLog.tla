------------------------------ MODULE AuditLog ------------------------------
(***************************************************************************)
(* What a buffered event writer promises, with nothing said about buffers, *)
(* staging tables or files.  An emitted event is first pending; it then    *)
(* becomes durable once, or it is given up (the process died, or the write *)
(* that carried it raised).  Neither is ever undone.                       *)
(*                                                                         *)
(* "orderly" is the condition the promise is made under.  Once it is lost  *)
(* the log promises only that no event is invented.                        *)
(***************************************************************************)
EXTENDS Naturals

CONSTANT Event

VARIABLES emitted, durable, gone, orderly

vars == <<emitted, durable, gone, orderly>>

Pending == emitted \ (durable \cup gone)

Init == /\ emitted = {}
        /\ durable = {}
        /\ gone = {}
        /\ orderly = TRUE

Emit == /\ \E e \in Event \ emitted : emitted' = emitted \cup {e}
        /\ UNCHANGED <<durable, gone, orderly>>

Persist == /\ orderly
           /\ \E S \in SUBSET Pending : durable' = durable \cup S
           /\ UNCHANGED <<emitted, gone, orderly>>

GiveUp == /\ orderly
          /\ \E S \in SUBSET Pending : gone' = gone \cup S
          /\ UNCHANGED <<emitted, durable, orderly>>

\* The condition is lost, once and for all.
Disorder == /\ orderly' = FALSE
            /\ durable' \subseteq emitted
            /\ gone' \subseteq emitted
            /\ UNCHANGED emitted

Next == Emit \/ Persist \/ GiveUp \/ Disorder

Spec == Init /\ [][Next]_vars
=============================================================================
