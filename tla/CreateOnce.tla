----------------------------- MODULE CreateOnce -----------------------------
(***************************************************************************)
(* What an Idempotency-Key promises: however often a create is sent, one   *)
(* record is made, and every attempt that is answered with a record is     *)
(* answered with that one, after it exists.                                *)
(***************************************************************************)
CONSTANTS Attempts, NoOne

VARIABLES
  made,  \* the attempts that made a record
  told   \* the record each attempt was answered with

onceVars == <<made, told>>

Init == made = {} /\ told = [r \in Attempts |-> NoOne]

Create(r) ==
  /\ made = {}
  /\ made' = {r}
  /\ UNCHANGED told

Tell(r) ==
  /\ \E e \in made : told' = [told EXCEPT ![r] = e]
  /\ UNCHANGED made

Next == \E r \in Attempts : Create(r) \/ Tell(r)

Spec == Init /\ [][Next]_onceVars
=============================================================================
