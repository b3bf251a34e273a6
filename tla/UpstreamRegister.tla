-------------------------- MODULE UpstreamRegister --------------------------
(***************************************************************************)
(* What the resolve page promises to the rest of microdoh3: the supervisor *)
(* replaces one value atomically, and a worker that adopts a value adopts  *)
(* the one in force at that moment, whole.  ResolvePage implements this    *)
(* with a seqlock over many separately written words.                      *)
(***************************************************************************)
CONSTANTS Readers,   \* the worker processes
          Value,     \* every upstream set the supervisor may publish
          NoView     \* a worker that has not adopted anything yet

VARIABLES current,   \* the upstream set in force
          view       \* view[r]: the upstream set worker r works from

vars == <<current, view>>

Init == /\ current \in Value
        /\ view = [r \in Readers |-> NoView]

Publish == /\ current' \in Value
           /\ UNCHANGED view

Adopt(r) == /\ view' = [view EXCEPT ![r] = current]
            /\ UNCHANGED current

Restart(r) == /\ view' = [view EXCEPT ![r] = NoView]
              /\ UNCHANGED current

Next == \/ Publish
        \/ \E r \in Readers : Adopt(r) \/ Restart(r)

Spec == Init /\ [][Next]_vars
=============================================================================
