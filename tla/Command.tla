------------------------------- MODULE Command -------------------------------
(***************************************************************************)
(* What a caller of write_dps may rely on, whatever channels the command   *)
(* pipeline tries: the call ends at most once, and it ends well only when  *)
(* some channel has taken the command.  It may end badly although a        *)
(* channel has taken the command, and a channel may still take it after    *)
(* the call has ended: the pipeline promises neither that a failed write   *)
(* was not carried out nor that a command is carried out once.             *)
(***************************************************************************)
CONSTANT Writes

VARIABLES state, taken

vars == <<state, taken>>

Init == /\ state = [w \in Writes |-> "idle"]
        /\ taken = [w \in Writes |-> FALSE]

\* write_dps is called.
Begin(w) == /\ state[w] = "idle"
            /\ state' = [state EXCEPT ![w] = "pending"]
            /\ UNCHANGED taken

\* A channel takes the command.
Take(w) == /\ state[w] # "idle"
           /\ taken' = [taken EXCEPT ![w] = TRUE]
           /\ UNCHANGED state

\* write_dps returns or raises.
End(w) == /\ state[w] = "pending"
          /\ \/ taken[w] /\ state' = [state EXCEPT ![w] = "ok"]
             \/ state' = [state EXCEPT ![w] = "error"]
          /\ UNCHANGED taken

Next == \E w \in Writes : Begin(w) \/ Take(w) \/ End(w)

Spec == Init /\ [][Next]_vars

=============================================================================
