------------------------------ MODULE MC_Sessions ------------------------------
(***************************************************************************)
(* Two requests of a number that is new, known, asked for a name, or about *)
(* to choose an appointment.                                               *)
(***************************************************************************)
EXTENDS Sessions

CONSTANTS u1, u2, u3

(* The first k states of the session have been passed, in one transaction. *)
Resting(k, said) ==
    [customer |-> 1, uuid |-> u1,
     meta |-> {linear_states[j] : j \in 1..k} \cup said,
     transitions |-> {[to |-> linear_states[j + 1], sort_key |-> 10 * (j - 1)] : j \in 1..k},
     is_finished |-> FALSE, recent |-> TRUE, selections |-> IF k = 3 THEN 1 ELSE 0,
     before |-> 0, by |-> "text", shared |-> FALSE]

Customer(named) == [named |-> named, before |-> 0]

MC_Starts ==
    {[customers |-> <<>>, sessions |-> <<>>],
     [customers |-> <<Customer(TRUE)>>, sessions |-> <<>>],
     [customers |-> <<Customer(FALSE)>>,
      sessions |-> <<Resting(2, {"user_registration_asked"})>>],
     [customers |-> <<Customer(TRUE)>>,
      sessions |-> <<Resting(3, {"user_registration_asked"})>>]}

MC_Symmetry == Permutations(Workers) \cup Permutations({u2, u3})
===============================================================================
