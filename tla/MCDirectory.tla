---- MODULE MCDirectory ----
(* Constants of the runs of Directory. *)
EXTENDS Directory, TLC

MCRowsOf == [t \in Table |-> 1 .. 2]

Interchangeable ==
  {p @@ q @@ v @@ s : p \in Permutations(Request), q \in Permutations(Product),
     v \in Permutations(Value), s \in Permutations(Status)}
====
