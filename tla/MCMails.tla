------------------------------ MODULE MCMails ------------------------------
(* Constants for the run of Mails. *)
EXTENDS Mails

\* Updates that take the placeholders out, with the layout left out as either
\* build has it; that take back their declaration; that change the layout; and
\* that take it off and switch the template off.
SomeUpdates ==
  { [NoChange EXCEPT !.holes = {}, !.vars = {}, !.layout = l] : l \in {None, "null"} }
  \cup { [NoChange EXCEPT !.vars = {}],
         [NoChange EXCEPT !.layout = "null", !.active = FALSE] }
  \cup { [NoChange EXCEPT !.layout = l] : l \in Layout \ {Seeded} }
============================================================================
