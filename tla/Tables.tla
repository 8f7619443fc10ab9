--------------------------------- MODULE Tables ---------------------------------
(* A table of the database is a function from the ids of its rows to the rows.   *)
EXTENDS Integers, FiniteSets

CONSTANT None  \* no value: a null, or a field that a request leaves out

(* The table with row x made or replaced, and the table of some of the ids. *)
Put(f, x, y) == [z \in DOMAIN f \cup {x} |-> IF z = x THEN y ELSE f[z]]
Only(f, ids) == [x \in DOMAIN f \cap ids |-> f[x]]

(* A field of a request, or what the row has. *)
Given(new, old) == IF new = None THEN old ELSE new
=================================================================================
