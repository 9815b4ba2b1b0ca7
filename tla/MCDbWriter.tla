----------------------------- MODULE MCDbWriter -----------------------------
(***************************************************************************)
(* Feeds and fault bounds for the runs of DbWriter.                        *)
(***************************************************************************)
EXTENDS DbWriter

Event(type, order, flaw) == [type |-> type, order |-> order, flaw |-> flaw]

(* Two orders that can never be bound, an order with its fill and its last *)
(* status between them, and a row the table refuses.                       *)
MixedFeed == <<Event("order", "a", "missing"), Event("order", "b", "none"),
               Event("fill", "b", "none"), Event("order", "b", "none"),
               Event("order", "a", "missing"), Event("order", "c", "refused")>>

(* A row the table refuses, an event the writer ignores, and a good row.   *)
RefusedFeed == <<Event("order", "a", "refused"), Event("other", "b", "none"),
                 Event("order", "b", "none")>>

NoFaults  == [connection |-> 0, disk |-> 0, close |-> 0, crash |-> 0]
AllFaults == [connection |-> 1, disk |-> 1, close |-> 1, crash |-> 1]
=============================================================================
