--------------------------- MODULE CatalogClients ---------------------------
(***************************************************************************)
(* The callers of a catalog: clients (tasks), each of which calls one of   *)
(* several catalog instances (processes) with a cache of its own.          *)
(***************************************************************************)

CONSTANTS
  Clients,     \* tasks calling a catalog
  Instances,   \* catalog values, each with a cache of its own
  InstanceOf   \* the instance each client calls

ASSUME ClientsAssumption == InstanceOf \in [Clients -> Instances]

=============================================================================
