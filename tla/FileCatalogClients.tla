------------------------- MODULE FileCatalogClients -------------------------
(* What the clients of the file catalog call, the parameters of FileCatalog. *)
EXTENDS CatalogClients, Naturals

CONSTANTS
  Creators,     \* the clients that call create_table
  Droppers,     \* the clients that call drop_table
  CommitKinds,  \* the kinds of transaction the clients commit
  MaxIds        \* bound: tables created and commits attempted

ASSUME FileConstantsAssumption ==
  /\ Creators \subseteq Clients
  /\ Droppers \subseteq Clients
  /\ CommitKinds \subseteq {"data", "props", "gzip", "plain"}
  /\ MaxIds \in Nat

=============================================================================
