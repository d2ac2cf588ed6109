------------------------------- MODULE Mirror -------------------------------
(***************************************************************************)
(* The synchronous view DataFusion has of a catalog                        *)
(* (datafusion_iceberg/src/catalog/mirror.rs, with the providers in        *)
(* catalog.rs and schema.rs that call it).                                 *)
(*                                                                         *)
(* The mirror is one concurrent map from names to nodes: a namespace node  *)
(* holds the names of its tables, a relation node an identifier.  A call   *)
(* of the map is atomic; an operation of the mirror makes one or two.      *)
(* Tables themselves are always loaded from the catalog.                   *)
(***************************************************************************)
EXTENDS Integers, FiniteSets

CONSTANTS Clients, Schemas, Tables,   \* Tables: function from table names to their schemas
          MaxCalls                    \* bound on the calls started

Names == DOMAIN Tables

VARIABLES catalog,      \* the tables the catalog holds, as a set of names
          namespaces,   \* the namespace nodes: partial function from schemas to sets of names
          relations,    \* the names that have a relation node
          pc,           \* per client: [op, name, left], left the steps still to make
          calls

vars == <<catalog, namespaces, relations, pc, calls>>

Idle == [op |-> "none", name |-> "none", left |-> 0]

\* Mirror::new lists the catalog once; new_sync starts empty.
Init ==
  /\ catalog \in SUBSET Names
  /\ \/ /\ namespaces = [s \in Schemas |-> {t \in catalog : Tables[t] = s}]
        /\ relations = catalog
     \/ /\ namespaces = [s \in {} |-> {}]
        /\ relations = {}
  /\ pc = [c \in Clients |-> Idle]
  /\ calls = 0

\* A client calls register_table or deregister_table.
Call(c, op, t) ==
  /\ pc[c] = Idle /\ calls < MaxCalls
  /\ calls' = calls + 1
  /\ pc' = [pc EXCEPT ![c] = [op |-> op, name |-> t, left |-> 2]]
  /\ UNCHANGED <<catalog, namespaces, relations>>

\* The namespace's set with a name added or removed; without a node nothing happens.
WithName(t) == [s \in DOMAIN namespaces |->
                  IF s = Tables[t] THEN namespaces[s] \cup {t} ELSE namespaces[s]]

WithoutName(t) == [s \in DOMAIN namespaces |-> namespaces[s] \ {t}]

\* A slip: the relation node is made first.
relation_first(left) == left = 1

\* register_table enters the name into the namespace first and makes the
\* relation node second.
enters_name(left) == left = 2

RegisterTable(c) ==
  LET t == pc[c].name
  IN  /\ pc[c].op = "register"
      /\ IF enters_name(pc[c].left)
         THEN namespaces' = WithName(t) /\ UNCHANGED relations
         ELSE relations' = relations \cup {t} /\ UNCHANGED namespaces
      /\ pc' = [pc EXCEPT ![c] = IF pc[c].left = 1 THEN Idle ELSE [@ EXCEPT !.left = 1]]
      /\ UNCHANGED <<catalog, calls>>

\* deregister_table removes the relation node and, only if there was one, the
\* name from the namespace.
DeregisterTable(c) ==
  LET t == pc[c].name
  IN  /\ pc[c].op = "deregister"
      /\ IF pc[c].left = 2
         THEN /\ relations' = relations \ {t}
              /\ pc' = [pc EXCEPT ![c] = IF t \in relations THEN [@ EXCEPT !.left = 1] ELSE Idle]
              /\ UNCHANGED namespaces
         ELSE /\ namespaces' = WithoutName(t)
              /\ pc' = [pc EXCEPT ![c] = Idle]
              /\ UNCHANGED relations
      /\ UNCHANGED <<catalog, calls>>

\* register_schema replaces the node by one without tables.
RegisterSchema(s) ==
  /\ calls < MaxCalls
  /\ calls' = calls + 1
  /\ namespaces' = [x \in DOMAIN namespaces \cup {s} |-> IF x = s THEN {} ELSE namespaces[x]]
  /\ UNCHANGED <<catalog, relations, pc>>

\* deregister_schema removes the node; the relation nodes stay.
DeregisterSchema(s) ==
  /\ calls < MaxCalls /\ s \in DOMAIN namespaces
  /\ calls' = calls + 1
  /\ namespaces' = [x \in DOMAIN namespaces \ {s} |-> namespaces[x]]
  /\ UNCHANGED <<catalog, relations, pc>>

\* Somebody creates or drops a table in the catalog, past the mirror.
CatalogChanges(t) ==
  /\ calls < MaxCalls
  /\ calls' = calls + 1
  /\ catalog' = IF t \in catalog THEN catalog \ {t} ELSE catalog \cup {t}
  /\ UNCHANGED <<namespaces, relations, pc>>

Next ==
  \/ \E c \in Clients : RegisterTable(c) \/ DeregisterTable(c)
  \/ \E c \in Clients, op \in {"register", "deregister"}, t \in Names : Call(c, op, t)
  \/ \E s \in Schemas : RegisterSchema(s) \/ DeregisterSchema(s)
  \/ \E t \in Names : CatalogChanges(t)

Spec == Init /\ [][Next]_vars

-----------------------------------------------------------------------------
(* What the providers answer. *)

\* table_exists asks for the relation node; table_names lists the names of
\* the namespace that have one.
table_exists(t) == t \in relations

table_names(s) == {t \in namespaces[s] : table_exists(t)}

\* table: always asked of the catalog.
table(t) == t \in catalog

\* The mirror never keeps a name in a namespace whose relation node is gone,
\* once the calls about it are over: register_table enters the name before the
\* node and deregister_table removes the node before the name, so that however
\* two such calls interleave no name is left that no later deregister_table
\* would remove.
NamesHaveNodes ==
  \A s \in DOMAIN namespaces : \A t \in namespaces[s] :
    (\A c \in Clients : pc[c].name # t) => t \in table_names(s)

=============================================================================
