------------------------------ MODULE MCServer ------------------------------
(***************************************************************************)
(* Server with two of the clients of app/__init__.py: one that only the    *)
(* consumer uses, and one that both tasks use and that is half open while  *)
(* it connects.  The limits are small.                                     *)
(***************************************************************************)
EXTENDS Server

MCClients == <<"milvus", "mq">>

MCCollections == <<"knowledge_base", "memory_vectors">>

MCNeeds == [consistency |-> {"mq"}, consumer |-> {"mq", "milvus"}]

MCLimit == [middleware |-> 2, route |-> 1]

=============================================================================
