------------------------------ MODULE MCQuery ------------------------------
(***************************************************************************)
(* Three components on small instances: how a section becomes chunks, how  *)
(* chunks are found and become the context of an answer, and the static    *)
(* facts.  They share no variable, so nothing is lost when one of them     *)
(* moves only while the other two are in their initial states.             *)
(*                                                                         *)
(* Passages are interchangeable in every action and property.              *)
(***************************************************************************)
EXTENDS AgentGraph, Chunker, StaticFacts, TLC

queryVars == <<vars, chunkerVars, factVars>>

QueryInit == Init /\ ChunkerInit /\ FactsInit

\* A section is cut and facts are added once; only the graph must always go on.
QueryNext ==
  \/ phase = "idle" /\ FactsInit /\ Next /\ UNCHANGED <<chunkerVars, factVars>>
  \/ node = "idle" /\ FactsInit /\ ChunkerNext /\ UNCHANGED <<vars, factVars>>
  \/ node = "idle" /\ phase = "idle" /\ FactsNext /\ UNCHANGED <<vars, chunkerVars>>
  \/ node = "idle" /\ UNCHANGED queryVars

QuerySpec == QueryInit /\ [][QueryNext]_queryVars

\* Every variable of the three keeps its type (see TypeOK, ChunkerTypeOK and
\* FactsTypeOK in their modules).
QueryTypeOK == TypeOK /\ ChunkerTypeOK /\ FactsTypeOK

Symmetry == Permutations(Passage)

=============================================================================
