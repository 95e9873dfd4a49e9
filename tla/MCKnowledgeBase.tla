-------------------------- MODULE MCKnowledgeBase --------------------------
(***************************************************************************)
(* An instance of KnowledgeBase for TLC: a large document of two sections  *)
(* that two tasks of the workspace share, and an empty one of the second   *)
(* task.  Both tasks ask the same question; the first asks it twice.       *)
(***************************************************************************)
EXTENDS KnowledgeBase

CONSTANTS t1, t2, large, empty, query, fact

Item(label, level, size) == [label |-> label, level |-> level, size |-> size]

MCDocsOf == t1 :> <<large>> @@ t2 :> <<empty, large>>
MCQueryOf == [t \in Task |-> query]
MCFile == large :> [format |-> "text", tokens |-> 3, bytes |-> 0]
          @@ empty :> [format |-> "word", tokens |-> 0, bytes |-> 1]
MCFactOf == [d \in Doc |-> fact]
MCRelevance == [q \in Query |-> large :> 1 @@ empty :> 0]
MCAsk == [q \in Query |-> [terms |-> 1, analytic |-> TRUE, related |-> TRUE]]
MCRounds == t1 :> 2 @@ t2 :> 1

\* The large document: a heading without a body, a section long enough for two
\* pieces, the second too short to keep, and another section; read as text it is
\* a parent with two leaves.
MCItems ==
  large :> <<Item("title", 0, 1), Item("section_header", 1, 1), Item("text", 0, 5),
             Item("section_header", 2, 1), Item("text", 0, 2)>>
  @@ empty :> <<>>

ASSUME MCSearchable == Searchable
=============================================================================
