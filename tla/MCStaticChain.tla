--------------------------- MODULE MCStaticChain ---------------------------
(* A small instance of StaticChain for TLC. *)
EXTENDS StaticChain

Asked(external, coding, mentions) == [external |-> external, code |-> coding, mentions |-> mentions]
Has(datasets, broken, documents) ==
  [datasets |-> datasets, broken |-> broken, documents |-> documents, context |-> FALSE]
Case(q, i) == [query |-> q, inputs |-> i]

\* Tasks with nothing, with a document, with a dataset nothing can read.
Cases ==
  {Case(Asked("none", FALSE, {"dataset"}), Has({}, {}, {})),
   Case(Asked("open", FALSE, {}), Has({}, {}, {})),
   Case(Asked("open", TRUE, {}), Has({}, {}, {"rules.pdf"})),
   Case(Asked("single", FALSE, {}), Has({"sales.csv", "old.csv"}, {"old.csv"}, {}))}

Planned(network, iteration, mode, queries, urls) ==
  [network |-> network, iteration |-> iteration, mode |-> mode, by |-> "model",
   queries |-> queries, urls |-> urls, research |-> "none", governed |-> TRUE]

\* Plans of every network mode.
SomePlans ==
  {Planned(Bounded, "single_pass", "hybrid_analysis", 1, 1),
   [Planned(Bounded, "multi_round", "dataset_analysis", 0, 0) EXCEPT !.research = "single_pass"],
   [Planned(Bounded, "single_pass", "hybrid_analysis", 3, 0) EXCEPT !.governed = FALSE],
   Planned("none", "multi_round", "need_more_inputs", 0, 0),
   Planned("open", "single_pass", "dynamic_research_analysis", 0, 0)}

Rec(rows, text, labelled) == [rows |-> rows, text |-> text, labelled |-> labelled]

\* Pages with rows, one of them twice, and a rule; with no row, one record
\* without text.
SomePages ==
  {<<Rec(<<1, 1, 2, 3>>, TRUE, TRUE)>>,
   <<Rec(<<>>, FALSE, FALSE), Rec(<<>>, TRUE, FALSE)>>}

SomeStrays == {"chart.png", "log"}
=============================================================================
