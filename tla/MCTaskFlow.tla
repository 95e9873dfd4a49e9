----------------------------- MODULE MCTaskFlow -----------------------------
(***************************************************************************)
(* Instances of TaskFlow for TLC.                                          *)
(***************************************************************************)
EXTENDS TaskFlow

\* What the analyst's _next_actions_from_mode can return, and the dynamic path.
AllRoutes == {<<"coder">>, <<"analyst", "coder">>, <<"static_evidence">>,
              <<"static_evidence", "analyst">>, <<"dynamic">>}

CoderRoute == {<<"coder">>}

\* The routes and the overlay of the resume run: one static round, or a
\* dynamic detour that comes back through the analyst.
ResumeRoutes == {<<"coder">>, <<"dynamic">>}

AllRefreshes == {<<>>, <<"data_inspector">>, <<"kag_retriever">>,
                 <<"context_builder">>}
TestRefreshes == {<<>>, <<"data_inspector">>, <<"kag_retriever">>}

NoEntry == {<<>>}
TestEntries == {<<>>, <<"data_inspector", "kag_retriever">>}

NoOverlays == {NoOverlay}
TestOverlays == {NoOverlay,
  [go |-> TRUE, next |-> <<"analyst">>, skip |-> {}],
  [go |-> TRUE, next |-> <<"coder">>, skip |-> {"analyst", "data_inspector"}],
  [go |-> TRUE, next |-> <<>>, skip |-> {"coder"}]}

ResumeOverlays == {NoOverlay,
  [go |-> TRUE, next |-> <<"analyst">>, skip |-> {}]}

\* Every path of the round loop as the tests drive it, without ExecutionData.
Paths ==
  [stored |-> FALSE, reports |-> {TRUE}, routes |-> AllRoutes,
   refreshes |-> AllRefreshes, entries |-> TestEntries,
   overlays |-> TestOverlays, leaseLoss |-> TRUE, crashes |-> 0]

\* Patches the checkpoint can store and patches it cannot, and two crashes.
Resumes ==
  [stored |-> TRUE, reports |-> {TRUE, FALSE}, routes |-> ResumeRoutes,
   refreshes |-> TestRefreshes, entries |-> NoEntry,
   overlays |-> ResumeOverlays, leaseLoss |-> FALSE, crashes |-> 2]

\* One uninterrupted static task with ExecutionData.
Plain ==
  [stored |-> TRUE, reports |-> {TRUE}, routes |-> CoderRoute,
   refreshes |-> TestRefreshes, entries |-> NoEntry,
   overlays |-> NoOverlays, leaseLoss |-> FALSE, crashes |-> 0]

BothScenarios == {Paths, Resumes}
PlainScenario == {Plain}

=============================================================================
