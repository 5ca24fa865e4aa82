----------------------------- MODULE MCFlowRun -----------------------------
EXTENDS FlowRun, TLC

\* Plans that reach every branch of both executors: an invoked node before a wait and after
\* one, a wait of each kind and one after the other, a data_model node alone and
\* behind either wait, and a node type the executors do not know.
MCPlans == {
  <<"start", "llm", "answer">>,
  <<"human_input", "llm">>,
  <<"human_input", "tool">>,
  <<"human_input", "data_model">>,
  <<"http_request", "data_model">>,
  <<"data_model", "unsupported">> }
=============================================================================
