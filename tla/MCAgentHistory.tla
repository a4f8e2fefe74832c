--------------------------- MODULE MCAgentHistory ---------------------------
EXTENDS AgentHistory

\* The condensers of the default configurations (session.py:230-240,
\* agent_config.py:59), the amortized one behind the window, and the summarizing
\* one with no window in front.
WindowFirst == {<<"window", "summarizing">>, <<"window">>, <<"window", "amortized">>}
WithAndWithoutWindow == {<<"window", "summarizing">>, <<"window", "amortized">>, <<"summarizing">>}
=============================================================================
