------------------------------ MODULE MCProtocol ------------------------------
EXTENDS Protocol
Single == {<<s>> : s \in Statements \ {"garbled"}} \cup {<<>>}
Several == {<<"command">>, <<"select">>, <<"command", "command">>, <<"select", "select">>}
WithErrors == {<<"command">>, <<"garbled">>}
=============================================================================
