-------------------------- MODULE MCModuleRegistry --------------------------
EXTENDS ModuleRegistry

\* "a" mocks the package "q" in its body and reaches it through "b"; the packages "p" and "q"
\* require each other
MCImports == [a |-> <<"b">>, b |-> <<"q">>, p |-> <<"q">>, q |-> <<"p">>]
MCDeclares == [a |-> {"q"}, b |-> {}, p |-> {}, q |-> {}]

ASSUME Instance == MocksApart /\ ImportersApart
=============================================================================
