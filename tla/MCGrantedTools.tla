--------------------------- MODULE MCGrantedTools ---------------------------
\* Constants for TLC: one connector, two tools.
EXTENDS GrantedTools, TLC

CONSTANTS k1, t1, t2, r1, r2, a1

MCOrder == <<k1>>
MCHome == t1 :> k1
MCProviderName == t1 :> "a"
Symmetric == Permutations(Refreshes) \cup Permutations(Clients) \cup
             Permutations(Connects)
=============================================================================
