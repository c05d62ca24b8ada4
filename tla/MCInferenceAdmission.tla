------------------------ MODULE MCInferenceAdmission ------------------------
EXTENDS InferenceAdmission

CONSTANTS u1, l1, o1,   \* an urgent, a live and an offline caller
          p1, p2, s1, s2, s3

\* u1 and l1 are of one principal; every caller is a stream of its own
MCPrincipalOf == [c \in Callers |-> IF c = o1 THEN p2 ELSE p1]
MCStreamOf == [c \in Callers |-> CASE c = u1 -> s1 [] c = l1 -> s2 [] OTHER -> s3]
MCRankOf == [c \in Callers |-> CASE c = o1 -> 2 [] c = l1 -> 1 [] OTHER -> 0]

\* an urgent call must start soon, an offline one has twice its timeout
MCDeadlineOf == [c \in Callers |-> CASE c = o1 -> 5 [] c = l1 -> 4 [] OTHER -> 3]

\* the offline call carries the most tokens, the live clip the most bytes
MCDemandOf ==
  [c \in Callers |-> [tokens |-> IF c = o1 THEN 2 ELSE 1, bytes |-> IF c = l1 THEN 2 ELSE 1]]
MCBudget == [tokens |-> 2, bytes |-> 3]
=============================================================================
