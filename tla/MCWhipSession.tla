--------------------------- MODULE MCWhipSession ---------------------------
(* Room for one session.  Ends: every way to end a session, and an append   *)
(* that may fail.  Events: a stop among the other events of its run, which  *)
(* may also expire.  Refused: a delete among them.  Competing: two offers   *)
(* for the two budgets and the slot, the second short of bytes or of        *)
(* threads, and a worker that may die.                                      *)
EXTENDS WhipSession
CONSTANTS a, b

Envelope(bytes, threads) == [r \in Resources |-> IF r = "bytes" THEN bytes ELSE threads]
MCLimit == Envelope(2, 2)

Need(r) == [s \in {a} |-> r]
Asked(requests) == {<<a, r>> : r \in requests}

Ends == [need |-> Need(Envelope(1, 1)), requests |-> Asked({"terminate", "stop", "delete"}),
         lapses |-> FALSE, failures |-> 1, faults |-> 0]
Events == [need |-> Need(Envelope(1, 1)), requests |-> Asked({"stop", "process", "reason"}),
           lapses |-> TRUE, failures |-> 0, faults |-> 0]
Refused == [need |-> Need(Envelope(1, 1)), requests |-> Asked({"delete", "reason"}),
            lapses |-> FALSE, failures |-> 1, faults |-> 0]
Competing(second) ==
  [need |-> [s \in {a, b} |-> IF s = a THEN Envelope(1, 2) ELSE second],
   requests |-> {}, lapses |-> FALSE, failures |-> 1, faults |-> 1]
MCLoads == {Ends, Events, Refused, Competing(Envelope(2, 1)), Competing(Envelope(1, 1))}
=============================================================================
