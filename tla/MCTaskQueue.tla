----------------------------- MODULE MCTaskQueue -----------------------------
(* TLC instances of TaskQueue: which machines belong to the seller of which *)
(* task, and where the tasks are booked.                                   *)
EXTENDS TaskQueue, TLC

CONSTANTS a1, a2, a3, c1, c2, reaper, h1, h2

(* a3's seller has the second segment; a1 and a2 are two machines of the    *)
(* seller of the first one, where the stitch task goes too                 *)
TwoSellers == [a \in Agents |-> IF a = a3 THEN {2} ELSE Tasks \ {2}]
(* all machines are one seller's *)
OneSeller == [a \in Agents |-> Tasks]
SecondApart == [t \in Tasks |-> IF t = 2 THEN h2 ELSE h1]
=============================================================================
