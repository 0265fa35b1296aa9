---------------------------- MODULE MCBackground ----------------------------
(***************************************************************************)
(* A small instance of Background, for TLC.                                *)
(***************************************************************************)
EXTENDS Background, TLC

\* An instance event and a billing event; a handler of billing events, an
\* administrator's stream, one worker beside the overflow goroutines.
MCTypeOf == "e1" :> <<"instance", "created">> @@ "e2" :> <<"billing", "invoice", "paid">>
MCTenantOf == "e1" :> "alice" @@ "e2" :> "bob"
MCPatternOf == "h" :> [any |-> TRUE, segs |-> <<"billing">>]

\* Two overlapping invoices of one period, a metering call, a change of plan.
MCPeriod == [from |-> 1, to |-> 1]

\* Two migrations of one instance, one of them by an evacuation, and a crash.
MCSizeOf == [i \in {"i1"} |-> [cpu |-> 2, mem |-> 2, disk |-> 2]]
MCNodeFacts ==
  [n \in {"n1", "n2"} |-> [loc |-> "", arch |-> "x", kvm |-> TRUE, over |-> [cpu |-> 1, mem |-> 1],
                          capacity |-> [cpu |-> IF n = "n1" THEN 4 ELSE 0, mem |-> 4, disk |-> 4]]]
MCHome == "i1" :> "n1"
MCDefaultCap == [cpu |-> 2, mem |-> 4, disk |-> 4]

\* Three releases start at once; the last one's newest file is broken.
MCFilesOf == "a" :> {1, 2} @@ "b" :> {1, 2, 3} @@ "c" :> {1, 2, 3, 4}
=============================================================================
