----------------------- MODULE MCVerificationService -----------------------
(* Instantiates VerificationService for TLC: one single-instance tool and *)
(* one shared tool, two requests on the single-instance tool (one with an *)
(* input file, one without) and one on the shared tool.                    *)
EXTENDS VerificationService, TLC

CONSTANTS t1, t2, r1, r2, r3, f1

MCReqTool == [r \in Requests |-> IF r = r2 THEN t2 ELSE t1]
MCReqInputs == [r \in Requests |-> IF r = r1 THEN {f1} ELSE {}]

MCSymmetry == Permutations(WsIds) \cup Permutations(Pids)

=============================================================================
