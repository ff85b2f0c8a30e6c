---------------------------- MODULE MCAuditStream ----------------------------
(* Constants of the model-checking run of AuditStream.                      *)
EXTENDS AuditStream

\* Logs of preview mode do not fit on the page; the ids of the others are behind them.
MCOldRows == [d \in Accounts \X Modes |-> IF d[2] = "preview" THEN 3 ELSE 1]
MCKinds == <<"copy", "skip", "copy", "copy">>
MCTied == <<FALSE, FALSE, TRUE, FALSE>>
==============================================================================
