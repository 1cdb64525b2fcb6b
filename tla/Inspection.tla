----------------------------- MODULE Inspection -----------------------------
(* The two tools that only read: policy_db.py and report_parser.py, one command
   after the other.  A command is one process, which nobody disturbs. *)
EXTENDS PolicyConfig, ReportDb

vars == <<policyVars, reportVars>>

TypeOK == PolicyTypeOK /\ ReportTypeOK

Init == PolicyIdle /\ ReportIdle

ToolStep ==
    \/ PolicyStep /\ UNCHANGED reportVars
    \/ ReportStep /\ UNCHANGED policyVars

Next ==
    \/ PolicyIdle /\ ReportIdle /\ PolicyStart /\ UNCHANGED reportVars
    \/ PolicyIdle /\ ReportIdle /\ ReportStart /\ UNCHANGED policyVars
    \/ ToolStep

\* A process that was started keeps running.
Spec == Init /\ [][Next]_vars /\ WF_vars(ToolStep)

\* Every command comes to an end: flatten_dict, whose list grows while it is
\* walked, and ep-info, whatever cycles the targets make.
CommandsEnd == ~PolicyIdle ~> PolicyIdle

=============================================================================
