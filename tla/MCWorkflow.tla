------------------------------ MODULE MCWorkflow ------------------------------
EXTENDS Profiles, Workflow, TLC

CONSTANTS a1, s1  \* an AsyncEngine and a ProdinamikEngine

\* A profile of one's own, with every timeout policy
Custom ==
  [initial |-> "draft", terminal |-> {"done", "cancelled"},
   pause |-> {"legal", "style", "final", "parked"}, asks |-> {"legal", "style", "final"},
   asksIf |-> None,
   edges |-> <<T("draft", "slow", ""), T("slow", "draft", ""), T("slow", "legal", ""),
               T("legal", "style", "human_approved"), T("legal", "cancelled", "project_abandoned"),
               T("style", "final", "changes_requested"), T("style", "draft", ""),
               T("final", "final", ""), T("final", "done", "human_approved"),
               T("final", "parked", ""), ByHuman("parked", "draft"),
               T("parked", "done", "")>>,
   answers |-> [legal |-> {"style"}, style |-> {"final", "draft"}, final |-> {"done"},
               parked |-> {"draft"}],
   timed |-> {"slow", "legal", "style", "final", "parked"},
   policy |-> [legal |-> "abort", style |-> "default", parked |-> "hold"],
   fallback |-> [style |-> "final"], onTimeout |-> [slow |-> "draft"],
   reentries |-> [draft |-> 3, done |-> 0, cancelled |-> 0], approval |-> {"done"}]

\* One without a state "cancelled" to abort to
Short ==
  [initial |-> "open", terminal |-> {"archived"}, pause |-> {"wait", "ask"}, asks |-> {"wait"},
   asksIf |-> None,
   edges |-> <<T("open", "wait", ""), T("open", "ask", ""), T("wait", "archived", ""),
               T("ask", "open", "human_approved")>>,
   answers |-> [wait |-> {"archived"}, ask |-> {"open"}], timed |-> {"wait", "ask"},
   policy |-> [wait |-> "abort", ask |-> "abort"], fallback |-> None, onTimeout |-> None,
   reentries |-> [open |-> 1, archived |-> 0], approval |-> {}]

Shipped == [content |-> Content, software |-> Software, haber |-> Haber, design |-> Design,
            research |-> Research]
Own     == [custom |-> Custom, short |-> Short]
All     == Shipped @@ Own

ASSUME ShippedAssumption == \A p \in DOMAIN All : ApprovalAsked(All[p])
=============================================================================
