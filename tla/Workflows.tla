------------------------------ MODULE Workflows ------------------------------
(***************************************************************************)
(* The three workflows the repository ships, app/workflow/config/*.yml.    *)
(* A form keeps what it pins to a constant (const) of the keys conditions  *)
(* read; the other fields of a form_schema are in the request's `valid`.   *)
(***************************************************************************)
EXTENDS WorkflowBuilder

Action(target) == [type |-> "action", target |-> target, transitions |-> << >>]

Interrupt(transitions) ==
    [type |-> "interrupt", target |-> END, transitions |-> transitions]

Terminal == [type |-> "terminal", target |-> END, transitions |-> << >>]

\* A transition chosen by `action == "<a>"`, whose form pins no other key.
OnAction(a, target) ==
    [action |-> a, target |-> target, var |-> "action", val |-> a, form |-> EmptyState]

\* A transition chosen by `is_approved == <b>`, the constant of its form.
OnApproval(a, b, target) ==
    [action |-> a, target |-> target, var |-> "is_approved", val |-> b,
     form |-> [EmptyState EXCEPT !["is_approved"] = b]]

PurchaseRequest ==
    [entry |-> "submit",
     nodes |-> [submit        |-> Action("manager_audit"),
                manager_audit |-> Interrupt(<<OnApproval("approve", "true", "finance_audit"),
                                              OnApproval("reject", "false", "rejected")>>),
                finance_audit |-> Interrupt(<<OnApproval("approve", "true", "approved"),
                                              OnApproval("reject", "false", "rejected")>>),
                approved      |-> Terminal,
                rejected      |-> Terminal]]

Inquiry ==
    [entry |-> "create_inquiry",
     nodes |-> [create_inquiry |-> Action("send_inquiry"),
                send_inquiry   |-> Action("check_quotes"),
                check_quotes   |-> Interrupt(<<OnAction("new_round", "send_inquiry"),
                                               OnAction("award", "push_to_erp")>>),
                push_to_erp    |-> Action("completed"),
                completed      |-> Terminal]]

TodoWorkflow ==
    [entry |-> "start",
     nodes |-> [start |-> Action("todo"),
                todo  |-> Interrupt(<<OnAction("start", "doing")>>),
                doing |-> Interrupt(<<OnAction("complete", "done"),
                                      OnAction("pause", "todo")>>),
                done  |-> Terminal]]

=============================================================================
