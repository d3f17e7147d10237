------------------------------ MODULE MCKzInput ------------------------------
(* Three buttons with the default bindings of the menu's commands and of   *)
(* levitate, which is part of the combination that toggles the menu.       *)
(* Either two rows record combinations of two buttons, so that a third is  *)
(* one too many, or one row records all three, so that a button can be let *)
(* go and pressed again before its combination is complete.                *)
EXTENDS KzInput

MCR == 4
MCL == 5
MCDLeft == 9
MCButtons == {MCR, MCL, MCDLeft}
MCDPad == {MCDLeft}
MCCommands == {"TOGGLE_MENU", "RETURN", "LEVITATE"}
MCOverrides == {"TOGGLE_MENU", "RETURN"}
MCRows == {"LEVITATE", "RETURN"}
MCDefaultBinds == [c \in MCCommands |-> CASE c = "TOGGLE_MENU" -> <<MCR, MCL>>
                                          [] c = "RETURN"      -> <<MCR, MCDLeft>>
                                          [] c = "LEVITATE"    -> <<MCL>>]

OneRow == INSTANCE KzInput WITH Rows <- {"LEVITATE"}, BIND_MAX <- 3

VARIABLE page   \* "two rows" or "one row"

pageVars == <<vars, page>>

TwoRowsRun == page = "two rows" /\ Next /\ UNCHANGED page
OneRowRuns == page = "one row" /\ OneRow!Next /\ UNCHANGED page

PageInit == \/ page = "two rows" /\ Init
            \/ page = "one row" /\ OneRow!Init
PageSpec ==
    /\ PageInit /\ [][TwoRowsRun \/ OneRowRuns]_pageVars
    /\ WF_pageVars(TwoRowsRun \/ OneRowRuns)

(* KzInput's type invariant for the bindings the page can record.          *)
InputTypeOK == IF page = "two rows" THEN TypeOK ELSE OneRow!TypeOK
=============================================================================
