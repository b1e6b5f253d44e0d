------------------------------- MODULE Shell --------------------------------
(***************************************************************************)
(* The application shell: the tab store and the share links, which have     *)
(* their state apart and the toast in common.                              *)
(***************************************************************************)
EXTENDS TabStore, ShareLinks

vars == <<toastVars, tabVars, shareVars>>

Init == ToastInit /\ TabInit /\ ShareInit

Next ==
    \/ TabNext /\ UNCHANGED shareVars
    \/ ShareNext /\ UNCHANGED tabVars
    \/ ClearToast /\ UNCHANGED <<tabVars, shareVars>>

Spec == Init /\ [][Next]_vars

TypeOK == ToastTypeOK /\ TabTypeOK /\ ShareTypeOK
=============================================================================
