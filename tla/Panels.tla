------------------------------- MODULE Panels -------------------------------
(***************************************************************************)
(* The panels that take keys of their own: the embedded shell, the log     *)
(* viewer and the file browser.  They share nothing, and are looked at one *)
(* at a time.                                                              *)
(***************************************************************************)
EXTENDS Shell, LogView, Files

VARIABLE panel   \* the one that is looked at

panelVars == <<panel, vars, logVars, fsVars>>

PanelsInit ==
  /\ panel \in {"shell", "logs", "files"}
  /\ Init /\ LogsInit /\ FilesInit

PanelsNext ==
  /\ \/ panel = "shell" /\ Next     /\ UNCHANGED <<logVars, fsVars>>
     \/ panel = "logs"  /\ LogsNext  /\ UNCHANGED <<vars, fsVars>>
     \/ panel = "files" /\ FilesNext /\ UNCHANGED <<vars, logVars>>
  /\ UNCHANGED panel

PanelsSpec == PanelsInit /\ [][PanelsNext]_panelVars /\ Fairness

\* The log viewer and the file browser, in one.
ViewersRight == SearchRight /\ BrowserRight
=============================================================================
