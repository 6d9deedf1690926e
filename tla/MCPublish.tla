----------------------------- MODULE MCPublish -----------------------------
(***************************************************************************)
(* Small instances of Publish, the flow, and of PublishDialog, where its   *)
(* inputs come from.  Their variables are disjoint, so as in MCPanels one  *)
(* moves and the other stands still.                                       *)
(*                                                                         *)
(* Publish: two repositories are enough for a flow to be credited with     *)
(* another repository's result.  Nothing orders the repositories, so they  *)
(* are interchangeable.  PublishDialog: the account has two repositories,  *)
(* and the texts typed are like their names and not, what GitHub does not  *)
(* take, and a name between blanks.                                        *)
(***************************************************************************)
EXTENDS Publish

CONSTANTS MaxFolder   \* of PublishDialog

VARIABLES
    moving,
    dFolder, dMode, dName, dTemplate, dWarning, dSearch, dCurrent, dOk, dState,
    dTouched

dialogVars == <<dFolder, dMode, dName, dTemplate, dWarning, dSearch, dCurrent, dOk,
                dState, dTouched>>

Inputs == INSTANCE PublishDialog WITH
    Known <- {<<"letter">>, <<"letter", "-", "letter">>},
    Typed <- {<<>>, <<"LETTER">>, <<"letter", ".">>, <<" ", "letter", " ">>,
              <<"foreign">>, <<".", ".">>},
    folder <- dFolder, mode <- dMode, name <- dName, template <- dTemplate,
    warning <- dWarning, search <- dSearch, current <- dCurrent, ok <- dOk,
    state <- dState, touched <- dTouched

ASSUME InputsAssumption == Inputs!PublishDialogAssumption

PublishInit ==
    /\ moving \in {"flow", "dialog"}
    /\ Init /\ Inputs!Init
    \* Who stands still does so in one state.
    /\ moving # "flow" => github = {} /\ \A f \in Folders : head[f] = "unborn"
    /\ moving # "dialog" => dFolder = <<>>

PublishNext ==
    /\ UNCHANGED moving
    /\ moving # "flow" => UNCHANGED vars
    /\ moving # "dialog" => UNCHANGED dialogVars
    /\ \/ moving = "flow" /\ Next
       \/ moving = "dialog" /\ Inputs!Next

PublishSpec == PublishInit /\ [][PublishNext]_<<moving, vars, dialogVars>>

RepoSymmetry == Permutations(Repos)
-----------------------------------------------------------------------------
\* PublishDialog: what the dialog suggests, and what it returns, can be used; and
\* its variables stay in their ranges.
InputsAreUsable ==
    moving = "dialog" =>
        Inputs!TypeOK /\ Inputs!AcceptedIsUsable /\ Inputs!SuggestionIsUsable

\* PublishDialog: what the README offers, and the dialog does not let through.
TemplateIsOffered == Inputs!TemplateIsOffered
=============================================================================
