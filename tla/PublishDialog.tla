--------------------------- MODULE PublishDialog ----------------------------
(***************************************************************************)
(* PublishToGitHubDialog: the name of the repository to create, suggested  *)
(* from the folder's, or the repository to link to, and the button that    *)
(* is enabled when some of its inputs change.                              *)
(*                                                                         *)
(* A text is a sequence of the kinds of character its rules tell apart.    *)
(* Digits and "_" are treated as ASCII letters are.  The account is signed *)
(* in: MainWindow asks before it opens the dialog.                         *)
(***************************************************************************)
EXTENDS SequencesExt

CONSTANTS
    Known,       \* names of the account's repositories (knownRepos_)
    Typed,       \* texts the user may type for a name
    MaxFolder    \* bound on the length of the folder's name

Kinds == {"letter", "foreign", "-", ".", " "}   \* foreign: a letter beyond ASCII
Texts == UNION {[1..n -> Kinds \cup {"LETTER"}] : n \in 0..MaxFolder}

PublishDialogAssumption ==
    Known \cup Typed \subseteq Texts /\ MaxFolder \in Nat

VARIABLES
    folder,     \* the folder's name, forgotten once touched
    mode,       \* mode_
    name,       \* the text of nameEdit_
    template,   \* a licence or a .gitignore is chosen
    warning,    \* what createWarningLabel_ says, or "none" when it is hidden
    search,     \* the repositories that match searchEdit_
    current,    \* the current row of existingList_, a set of at most one
    ok,         \* "Create && Publish", or "Link && Publish", is enabled
    state,      \* of the dialog
    touched     \* history: the user has changed the mode, the name or a template

vars == <<folder, mode, name, template, warning, search, current, ok, state, touched>>

TypeOK ==
    /\ folder \in Texts /\ name \in Texts
    /\ mode \in {"CreateNew", "LinkExisting"}
    /\ template \in BOOLEAN /\ ok \in BOOLEAN /\ touched \in BOOLEAN
    /\ warning \in {"none", "collision", "invalid", "template"}
    /\ search \subseteq Known /\ current \subseteq Known /\ Cardinality(current) <= 1
    /\ state \in {"open", "accepted", "rejected"}
-----------------------------------------------------------------------------
(***************************************************************************)
(* Texts.                                                                  *)
(***************************************************************************)

\* s without the characters of edge at its ends.
Strip(s, edge) ==
    LET core == {i \in DOMAIN s : s[i] \notin edge}
    IN IF core = {} THEN <<>> ELSE SubSeq(s, Min(core), Max(core))

trimmed(s) == Strip(s, {" "})

\* One more character: letters of any alphabet stay; a blank becomes a hyphen, but
\* for one after a hyphen or at the beginning.
Add(acc, c) ==
    IF c # " "
    THEN [out |-> Append(acc.out, c), hyphen |-> c = "-"]
    ELSE [out |-> IF acc.hyphen \/ acc.out = <<>> THEN acc.out ELSE Append(acc.out, "-"),
          hyphen |-> TRUE]

\* The loop over the characters of s: what it has after each of them.
Scan(s) ==
    LET scan[i \in 0..Len(s)] ==
            IF i = 0 THEN [out |-> <<>>, hyphen |-> FALSE] ELSE Add(scan[i - 1], s[i])
    IN scan

\* Mutant of suggestRepoName: what the hyphens leave at the ends stays.
suggestRepoNameUntrimmed(s) == Scan(s)[Len(s)].out

suggestRepoName(s) == Strip(Scan(s)[Len(s)].out, {"-", "."})

isValidGithubName(s) ==
    /\ s # <<>> /\ s \notin {<<".">>, <<".", ".">>}
    /\ ToSet(s) \subseteq {"letter", "LETTER", "-", "."}

\* QString::compare, without regard to case.
SameName(s, t) ==
    LET Lower(u) == [i \in DOMAIN u |-> IF u[i] = "LETTER" THEN "letter" ELSE u[i]]
    IN Lower(s) = Lower(t)

Collides(s) == \E r \in Known : SameName(r, s)
-----------------------------------------------------------------------------
\* refreshPreview, for the text n and templates chosen or not.
WarningFor(n, chosen) ==
    IF Collides(n) THEN "collision"
    ELSE IF n # <<>> /\ ~isValidGithubName(n) THEN "invalid"
    ELSE IF chosen THEN "template" ELSE "none"

\* updateOkState, with the label visible or not.
OkFor(m, n, labelled, row) ==
    IF m = "CreateNew" THEN isValidGithubName(n) /\ ~labelled ELSE row # {}

UpdateOkState ==
    ok' = OkFor(mode', trimmed(name'), warning' # "none", current')

\* The constructor: nothing is visible yet when it decides about the button.
Init ==
    /\ folder \in UNION {[1..n -> Kinds] : n \in 0..MaxFolder}
    /\ mode = "CreateNew" /\ name = suggestRepoName(folder) /\ template = FALSE
    /\ warning = WarningFor(name, FALSE)
    /\ search = Known /\ current = {}
    /\ ok = OkFor("CreateNew", name, FALSE, {})
    /\ state = "open" /\ touched = FALSE

Touch == touched' = TRUE /\ folder' = <<>>

\* textChanged of nameEdit_, and a choice in one of the two combo boxes.
refreshPreview ==
    /\ warning' = WarningFor(trimmed(name'), template')
    /\ Touch /\ UNCHANGED <<mode, search, current, state>>
    /\ UpdateOkState

NameChanged ==
    /\ state = "open" /\ mode = "CreateNew"
    /\ name' \in Typed \ {name} /\ UNCHANGED template
    /\ refreshPreview

TemplateChanged ==
    /\ state = "open" /\ mode = "CreateNew"
    /\ template' = ~template /\ UNCHANGED name
    /\ refreshPreview

onModeChanged ==
    /\ state = "open"
    /\ mode' \in {"CreateNew", "LinkExisting"} \ {mode}
    /\ Touch /\ UNCHANGED <<name, template, warning, search, current, state>>
    /\ UpdateOkState

\* rebuildExistingList: the list is cleared.  Its selection goes while the row
\* is still current, and the row after that, of which nobody is told.
onSearchChanged ==
    /\ state = "open" /\ mode = "LinkExisting"
    /\ search' \in SUBSET Known \ {search}
    /\ current' = {}
    /\ UNCHANGED <<folder, mode, name, template, warning, ok, state, touched>>

onExistingSelectionChanged ==
    /\ state = "open" /\ mode = "LinkExisting"
    /\ current' \in {{r} : r \in search} \ {current}
    /\ UNCHANGED <<mode, name, warning>> /\ UpdateOkState
    /\ UNCHANGED <<folder, template, search, state, touched>>

\* Mutant of Acceptable: onAccept relies on the button.
AcceptableAlways == TRUE

\* What onAccept asks for itself.
Acceptable ==
    IF mode = "CreateNew" THEN isValidGithubName(trimmed(name)) ELSE current # {}

onAccept ==
    /\ state = "open" /\ ok /\ Acceptable
    /\ state' = "accepted"
    /\ UNCHANGED <<folder, mode, name, template, warning, search, current, ok, touched>>

reject ==
    /\ state = "open" /\ state' = "rejected"
    /\ UNCHANGED <<folder, mode, name, template, warning, search, current, ok, touched>>

Next ==
    \/ NameChanged \/ TemplateChanged \/ onModeChanged \/ onSearchChanged
    \/ onExistingSelectionChanged \/ onAccept \/ reject

Spec == Init /\ [][Next]_vars
-----------------------------------------------------------------------------
(***************************************************************************)
(* Properties.                                                             *)
(***************************************************************************)

(***************************************************************************)
(* What the dialog returns can be used: a name GitHub accepts and none of  *)
(* the account's repositories has, unless it is the suggestion, untouched, *)
(* or a repository that the list still shows (onAccept, updateOkState).    *)
(***************************************************************************)
AcceptedIsUsable ==
    state = "accepted" =>
        IF mode = "CreateNew"
        THEN /\ isValidGithubName(trimmed(name))
             /\ Collides(trimmed(name)) => ~touched
        ELSE current # {} /\ current \subseteq search

(***************************************************************************)
(* The suggestion for a folder named in ASCII is empty or a valid name,    *)
(* suggesting it again changes nothing, and it keeps what is allowed in    *)
(* its order: between the first and the last letter, the characters that   *)
(* may stay and one hyphen for each run of blanks that follows a letter or *)
(* a dot (suggestRepoName).                                                *)
(***************************************************************************)
SuggestionIsUsable ==
    LET suggested == suggestRepoName(folder)
        Letters   == {"letter", "foreign"}
        core      == {i \in DOMAIN folder : folder[i] \in Letters}
        Stays(i)  == folder[i] # " " \/ folder[i - 1] \in Letters \cup {"."}
        places    == {i \in Min(core)..Max(core) : Stays(i)}
        Hyphened(i) == IF folder[i] = " " THEN "-" ELSE folder[i]
    IN /\ suggestRepoName(suggested) = suggested
       /\ "foreign" \notin ToSet(folder) =>
              suggested = <<>> \/ isValidGithubName(suggested)
       /\ IF core = {} THEN suggested = <<>>
          ELSE /\ Len(suggested) = Cardinality(places)
               /\ \A i \in places :
                      suggested[Cardinality(places \cap 1..i)] = Hyphened(i)

(***************************************************************************)
(* A licence or a .gitignore can be had with a name that is free: the      *)
(* README offers it, and the label is to tell of what follows              *)
(* (updateOkState).                                                        *)
(***************************************************************************)
TemplateIsOffered ==
    /\ state = "open" /\ mode = "CreateNew" /\ template
    /\ isValidGithubName(trimmed(name)) /\ ~Collides(trimmed(name))
    => ok
=============================================================================
