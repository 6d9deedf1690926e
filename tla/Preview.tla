------------------------------- MODULE Preview ------------------------------
(***************************************************************************)
(* The tabs of RepositoryDetailWidget: the README, the files and the       *)
(* languages of the GitHub repository it shows, fetched over REST and      *)
(* cached by full name.                                                    *)
(*                                                                         *)
(* Answers come in any order, for repositories no longer shown too, and a  *)
(* request may fail.  What the tabs show of a repository is named by the   *)
(* repository; two equal requests in flight are not told apart, for they   *)
(* have the same answer.  The branches and the status of a local clone are *)
(* the subject of CloneView.                                               *)
(***************************************************************************)
CONSTANTS
    Repos,       \* repositories, by full name
    None,        \* no repository
    NoReadme,    \* repositories without a README
    EmptyReadme  \* repositories whose README is an empty file

\* Assumed by the modules that instantiate this one.  What a view says when it
\* shows no content is not a repository.
TabsAssumption ==
    /\ None \notin Repos
    /\ NoReadme \subseteq Repos /\ EmptyReadme \subseteq Repos
    /\ NoReadme \cap EmptyReadme = {}
    /\ Repos \cap {"select", "loading", "absent", "empty"} = {}

VARIABLES
    repo,      \* repo_, the repository shown
    readme,    \* the README tab: a hint, or the repository whose text it shows
    files,     \* the Files tab
    languages, \* the repository the languages bar was drawn for
    cache,     \* readmeCache_, contentsCache_, languagesCache_
    asked,     \* REST requests in flight
    lost       \* history: requests that failed and were not made again

tabs == <<readme, files, languages>>
vars == <<repo, tabs, cache, asked, lost>>

Part  == {"readme", "contents", "languages"}
Ask   == [part : Part, repo : Repos]

Init ==
    /\ repo = None /\ readme = "select" /\ files = "select" /\ languages = None
    /\ cache = {} /\ asked = {} /\ lost = {}
-----------------------------------------------------------------------------
(***************************************************************************)
(* Pieces of the widget.                                                   *)
(***************************************************************************)
Cached(part, r) == [part |-> part, repo |-> r] \in cache

\* setReadme with what the cache holds: an absent README is cached as an
\* empty one.
ReadmeFromCache(r) == IF r \in NoReadme \cup EmptyReadme THEN "empty" ELSE r

\* requestDetailForCurrent: what the cache lacks is requested.
Missing(r) == {a \in Ask : a.repo = r /\ a \notin cache}

\* Mutant of RequestDetail: a repository seen before is not asked for again.
RequestDetailOnce(r) ==
    /\ readme' = IF Cached("readme", r) THEN ReadmeFromCache(r) ELSE "loading"
    /\ files' = IF Cached("contents", r) THEN r ELSE "loading"
    /\ languages' = IF Cached("languages", r) THEN r ELSE languages
    /\ asked' = asked \cup (Missing(r) \ lost)
    /\ lost' = {}

RequestDetail(r) ==
    /\ readme' = IF Cached("readme", r) THEN ReadmeFromCache(r) ELSE "loading"
    /\ files' = IF Cached("contents", r) THEN r ELSE "loading"
    /\ languages' = IF Cached("languages", r) THEN r ELSE languages
    /\ asked' = asked \cup Missing(r)
    /\ lost' = lost \ Missing(r)
-----------------------------------------------------------------------------
(***************************************************************************)
(* What makes the panel show a repository, or none.                        *)
(***************************************************************************)

\* showRepository: a row is selected, or selected again when the rows are
\* rebuilt, or its repository gets a local path.
showRepository(r) ==
    /\ repo' = r
    /\ RequestDetail(r)
    /\ UNCHANGED cache

SignOut ==
    /\ repo # None
    /\ repo' = None
    /\ readme' = "select" /\ files' = "select" /\ languages' = None
    /\ UNCHANGED <<cache, asked, lost>>
-----------------------------------------------------------------------------
(***************************************************************************)
(* Answers of the REST client.  Every answer is cached; it is shown when   *)
(* it is about the repository shown.                                       *)
(***************************************************************************)
Answered(part, r) ==
    LET a == [part |-> part, repo |-> r]
    IN  a \in asked /\ asked' = asked \ {a} /\ cache' = cache \cup {a}

setReadme(r) ==
    /\ r \notin NoReadme /\ Answered("readme", r)
    /\ readme' = IF repo = r THEN ReadmeFromCache(r) ELSE readme
    /\ UNCHANGED <<repo, files, languages, lost>>

setReadmeUnavailable(r) ==
    /\ r \in NoReadme /\ Answered("readme", r)
    /\ readme' = IF repo = r THEN "absent" ELSE readme
    /\ UNCHANGED <<repo, files, languages, lost>>

setRemoteContents(r) ==
    /\ Answered("contents", r)
    /\ files' = IF repo = r THEN r ELSE files
    /\ UNCHANGED <<repo, readme, languages, lost>>

setLanguages(r) ==
    /\ Answered("languages", r)
    /\ languages' = IF repo = r THEN r ELSE languages
    /\ UNCHANGED <<repo, readme, files, lost>>

\* The status bar reports the failure; the panel is not told.
RequestFails(a) ==
    /\ a \in asked /\ asked' = asked \ {a}
    /\ lost' = lost \cup {a}
    /\ UNCHANGED <<repo, tabs, cache>>
-----------------------------------------------------------------------------
User == SignOut \/ \E r \in Repos : showRepository(r)

Network ==
    \/ \E r \in Repos : \/ setReadme(r) \/ setReadmeUnavailable(r)
                        \/ setRemoteContents(r) \/ setLanguages(r)
    \/ \E a \in asked : RequestFails(a)

Next == User \/ Network

Spec == Init /\ [][Next]_vars
-----------------------------------------------------------------------------
\* Every variable stays in its range.
TypeOK ==
    /\ repo \in Repos \cup {None}
    /\ readme \in Repos \cup {"select", "loading", "absent", "empty"}
    /\ files \in Repos \cup {"select", "loading"}
    /\ languages \in Repos \cup {None}
    /\ cache \subseteq Ask /\ asked \subseteq Ask /\ lost \subseteq Ask

(***************************************************************************)
(* Whatever the order of selections and answers, the README and the files  *)
(* on screen are those of the repository shown, and an empty panel shows   *)
(* none (setReadme, setRemoteContents, clearDetailTabs).                   *)
(***************************************************************************)
PreviewOfShown ==
    /\ readme \in Repos => readme = repo
    /\ files \in Repos => files = repo
    /\ repo = None => readme = "select" /\ files = "select" /\ languages = None

Awaited(part) == \E a \in asked \cup lost : a.part = part /\ a.repo = repo

(***************************************************************************)
(* "Loading..." is only shown while an answer is awaited, unless the       *)
(* request failed: no order of clicks leaves the tab waiting for nothing   *)
(* (requestDetailForCurrent).                                              *)
(***************************************************************************)
LoadingIsAwaited ==
    /\ readme = "loading" => Awaited("readme")
    /\ files = "loading" => Awaited("contents")
=============================================================================
