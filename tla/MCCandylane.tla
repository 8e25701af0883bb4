---------------------------- MODULE MCCandylane ----------------------------
(***************************************************************************)
(* Small machines for Candylane: a dotfile that exists before the pull, an *)
(* item with the same target and another source, one outside the home      *)
(* directory, a package, and scripts with and without an undo.             *)
(***************************************************************************)
EXTENDS CandylaneInvariant, TLC

P == INSTANCE Profile

bashrc  == [target |-> "bashrc", src |-> "box/bashrc"]
another == [target |-> "bashrc", src |-> "box/vimrc"]
hosts   == [target |-> "../hosts", src |-> "box/vimrc"]
setup   == [run |-> "setup", undo |-> TRUE]
greet   == [run |-> "greet", undo |-> FALSE]

Profile(doc) == P!BuildProfile(doc)

OneDotfile == {Profile([file |-> <<bashrc>>])}
Duplicates == {Profile([file |-> <<bashrc, another>>])}
Package    == {Profile([install |-> <<"git">>])}
Either     == {Profile([install |-> <<"git">>]), Profile([post_install |-> <<setup>>])}
Mixed      == {Profile([install |-> <<"git">>, post_install |-> <<setup>>]),
               Profile([file |-> <<bashrc, another>>, post_install |-> <<greet>>]),
               Profile([file |-> <<hosts>>])}

MCItems   == UNION {{p[i] : i \in DOMAIN p} : p \in Profiles}
MCTargets == {"bashrc", "../hosts", "git", "setup", "greet"}

MCOneFile         == [bashrc |-> "original"]
MCInitialFiles    == "bashrc" :> "original" @@ "../hosts" :> "new"
MCInitialSources  == "box/bashrc" :> "new" @@ "box/vimrc" :> "newer"
MCInitialPackages == [git |-> "absent"]
MCOneSource       == "box/bashrc" :> "new"
MCNoPackages      == [p \in {} |-> "absent"]
MCUnsafeTargets   == {"../hosts"}

MCContents == {"absent", "original", "new", "newer", "user's"}
MCVersions == {"absent", "1.0", "user's"}
MCValues == MCContents \cup MCVersions \cup {"null", "ran"}

MCProbeValues == [dotfile |-> MCContents, winget |-> MCVersions, script |-> {"null"}]
MCAfterValues == [dotfile |-> MCContents, winget |-> MCVersions, script |-> {"ran"}]

MCRecipes ==
    [do : {"delete", "noop", "run_undo", "one_way"}] \cup [do : {"restore"}, sha : MCContents]
    \cup [do : {"uninstall"}, wasPresent : BOOLEAN]
=============================================================================
