------------------------------- MODULE Winget -------------------------------
(***************************************************************************)
(* WingetHandler (handlers/winget.rs).  A probe is the installed version,  *)
(* or NotInstalled.  winget is a process of its own, which the handler     *)
(* waits for without a time limit and which nothing ties to the engine:    *)
(* when the engine dies, it may go on.  Its exit code is not looked at, so *)
(* an install and an uninstall either change the machine or do not, and    *)
(* the handler learns which from the probe it makes afterwards.            *)
(***************************************************************************)
LOCAL INSTANCE Naturals
LOCAL INSTANCE Sequences
FX == INSTANCE FiniteSetsExt

CONSTANTS
    NotInstalled,
    NoVersion,      \* what a row without a version shows
    Offers          \* the versions winget may install

VARIABLES
    packages,       \* version of every package, or NotInstalled
    wingets,        \* processes: [pkg, way, owner]
    strays,         \* history: packages a process nobody waits for changed
    call            \* the handler call in progress

-----------------------------------------------------------------------------
(* probe *)

\* What winget says itself.
Header  == <<"Name", "Id", "Version", "Source">>
Nothing == <<"No", "package", "found">>

\* No package has one of its words for an Id.
Words == {"Name", "Id", "Version", "Source", "No", "package", "found", "A"}

\* WingetCli::list for the package p: lines of tokens, the header, and then the one
\* row, or the message that there is none.  The spinner's glyphs before a line are
\* left out, as strip_spinner does: none of them is an Id.
List(p) ==
    << Header,
       IF packages[p] = NotInstalled THEN Nothing
       ELSE <<"A", "Name", p, packages[p], "winget">> >>

\* The row is the first line with the Id among its tokens, the version the token
\* after it.
ParseList(lines, p) ==
    LET Ids(line) == {k \in DOMAIN line : line[k] = p}
        rows == {i \in DOMAIN lines : Ids(lines[i]) # {}}
        row  == lines[FX!Min(rows)]
        id   == FX!Min(Ids(row))
    IN  IF rows = {} THEN NotInstalled
        ELSE IF id = Len(row) THEN NoVersion
        ELSE row[id + 1]

Probe(p) == ParseList(List(p), p)

Installed(version) == version # NotInstalled

Uninstall(before) == [do |-> "uninstall", wasPresent |-> Installed(before)]

-----------------------------------------------------------------------------
(* The process *)

Owned == {w \in wingets : w.owner = "engine"}

Spawn(p, way) ==
    /\ call.step = "start"
    /\ wingets' = wingets \cup {[pkg |-> p, way |-> way, owner |-> "engine"]}
    /\ call' = [call EXCEPT !.step = "spawned"]
    /\ UNCHANGED <<packages, strays>>

\* What is there once winget did its work.  An install of a package that is there may
\* change its version.
Outcomes(way) == IF way = "install" THEN Offers ELSE {NotInstalled}

\* A process ends, its work done or not, whoever still waits for it.  Crashes may have
\* left several alike that nobody waits for, so such a record may stay.  told: somebody
\* will ask what a process nobody waits for has done.
Exit(w, told) ==
    /\ packages' \in {packages} \cup {[packages EXCEPT ![w.pkg] = v] : v \in Outcomes(w.way)}
    /\ wingets' = wingets \ {w} \/ (w.owner = "nobody" /\ wingets' = wingets)
    /\ strays' = IF w.owner = "engine" \/ told \/ packages' = packages THEN strays
                 ELSE strays \cup {w.pkg}
    /\ UNCHANGED call

\* output() came back: the process is over.
Exited == call.step = "spawned" /\ Owned = {}

\* The engine dies.  What it waited for, and what it left before, lives on or is gone.
Orphan ==
    /\ wingets' \in SUBSET {[w EXCEPT !.owner = "nobody"] : w \in wingets}
    /\ UNCHANGED <<packages, strays>>

-----------------------------------------------------------------------------
(* apply *)

Install(p) == Spawn(p, "install")

\* winget came back: whatever its exit code says, it is done.
SlipConfirmed(p) == Exited

\* The probe after the install shows the package.
Confirmed(p) == Exited /\ Installed(Probe(p))

-----------------------------------------------------------------------------
(* undo *)

\* Nothing to remove: the user had it before, or it is gone.
NothingToRemove(p, undo) ==
    call.step = "start" /\ (undo.wasPresent \/ ~Installed(Probe(p)))

Remove(p, undo) ==
    ~undo.wasPresent /\ Installed(Probe(p)) /\ Spawn(p, "uninstall")

Removed(p) == Exited /\ ~Installed(Probe(p))
=============================================================================
