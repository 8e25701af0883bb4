------------------------------ MODULE Profile ------------------------------
(***************************************************************************)
(* build_profile of profile.rs: the items of a profile document, in the    *)
(* order in which a pull takes them.  A document is a record with some of  *)
(* the tables install, file and post_install; TOML itself is left out, and *)
(* a document that does not parse never reaches the engine.                *)
(***************************************************************************)
EXTENDS Sequences

\* A table that is not there counts as empty.
Table(doc, key) == IF key \in DOMAIN doc THEN doc[key] ELSE <<>>

Winget(table)  == [i \in DOMAIN table |-> [handler |-> "winget", target |-> table[i]]]

Dotfile(table) ==
    [i \in DOMAIN table |-> [handler |-> "dotfile", target |-> table[i].target, src |-> table[i].src]]

Script(table)  ==
    [i \in DOMAIN table |-> [handler |-> "script", target |-> table[i].run, undo |-> table[i].undo]]

BuildProfile(doc) ==
    Winget(Table(doc, "install")) \o Dotfile(Table(doc, "file")) \o Script(Table(doc, "post_install"))
=============================================================================
