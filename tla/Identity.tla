------------------------------ MODULE Identity ------------------------------
(***************************************************************************)
(* Identity::generate and load of candylane-crypto on ~/.candylane/        *)
(* identity.key, as built for Unix.  fs::write makes or empties the file   *)
(* and then writes it, so a reader or a crash can come between; the mode   *)
(* of a file that exists is kept.  On Windows the two mode steps do        *)
(* nothing and DPAPI seals the bytes, which changes no step here.          *)
(***************************************************************************)
CONSTANTS
    Key,        \* key pairs
    NoFile,     \* no identity.key
    Empty       \* a file with no key in it

VARIABLES
    content,    \* what identity.key holds
    ownerOnly,  \* its mode is 0600
    signing     \* the key pair each process has generated, or Empty

fileVars == <<content, ownerOnly>>

Exists == content # NoFile

\* A key pair like no other.
Generate(p) ==
    /\ \E k \in Key :
          /\ k # content /\ \A q \in DOMAIN signing : signing[q] # k
          /\ signing' = [signing EXCEPT ![p] = k]
    /\ UNCHANGED fileVars

Create(p) ==
    /\ content' = Empty
    /\ ownerOnly' = (ownerOnly /\ Exists)
    /\ UNCHANGED signing

Write(p) ==
    /\ content' = signing[p]
    /\ UNCHANGED <<ownerOnly, signing>>

EnforceOwnerOnly ==
    /\ ownerOnly' = TRUE
    /\ UNCHANGED <<content, signing>>

AssertOwnerOnly == Exists /\ ownerOnly
=============================================================================
