----------------------------- MODULE MCJobDesk -----------------------------
(* Model checking of ArtworkGate and of JobFiles.  The two share nothing: an *)
(* instance is of the one or of the other, and `desk` says which.            *)
EXTENDS ArtworkGate, JobFiles, TLC

VARIABLE desk

deskVars == <<vars, filesVars, desk>>

AnyCaller == Permutations(Requests) \cup Permutations(Callers)

DeskInit ==
    /\ Init /\ FilesInit
    /\ desk \in {"artwork", "files"}
    /\ desk = "artwork" => files = <<>> /\ ~reminded
    /\ desk = "files"   => ~file

DeskNext ==
    \/ desk = "artwork" /\ Next      /\ UNCHANGED <<filesVars, desk>>
    \/ desk = "files"   /\ FilesNext /\ UNCHANGED <<vars, desk>>

DeskSpec == DeskInit /\ [][DeskNext]_deskVars

\* Metadata, files and requests keep their types.
DeskTypeOK == TypeOK /\ FilesTypeOK
=============================================================================
