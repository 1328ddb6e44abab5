---------------------------- MODULE MCTokenStore ----------------------------
(***************************************************************************)
(* Model checking of what is on disk and must survive a crash: the session *)
(* in its records, TokenStore, and the database file with its backups,     *)
(* Backup.  They share no state and are checked side by side: part, chosen *)
(* at the start, says which of them moves, and every property is about one *)
(* of them.  Tasks are interchangeable, and so are the sessions saved      *)
(* since the old one.                                                      *)
(***************************************************************************)
EXTENDS TokenStore, Backup, TLC

VARIABLE part

all == <<part, vars, bvars>>

StoreMoves == part = "store" /\ UNCHANGED <<part, bvars>>
FilesMove == part = "files" /\ UNCHANGED <<part, vars>>

DiskInit ==
    /\ part \in {"store", "files"} /\ Init /\ BackupInit
    /\ part = "files" => record = NoSession /\ legacy = {}
DiskNext ==
    \/ StoreMoves /\ Next
    \/ FilesMove /\ BackupNext
DiskSpec == DiskInit /\ [][DiskNext]_all

Symmetry == Permutations(Tasks) \cup Permutations(Sessions \ {Old})

=============================================================================
