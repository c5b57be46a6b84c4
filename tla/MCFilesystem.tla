---------------------------- MODULE MCFilesystem ----------------------------
(* Instances of Filesystem for TLC.                                        *)
EXTENDS Filesystem

MC_Names == {"a", "b"}
MC_Home == <<"a">>
MC_Initial == << << <<>>, DIR >>, << <<"a">>, DIR >> >>
MC_OneSector == {<<>>, <<1>>}
MC_TwoSectors == {<<1>>, <<2, 2>>}

\* A bound: what happens in RAM after a volume was given up is not followed.
StopAtFallback == volume /\ pc = "idle" => filesystem_persistent_backend

\* Bounds: power failures or disk faults, not both; after the one or the other
\* calls are made from "/" (after a restart also from HOME), where the current
\* directory refuses the fewest of them; one slot at a time has had content.
OneKindOfTrouble ==
    /\ faults = 0 \/ crashes = 0
    /\ crashes > 0 => StopAtFallback /\ current_directory \in {<<>>, HOME}
    /\ filesystem_storage_error /\ filesystem_persistent_backend
         => current_directory = <<>>
    /\ \E i \in Slots : \A j \in Slots \ {i} : sectors[j] = Blank
=============================================================================
