---- MODULE MCRecordDirs ----
(* Instances of RecordDirs for TLC: two disks, the second added or taken away. *)
EXTENDS RecordDirs

MCConfigs == {<<>>, <<"a">>, <<"a", "b">>}
====
