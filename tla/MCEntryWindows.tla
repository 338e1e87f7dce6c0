----------------------------- MODULE MCEntryWindows -----------------------------
(* Rings of two and four entries on two channels.  A launch may fill a ring of *)
(* two and one slot more.                                                      *)
EXTENDS EntryWindows

EntriesOfALaunch == 2 :> 3 @@ 4 :> 2

================================================================================
