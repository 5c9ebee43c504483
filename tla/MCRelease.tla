----------------------------- MODULE MCRelease -----------------------------
(***************************************************************************)
(* Two plugins, each with a tag the catalog names, and three tags to be    *)
(* released: two of one plugin, which race for its row, and one of the     *)
(* other, which races for the file.  Any of the five may be run again.     *)
(***************************************************************************)
EXTENDS Release, TLC

CONSTANTS rust, go, rust0, rust1, rust2, go0, go1

PluginOfTags == rust0 :> rust @@ rust1 :> rust @@ rust2 :> rust @@ go0 :> go @@ go1 :> go
FirstTags == rust :> rust0 @@ go :> go0
=============================================================================
