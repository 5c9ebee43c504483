----------------------------- MODULE MCLanguages ----------------------------
(* Instances of Languages for TLC. *)
EXTENDS Languages

JavaOf == INSTANCE JavaTrees
KotlinOf == INSTANCE KotlinTrees
CSharpOf == INSTANCE CSharpTrees
In(lang, trees) == {[lang |-> lang, files |-> t] : t \in trees}
AllProjects == In("java", JavaOf!Trees) \cup In("kotlin", KotlinOf!Trees) \cup In("csharp", CSharpOf!Trees)

Capitals == {"Port", "Host", "Fast", "Slow", "Config", "Base", "Mid", "User", "Inner", "Other", "Tool", "Frame",
             "Util", "Missing", "System", "String", "List", "Runnable", "Entity", "Companion", "Home", "Pair", "Ext"}
Vars == {"{id}", ":id"}
Lang == {"String", "Runnable", "List"}
Decap == [Fast |-> "fast", Slow |-> "slow", Host |-> "host"]
Interfaces == {"IPort", "ILike", "IFar"}
WithSuffix == [Mark |-> "MarkAttribute"]
Members == "_port" :> "port" @@ "_all" :> "all" @@ "Port" :> "port"
Controls == [OrdersController |-> "Orders"]
=============================================================================
