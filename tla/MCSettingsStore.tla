--------------------------- MODULE MCSettingsStore --------------------------
(* SettingsStore for TLC: two handlers at once, each asked anything. *)
EXTENDS SettingsStore

Patches == {[op |-> "patch", field |-> f, value |-> v] : f \in Fields, v \in BOOLEAN}
Changes ==
  {[op |-> o, id |-> i] : o \in {"select", "delete"}, i \in Ids}
  \cup {[op |-> "save", id |-> i, select |-> s] : i \in Ids \cup {None}, s \in BOOLEAN}

Everything  == Handlers \X (Patches \cup Changes)
OnlyPatches == Handlers \X Patches
=============================================================================
