--------------------------- MODULE MC_AlarmNotices --------------------------
(* An administrator whose chat is a subscriber too, a superadmin who asked  *)
(* for every alert, a group chat, and a critical alarm that comes twice.    *)
EXTENDS AlarmNotices
CONSTANTS ann, root, chat, high
RoleValue     == [u \in Users |-> IF u = ann THEN "admin" ELSE "superadmin"]
LevelValue    == [u \in Users |-> "warning"]
AccountValue  == [s \in Subscribers |-> IF s = chat THEN ann ELSE NoUser]
KeyValue      == [r \in Rows |-> high]
SeverityValue == [k \in Keys |-> "critical"]
=============================================================================
