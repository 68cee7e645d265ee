---------------------------- MODULE MCKeyRouting ----------------------------
(* An editor with a menu and its submenu, and the window of another client. *)
EXTENDS KeyRouting

CONSTANTS alt, tab, editor, viewer, menu, sub, one, two

MenuTree == [p \in {menu, sub} |-> IF p = menu THEN editor ELSE menu]
Owners == [s \in {editor, viewer, menu, sub} |-> IF s = viewer THEN two ELSE one]
=============================================================================
