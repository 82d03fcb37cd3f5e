---------------------------- MODULE MCNyxDriver ----------------------------
(* Three files: the entry App, a function component Panel and a class      *)
(* component Row.  No text invokes, outside a slot, a component of an       *)
(* earlier file, so that renders end.                                       *)
EXTENDS NyxDriver

Plain == [compiles |-> TRUE, block |-> TRUE, declares |-> TRUE, runs |-> TRUE,
          bare |-> FALSE, children |-> <<>>, slot |-> {}, imports |-> {},
          signals |-> <<>>, ticks |-> FALSE]
Count(kind) == [n \in {"count"} |-> kind]

AllTexts ==
    [app1 |-> [Plain EXCEPT !.children = <<"Row", "Row">>, !.imports = {"Row"}],
     app2 |-> [Plain EXCEPT !.children = <<"Panel">>, !.slot = {"Row"},
                            !.imports = {"Row", "Panel"}],
     appBare |-> [Plain EXCEPT !.children = <<"Panel">>, !.bare = TRUE, !.imports = {"Panel"},
                               !.signals = Count("int")],
     appThrows |-> [Plain EXCEPT !.runs = FALSE],
     panel1 |-> [Plain EXCEPT !.children = <<"Row">>, !.imports = {"Row"},
                              !.signals = Count("int"), !.ticks = TRUE],
     panelThrows |-> [Plain EXCEPT !.runs = FALSE, !.signals = Count("int")],
     panelRenamed |-> [Plain EXCEPT !.declares = FALSE, !.runs = FALSE],
     panelNoImport |-> [Plain EXCEPT !.children = <<"Row">>, !.ticks = TRUE,
                                     !.signals = [n \in {"count", "open"} |-> "int"]],
     row1 |-> [Plain EXCEPT !.signals = Count("int"), !.ticks = TRUE],
     row2 |-> [Plain EXCEPT !.signals = [count |-> "string", open |-> "int"]],
     rowSyntax |-> [Plain EXCEPT !.compiles = FALSE],
     rowNoBlock |-> [Plain EXCEPT !.block = FALSE, !.signals = Count("int")]]

ThreeFiles == {"App", "Panel", "Row"}
ReloadVersions ==
    [App |-> {"app1", "app2", "appBare"}, Panel |-> {"panel1", "panelThrows", "panelRenamed", "panelNoImport"},
     Row |-> {"row1", "row2", "rowSyntax", "rowNoBlock"}]
ReloadDisk == [App |-> "app1", Panel |-> "panel1", Row |-> "row1"]
RowClass == {"Row"}

FailVersions == [App |-> {"app2", "appThrows"}, Panel |-> {"panel1"}, Row |-> {"row1"}]
LeftVersions == [App |-> {"app1", "app2"}, Panel |-> {"panel1"}, Row |-> {"row1"}]
LeftDisk == [App |-> "app1", Panel |-> "panel1", Row |-> "row1"]

FailDisk == [App |-> "appThrows", Panel |-> "panel1", Row |-> "row1"]
=============================================================================
