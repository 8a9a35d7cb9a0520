------------------------------ MODULE MCScreens ------------------------------
(* A small instance of Screens. *)
EXTENDS Screens, TLC

MCCommands == 0 :> "home" @@ 1 :> "stats"
MCLimit == [narrow \in BOOLEAN |-> 3]

Tour(pages, views, parts, modules, ids, sends) ==
  [pages |-> pages, views |-> views, parts |-> parts, imports |-> modules, ids |-> ids,
   sends |-> sends]

MCTours == {
  Tour({"home", "stats", "discover", "settings", "login"}, BOOLEAN, {"router"}, 2, {1}, 0),
  Tour({"home", "nowhere"}, {FALSE}, {"overlays"}, 1, {1}, 0),
  Tour({"import", "stats"}, {FALSE}, {"wizard"}, 1, {1}, 0),
  Tour({"import", "stats"}, {TRUE}, {"wizard"}, 1, {1}, 0),
  Tour({"home"}, {FALSE}, {"desk", "options"}, 1, {1}, 2),
  Tour({"home"}, {FALSE}, {"desk", "options"}, 1, {1, 2}, 1),
  Tour({"home"}, {FALSE}, {"desk", "pictures"}, 1, {1}, 2),
  Tour({"question", "stats"}, {TRUE}, {"phone", "options"}, 1, {1}, 2),
  Tour({"question", "stats"}, {TRUE}, {"phone", "pictures"}, 1, {1}, 2),
  Tour({"home"}, {FALSE}, {"lists"}, 1, {1}, 0),
  Tour({"home", "stats"}, {TRUE}, {"lists"}, 1, {1}, 0),
  Tour({"home"}, {FALSE}, {"lists", "settings"}, 1, {1}, 0),
  Tour({"edit", "stats"}, {FALSE}, {"settings"}, 1, {1}, 0),
  Tour({"edit", "stats"}, {TRUE}, {"settings"}, 1, {1}, 0),
  Tour({"requests"}, {FALSE}, {"requests"}, 1, {1}, 0),
  Tour({"requests", "nowhere"}, {TRUE}, {"requests"}, 1, {1}, 0),
  Tour({"home", "stats"}, {FALSE}, {"people"}, 1, {1}, 0),
  Tour({"collection", "stats"}, BOOLEAN, {"people"}, 1, {1}, 0)}
=============================================================================
