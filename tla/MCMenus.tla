------------------------------ MODULE MCMenus ------------------------------
(* One behaviour opens one or two of the entries; the name, the time and the *)
(* features of the settings are set in different ones. Games on a grid of    *)
(* four by four: a row of three, a block, a glider's corner, none.           *)
EXTENDS Menus

MCTours ==
  {{"settings", "name", "pairing", "reset"}, {"settings", "time"},
   {"settings", "features", "ota"}, {"draw", "settings", "reset"},
   {"info", "quiet"}, {"calibration", "info"}, {"life"},
   {"test", "top"}, {"3d", "comm", "quiet"}}
MCPresses == {{}, {"Up"}, {"Down"}, {"Fire"}, {"Up", "Down"}}
MCGames == {{5, 6, 7}, {5, 6, 9, 10}, {1, 6, 8, 9, 10}, {5}}
=============================================================================
