---------------------------- MODULE MCToolRouter ----------------------------
(* A conversation of two messages; one message for each hint, and the          *)
(* combinations that two handlers compete for.                                 *)
EXTENDS ToolRouter, TLC

MCMessages ==
    {{"tomorrow"}, {"am"}, {"yes"}, {"cancel"}, {"remind"}, {"add", "event", "tomorrow"},
     {"show", "reminder", "event"}, {"cleanup", "event"},
     {"and", "reminder", "event", "add", "delete"}, {"weather"}, {"repo", "and"},
     {"research"}, {"again"}, {"that", "delete"}, {"also", "tomorrow"}, {"only"},
     {"meta"}, {"setup"}, {"tool", "repo"}, {"tool", "reminder"},
     {"tool", "event"}}

MCPrompts ==
    {{"cleanup", "reminder"}, {"event", "tomorrow"}, {"weather"}, {"brief"}, {"repo"}, {"research"}}

TitlesAlike == Permutations(Titles)

=============================================================================
