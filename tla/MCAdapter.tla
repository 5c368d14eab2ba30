------------------------------ MODULE MCAdapter ------------------------------
(***************************************************************************)
(* WaylandAdapter with one character key, a navigation key, two modifiers, *)
(* and three glyphs: one of the user's keys, one that needs the dance, and *)
(* one outside the synthetic keymap.                                       *)
(***************************************************************************)
EXTENDS WaylandAdapter

MCGlyphs == {[key |-> "a", mods |-> {}], [key |-> "F13", mods |-> {"Shift"}], None}

Compositor2(source, echo) == [protocol |-> "ImV2", source |-> source, echo |-> echo]
Compositor1(source) == [protocol |-> "ImV1", source |-> source, echo |-> "none"]

MCProfiles ==
  {Compositor2("wlr", "each"), Compositor2("kde", "none"), Compositor1("kde"), Compositor1("none")}

Budget(keys, inputs, windows, others) ==
  [kind \in BudgetKinds |-> CASE kind = "keys" -> keys [] kind = "inputs" -> inputs
                              [] kind = "windows" -> windows [] kind = "others" -> others]

(* Typing; frames; windows; synthetic sessions; a bit of everything.       *)
MCBudgets ==
  {Budget(4, 1, 0, 1), Budget(2, 4, 0, 0), Budget(0, 2, 4, 0), Budget(3, 0, 2, 0), Budget(1, 1, 2, 1)}

=============================================================================
