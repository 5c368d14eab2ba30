------------------------------ MODULE TextField ------------------------------
(***************************************************************************)
(* The application on the other side of a transport, as the daemon uses    *)
(* it: a text field that executes forwarded keys, deletes and committed    *)
(* texts, and the text that the user means to see in it.  The field is a   *)
(* surrounding-text report of itself: text, cursor and anchor.             *)
(***************************************************************************)
EXTENDS Composer

FieldWith(text) == [text |-> text, cursor |-> Len(text), anchor |-> Len(text)]

(* Text replaces the selection, or goes in at the cursor.                  *)
Insert(f, text) ==
  LET from   == Lesser(f.cursor, f.anchor)
      to     == f.cursor + f.anchor - from
      cursor == from + Len(text)
  IN  [text |-> text_before_cursor(f.text, from) \o text \o TextAfter(f.text, to),
       cursor |-> cursor, anchor |-> cursor]

(* Delete the n characters before the cursor, with any selection.          *)
DeleteChars(f, n) ==
  LET from == Monus(f.cursor, n)
  IN  [text |-> text_before_cursor(f.text, from) \o TextAfter(f.text, f.cursor),
       cursor |-> from, anchor |-> from]

(* The least number of characters before the cursor that hold n bytes.     *)
CharsOfBytes(f, n) ==
  LET before == text_before_cursor(f.text, f.cursor)
      enough == {k \in 0 .. Len(before) : ByteLen(TextAfter(before, Len(before) - k)) >= n}
  IN  IF enough = {} THEN Len(before) ELSE Min(enough)

(* A request that is not a delete_surrounding_text.                        *)
TakeKey(f, r) ==
  CASE r.op = "key"       -> Insert(f, <<r.ch>>)
    [] r.op = "text"      -> Insert(f, r.text)
    [] r.op = "backspace" -> IF f.cursor # f.anchor THEN Insert(f, <<>>) ELSE DeleteChars(f, 1)
    [] r.op = "move"      -> [f EXCEPT !.cursor = Monus(f.cursor, 1), !.anchor = Monus(f.cursor, 1)]
    [] OTHER              -> f

(* What the user should see: `text' and `engine' follow an engine that     *)
(* gets every key and an application that applies every answer at once.    *)
IdealKey(h, ch) ==
  LET r == VnKey(h.engine, ch)
  IN  [h EXCEPT !.engine = r.engine,
                !.text = IF r.consumed THEN DropLast(@, r.backspaces) \o r.commit
                                       ELSE Append(@, ch)]

(* g is f with nothing changed but the word before f's cursor.             *)
SameOutsideWord(f, g) ==
  LET before == text_before_cursor(f.text, f.cursor)
      outer  == Len(before) - Len(current_word(before))
  IN  /\ SubSeq(g.text, 1, outer) = SubSeq(before, 1, outer)
      /\ g.cursor >= outer
      /\ TextAfter(g.text, g.cursor) = TextAfter(f.text, f.cursor)

=============================================================================
