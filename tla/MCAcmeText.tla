---------------------------- MODULE MCAcmeText ----------------------------
EXTENDS AcmeText, TLC

(* the File as textload leaves it: a pair of brackets *)
MCInitFiles == {<<"(", ")">>}

(* writes with backspaces: erasing what they bring, erasing before q0, *)
(* and a backspace that finds nothing before it                          *)
MCBsInputs == {<<"a", BS>>, <<BS, "a">>, <<"a", BS, BS, "b">>}

(* every File of up to five runes of brackets and a letter *)
MCClickWords == UNION {[1 .. n -> {"(", ")", "a"}] : n \in 0 .. 5}

(* cq0 is read only while the cache holds runes (textreadc, texttype),  *)
(* and nothing happens after error(): states that differ only there     *)
(* behave alike                                                          *)
MCView ==
    IF err # None THEN err
    ELSE <<file, focus, [u \in Texts |-> IF txt[u].cache = <<>> THEN [txt[u] EXCEPT !.cq0 = 0]
                                         ELSE txt[u]]>>
=============================================================================
