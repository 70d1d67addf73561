------------------------------ MODULE AcmeText ------------------------------
(***************************************************************************)
(* acme's Text (src/sys/src/cmd/acme/text.c): the texts of a window and of *)
(* its zeroxes, which show one File.  Each text has its selection q0/q1,   *)
(* the origin org of its frame, the frame's runes, and its typing cache:   *)
(* runes typed but not yet in the File, which texttype puts in the cache   *)
(* of every text of the File, at cq0.                                      *)
(*                                                                         *)
(* Abstractions.  A rune is a one-letter string ("nl" is the newline).     *)
(* The frame (libframe) holds Cap runes, one per cell: frinsert inserts    *)
(* and drops what falls off the end, frdelete removes; a frame is "last    *)
(* line full" when it holds Cap runes.  Drawing, scroll bars, p0/p1 and    *)
(* the window events are left out.  Calls into files outside this         *)
(* repository are modelled by their effect on this state: wincommit (the  *)
(* commit of a window) as textcommit(t, TRUE) followed by textcommit(u,   *)
(* FALSE) for the other texts, cut as textdelete(t, q0, q1, TRUE) and     *)
(* textsetselect(t, q0, q0), and acme's error() as the end of acme.       *)
(***************************************************************************)
EXTENDS Integers, Sequences, FiniteSets

CONSTANTS
    NText,      \* number of texts showing the File (a body and its zeroxes)
    Cap,        \* runes a frame holds
    MaxLines,   \* t->maxlines
    MaxLen,     \* bound on the length of the File and of its texts' views
    Typed,      \* ordinary runes the keyboard sends
    Keys,       \* the special keys the keyboard sends
    InitFiles,  \* contents textload can have put in the File
    AutoIndent, \* w->autoindent
    BsInputs,   \* runes, with backspaces, a write hands textbsinsert
    ClickWords, \* Files on which textdoubleclick is checked against RefClick
    None,       \* ~0 in eq0, and "no error"
    Beyond      \* what bufread finds past the end of the buffer

ASSUME NText \in Nat \ {0} /\ Cap \in Nat \ {0} /\ MaxLen \in Nat
ASSUME \A w \in ClickWords : w \in Seq({"(", ")", "a"})

Texts == 1 .. NText
NL == "nl"
Alnum == {"a", "b"}                     \* the runes isalnum accepts
Left == <<"(", "nl", "'">>              \* left1, left2, left3 (one of each)
Right == <<")", "nl", "'">>             \* right1, right2, right3
Blank == {" ", "tab"}

VARIABLES
    file,   \* t->file's buffer: the committed runes
    txt,    \* txt[t]: q0, q1, org, fr (the frame), cq0, cache, eq0
    err,    \* None, or the message of the error() that ended acme
    focus   \* mousetext: the text under the mouse, which gets the keys

vars == <<file, txt, err, focus>>

TextRec == [q0 : Nat, q1 : Nat, org : Nat, fr : Seq(STRING), cq0 : Nat,
            cache : Seq(STRING), eq0 : Nat \cup {None}]

TypeOK ==
    /\ file \in Seq(STRING)
    /\ txt \in [Texts -> TextRec]
    /\ err \in {None} \cup STRING
    /\ focus \in Texts

Mn(a, b) == IF a < b THEN a ELSE b

(* the runes of s with r put in at position p, and with [p0, p1) removed *)
Ins(s, p, r) == SubSeq(s, 1, p) \o r \o SubSeq(s, p + 1, Len(s))
Del(s, p0, p1) == SubSeq(s, 1, p0) \o SubSeq(s, p1 + 1, Len(s))

(* what text x shows: the File with x's cache at cq0 *)
ViewOf(f, x) == IF x.cache = <<>> THEN f ELSE Ins(f, x.cq0, x.cache)
View(t) == ViewOf(file, txt[t])

(***************************************************************************)
(* The operators below map a state s = [file, txt, err, nofill] to the     *)
(* state the code leaves; nofill is the set of texts whose u->nofill is    *)
(* set, which is empty between two calls.  Once err is set acme has       *)
(* ended and nothing changes.                                              *)
(***************************************************************************)
Fail(s, msg) == IF s.err = None THEN [s EXCEPT !.err = msg] ELSE s

(* textreadc: from the cache when q is in it, else from the File *)
textreadc(s, t, q) ==
    LET x == s.txt[t]
    IN IF x.cq0 <= q /\ q < x.cq0 + Len(x.cache) THEN x.cache[q - x.cq0 + 1]
       ELSE IF q < Len(s.file) THEN s.file[q + 1] ELSE Beyond

frinsert(fr, p, r) == SubSeq(Ins(fr, p, r), 1, Mn(Cap, Len(fr) + Len(r)))
frdelete(fr, p0, p1) == Del(fr, p0, p1)

(* fileinsert and filedelete: bufinsert and bufdelete check their range *)
fileinsert(s, q0, r) ==
    IF q0 > Len(s.file) THEN Fail(s, "bufinsert")
    ELSE [s EXCEPT !.file = Ins(@, q0, r)]
filedelete(s, q0, q1) ==
    IF q1 > Len(s.file) THEN Fail(s, "bufdelete")
    ELSE [s EXCEPT !.file = Del(@, q0, q1)]

(* textcommit(t, tofile): the cache goes into the File or is dropped *)
textcommit(s, t, tofile) ==
    LET x == s.txt[t]
        s1 == IF tofile THEN fileinsert(s, x.cq0, x.cache) ELSE s
    IN IF s.err # None \/ x.cache = <<>> THEN s
       ELSE [s1 EXCEPT !.txt[t].cache = <<>>]

(* typecommit(t) = wincommit(t->w, t): t's cache into the File, the      *)
(* caches of the other texts of the File dropped                          *)
(* mutant: wincommit leaves the other texts' caches in place *)
DropOthersKeep(s1, t) == s1

DropOthers(s1, t) ==
    IF s1.err # None THEN s1
    ELSE [s1 EXCEPT !.txt = [u \in Texts |->
              IF u = t THEN @[u] ELSE [@[u] EXCEPT !.cache = <<>>]]]

typecommit(s, t) == DropOthers(textcommit(s, t, TRUE), t)

(* textfill: commit what is cached, then read the File after the frame   *)
(* into the frame until its last line is full                             *)
(* the read loop, on s1, the state after the commit *)
FillFrom(s1, t) ==
    LET y == s1.txt[t]
        n == Len(s1.file) - (y.org + Len(y.fr))
    IN IF s1.err # None \/ n = 0 THEN s1
       ELSE IF n < 0 THEN Fail(s1, "bufread")
       ELSE [s1 EXCEPT !.txt[t].fr =
                 frinsert(y.fr, Len(y.fr),
                          SubSeq(s1.file, y.org + Len(y.fr) + 1, Len(s1.file)))]

textfill(s, t) ==
    IF s.err # None \/ Len(s.txt[t].fr) = Cap \/ t \in s.nofill THEN s
    ELSE FillFrom(IF s.txt[t].cache # <<>> THEN typecommit(s, t) ELSE s, t)

(***************************************************************************)
(* textinsert(t, q0, r, n, tofile), on t alone: the selection and the     *)
(* origin move right when the insertion is before them, and the frame     *)
(* takes the runes when q0 falls inside it                                *)
(***************************************************************************)
InsertLocal(x, q0, r) ==
    [x EXCEPT !.q1 = IF q0 < @ THEN @ + Len(r) ELSE @,
              !.q0 = IF q0 < @ THEN @ + Len(r) ELSE @,
              !.org = IF q0 < @ THEN @ + Len(r) ELSE @,
              !.fr = IF q0 < x.org THEN @
                     ELSE IF q0 <= x.org + Len(@) THEN frinsert(@, q0 - x.org, r)
                     ELSE @]

(* textinsert: to the File (then to every other text of the File, with   *)
(* tofile FALSE), then to t                                               *)
InsertThen(s1, t, q0, r) ==
    IF s1.err # None THEN s1 ELSE [s1 EXCEPT !.txt[t] = InsertLocal(@, q0, r)]

textinsert(s, t, q0, r, tofile) ==
    IF s.err # None THEN s
    ELSE IF tofile /\ s.txt[t].cache # <<>> THEN Fail(s, "text.insert")
    ELSE IF r = <<>> THEN s
    ELSE InsertThen(IF ~tofile THEN s
                    ELSE [fileinsert(s, q0, r) EXCEPT !.txt = [u \in Texts |->
                              IF u = t THEN @[u] ELSE InsertLocal(@[u], q0, r)]],
                    t, q0, r)

(* textdelete(t, q0, q1, FALSE): selection and origin move left; when    *)
(* the deletion reaches into the frame the frame loses its part of it    *)
(* and is filled again                                                    *)
(* mutant: the selection moves left by the whole deletion, without min *)
DeleteLocalNoMin(s, t, q0, q1) ==
    LET x == s.txt[t]
        n == q1 - q0
        y == [x EXCEPT !.q0 = IF q0 < @ THEN @ - n ELSE @, !.q1 = IF q0 < @ THEN @ - n ELSE @]
    IN IF q1 <= x.org THEN [s EXCEPT !.txt[t] = [y EXCEPT !.org = @ - n]]
       ELSE IF q0 < x.org + Len(x.fr)
       THEN textfill([s EXCEPT !.txt[t] = [y EXCEPT !.org = IF q0 < x.org THEN q0 ELSE @,
                         !.fr = frdelete(@, IF q0 < x.org THEN 0 ELSE q0 - x.org,
                                            Mn(q1 - x.org, Len(x.fr)))]], t)
       ELSE [s EXCEPT !.txt[t] = y]

(* mutant: the frame loses its part of the deletion and is not filled *)
DeleteLocalNoFill(s, t, q0, q1) ==
    LET x == s.txt[t]
        n == q1 - q0
        p1 == Mn(q1 - x.org, Len(x.fr))
        p0 == IF q0 < x.org THEN 0 ELSE q0 - x.org
        y == [x EXCEPT !.q0 = IF q0 < @ THEN @ - Mn(n, @ - q0) ELSE @,
                       !.q1 = IF q0 < @ THEN @ - Mn(n, @ - q0) ELSE @]
    IN IF q1 <= x.org THEN [s EXCEPT !.txt[t] = [y EXCEPT !.org = @ - n]]
       ELSE IF q0 < x.org + Len(x.fr)
       THEN [s EXCEPT !.txt[t] = [y EXCEPT !.org = IF q0 < x.org THEN q0 ELSE @,
                                           !.fr = frdelete(@, p0, p1)]]
       ELSE [s EXCEPT !.txt[t] = y]

DeleteLocal(s, t, q0, q1) ==
    LET x == s.txt[t]
        n == q1 - q0
        p1 == Mn(q1 - x.org, Len(x.fr))
        p0 == IF q0 < x.org THEN 0 ELSE q0 - x.org
        y == [x EXCEPT !.q0 = IF q0 < @ THEN @ - Mn(n, @ - q0) ELSE @,
                       !.q1 = IF q0 < @ THEN @ - Mn(n, @ - q0) ELSE @]
    IN IF q1 <= x.org THEN [s EXCEPT !.txt[t] = [y EXCEPT !.org = @ - n]]
       ELSE IF q0 < x.org + Len(x.fr)
       THEN textfill([s EXCEPT !.txt[t] = [y EXCEPT !.org = IF q0 < x.org THEN q0 ELSE @,
                                                     !.fr = frdelete(@, p0, p1)]], t)
       ELSE [s EXCEPT !.txt[t] = y]

(* the loop of textdelete over file->text, skipping t *)
RECURSIVE DeleteOthers(_, _, _, _, _)
DeleteOthers(s, t, q0, q1, i) ==
    IF i > NText \/ s.err # None THEN s
    ELSE DeleteOthers(IF i = t THEN s ELSE DeleteLocal(s, i, q0, q1), t, q0, q1, i + 1)

DeleteThen(s1, t, q0, q1) == IF s1.err # None THEN s1 ELSE DeleteLocal(s1, t, q0, q1)

textdelete(s, t, q0, q1, tofile) ==
    IF s.err # None THEN s
    ELSE IF tofile /\ s.txt[t].cache # <<>> THEN Fail(s, "text.delete")
    ELSE IF q1 = q0 THEN s
    ELSE DeleteThen(IF tofile THEN DeleteOthers(filedelete(s, q0, q1), t, q0, q1, 1) ELSE s,
                    t, q0, q1)

(* textsetselect: t->q0, t->q1 (p0 and p1 are the frame's drawing) *)
textsetselect(s, t, q0, q1) == [s EXCEPT !.txt[t].q0 = q0, !.txt[t].q1 = q1]

(***************************************************************************)
(* The scans read runes with textreadc; a read past the end of the File   *)
(* (bufread's range check) ends acme.  They return [q, bad].              *)
(***************************************************************************)
(* the inner loop of textbacknl: back to just after a newline, at most   *)
(* 127 runes                                                              *)
RECURSIVE ToNl(_, _, _, _)
ToNl(s, t, p, j) ==
    IF j = 0 \/ p = 0 THEN [q |-> p, bad |-> FALSE]
    ELSE LET c == textreadc(s, t, p - 1)
         IN IF c = Beyond THEN [q |-> p, bad |-> TRUE]
            ELSE IF c = NL THEN [q |-> p, bad |-> FALSE]
            ELSE ToNl(s, t, p - 1, j - 1)

RECURSIVE BackNl(_, _, _, _)
BackNl(s, t, p, i) ==
    IF i = 0 \/ p = 0 THEN [q |-> p, bad |-> FALSE]
    ELSE IF p - 1 = 0 THEN [q |-> 0, bad |-> FALSE]
    ELSE LET r == ToNl(s, t, p - 1, 127)
         IN IF r.bad THEN r ELSE BackNl(s, t, r.q, i - 1)

(* textbacknl(t, p, n): back n lines from p; with n = 0 to the start of *)
(* p's line                                                               *)
textbacknl(s, t, p, n) ==
    LET c == textreadc(s, t, p - 1)
    IN IF n = 0 /\ p > 0 /\ c = Beyond THEN [q |-> p, bad |-> TRUE]
       ELSE BackNl(s, t, p, IF n = 0 /\ p > 0 /\ c # NL THEN 1 ELSE n)

(* the newline search of textsetorigin when org is not exact *)
RECURSIVE ScanNl(_, _, _, _)
ScanNl(s, t, org, i) ==
    IF i >= 256 \/ org >= Len(s.file) THEN org
    ELSE IF textreadc(s, t, org) = NL THEN org + 1
    ELSE ScanNl(s, t, org + 1, i + 1)

(* textsetorigin: move the frame to start at org, keeping what it can of *)
(* the frame, reading the runes it gains from the File, then fill it     *)
textsetorigin(s, t, org0, exact) ==
    LET org == IF org0 > 0 /\ ~exact THEN ScanNl(s, t, org0, 0) ELSE org0
        x == s.txt[t]
        a == org - x.org
        s1 == IF a >= 0 /\ a < Len(x.fr)
                THEN [s EXCEPT !.txt[t].fr = frdelete(@, 0, a)]
              ELSE IF a < 0 /\ -a < Len(x.fr)
                THEN IF x.org > Len(s.file) THEN Fail(s, "bufread")
                     ELSE [s EXCEPT !.txt[t].fr =
                               frinsert(@, 0, SubSeq(s.file, org + 1, x.org))]
              ELSE [s EXCEPT !.txt[t].fr = <<>>]
    IN IF s.err # None THEN s
       ELSE IF s1.err # None THEN s1
       ELSE textfill([s1 EXCEPT !.txt[t].org = org], t)

(***************************************************************************)
(* textbswidth(t, c): how many runes before q0 ^H (one), ^U (back to the *)
(* line start, or the newline itself when q0 is at one) or ^W (back over *)
(* the non-alphanumerics, then over a word) erases                       *)
(***************************************************************************)
RECURSIVE BsScan(_, _, _, _, _)
BsScan(s, t, c, q, skipping) ==
    IF q = 0 THEN [q |-> q, bad |-> FALSE]
    ELSE LET r == textreadc(s, t, q - 1)
             eq == r \in Alnum
         IN IF r = Beyond THEN [q |-> q, bad |-> TRUE]
            ELSE IF r = NL THEN [q |-> IF q = s.txt[t].q0 THEN q - 1 ELSE q, bad |-> FALSE]
            ELSE IF c = "^W" /\ ~eq /\ ~skipping THEN [q |-> q, bad |-> FALSE]
            ELSE BsScan(s, t, c, q - 1, IF c = "^W" /\ eq THEN FALSE ELSE skipping)

textbswidth(s, t, c) ==
    IF c = "^H" THEN [n |-> 1, bad |-> FALSE]
    ELSE LET r == BsScan(s, t, c, s.txt[t].q0, TRUE)
         IN [n |-> s.txt[t].q0 - r.q, bad |-> r.bad]

(* the loop at the end of textshow: origin forward until q0 is shown *)
RECURSIVE ShowForward(_, _, _, _)
ShowForward(s, t, q0, fuel) ==
    IF s.err # None \/ fuel = 0 \/ q0 <= s.txt[t].org + Len(s.txt[t].fr) THEN s
    ELSE ShowForward(textsetorigin(s, t, s.txt[t].org + 1, FALSE), t, q0, fuel - 1)

(* textshow(t, q0, q1, doselect) on a body: select, and if q0 is not in *)
(* the frame move the origin back a quarter of the lines before q0's    *)
(* line, then forward until q0 is in the frame                           *)
textshow(s, t, q0, q1, doselect) ==
    LET s1 == IF doselect THEN textsetselect(s, t, q0, q1) ELSE s
        x == s1.txt[t]
        qe == x.org + Len(x.fr)
        b == textbacknl(s1, t, q0, MaxLines \div 4)
        s2 == IF q0 > x.org /\ b.q < x.org THEN s1 ELSE textsetorigin(s1, t, b.q, TRUE)
    IN IF s.err # None THEN s
       ELSE IF x.org <= q0 /\ (q0 < qe \/ (q0 = qe /\ qe = Len(s1.file) + Len(x.cache)))
       THEN s1
       ELSE IF b.bad THEN Fail(s1, "bufread")
       ELSE ShowForward(s2, t, q0, MaxLen + 1)

(***************************************************************************)
(* texttype(t, r): the navigation keys, which return before anything is   *)
(* typed                                                                   *)
(***************************************************************************)
(* Kleft, Kright, Khome, Kend: commit, then show the new position *)
MoveFrom(s1, t, k) ==
    LET x == s1.txt[t]
        q == CASE k = "Kleft" -> x.q0 - 1
               [] k = "Kright" -> x.q1 + 1
               [] k = "Khome" -> 0
               [] k = "Kend" -> Len(s1.file)
    IN IF (k = "Kleft" /\ x.q0 = 0) \/ (k = "Kright" /\ x.q1 >= Len(s1.file)) THEN s1
       ELSE textshow(s1, t, q, q, k \in {"Kleft", "Kright"})

KeyMove(s, t, k) == MoveFrom(typecommit(s, t), t, k)

(* Kup and Kpgup: the origin back a third, or two thirds, of the lines *)
KeyUp(s, t, k) ==
    LET n == IF k = "Kup" THEN MaxLines \div 3 ELSE (2 * MaxLines) \div 3
        b == textbacknl(s, t, s.txt[t].org, n)
    IN IF b.bad THEN Fail(s, "bufread") ELSE textsetorigin(s, t, b.q, TRUE)

(* Kdown: the origin forward to the rune frcharofpt finds n lines down, *)
(* which is the k-th rune of the frame                                  *)
KeyDown(s, t, k) == textsetorigin(s, t, s.txt[t].org + k, TRUE)

(* ^A: to where ^U would erase, unless already at a line start *)
LineStartFrom(s1, t) ==
    LET x == s1.txt[t]
        c == textreadc(s1, t, x.q0 - 1)
        w == textbswidth(s1, t, "^U")
        nnb == IF x.q0 > 0 /\ c # NL THEN w.n ELSE 0
    IN IF s1.err # None THEN s1
       ELSE IF x.q0 > 0 /\ (c = Beyond \/ (c # NL /\ w.bad)) THEN Fail(s1, "bufread")
       ELSE textshow(s1, t, x.q0 - nnb, x.q0 - nnb, TRUE)

KeyLineStart(s, t) == LineStartFrom(typecommit(s, t), t)

(* ^E: forward to the next newline or the end of the File *)
RECURSIVE LineEnd(_, _, _)
LineEnd(s, t, q) ==
    IF q < Len(s.file) /\ textreadc(s, t, q) # NL THEN LineEnd(s, t, q + 1) ELSE q

LineEndFrom(s1, t) ==
    LET q == LineEnd(s1, t, s1.txt[t].q0)
    IN IF s1.err # None THEN s1 ELSE textshow(s1, t, q, q, TRUE)

KeyLineEnd(s, t) == LineEndFrom(typecommit(s, t), t)

(***************************************************************************)
(* texttype(t, r) for the other keys: a selection is cut first (an error  *)
(* if runes are cached), and q0 is shown                                   *)
(***************************************************************************)
ShowCursor(s1, t) ==
    IF s1.err # None THEN s1 ELSE textshow(s1, t, s1.txt[t].q0, s1.txt[t].q0, TRUE)

TypePrologue(s, t) ==
    LET x == s.txt[t]
    IN ShowCursor(IF x.q1 <= x.q0 THEN s
                  ELSE IF x.cache # <<>> THEN Fail(s, "text.type")
                  ELSE [textsetselect(textdelete(s, t, x.q0, x.q1, TRUE), t, x.q0, x.q0)
                           EXCEPT !.txt[t].eq0 = None],
                  t)

(* Esc: select what was typed since eq0, and commit *)
CommitIfCached(s2, t) == IF s2.txt[t].cache # <<>> THEN typecommit(s2, t) ELSE s2

EscFrom(s1, t) ==
    LET x == s1.txt[t]
    IN IF s1.err # None THEN s1
       ELSE CommitIfCached(IF x.eq0 # None THEN textsetselect(s1, t, x.eq0, x.q0) ELSE s1, t)

KeyEsc(s, t) == EscFrom(TypePrologue(s, t), t)

(* the loop of ^H, ^U and ^W over the texts of the File: each gives up   *)
(* its cached runes first (the cache must end at q1), the rest is         *)
(* deleted from the File through t                                        *)
(* after u's cache: eq0 moves to q0 if it was at q1 or ~0; t deletes   *)
(* the nb runes left from the File, and its selection goes to q0        *)
EraseRest(s2, t, u, q0, nb) ==
    IF u # t THEN s2
    ELSE textsetselect(IF nb > 0 THEN textdelete(s2, u, q0, q0 + nb, TRUE) ELSE s2, t, q0, q0)

EraseEq0(s1, t, u, q0, q1, nb) ==
    EraseRest(IF s1.err # None THEN s1
              ELSE [s1 EXCEPT !.txt[u].eq0 = IF @ = q1 \/ @ = None THEN q0 ELSE @],
              t, u, q0, nb)

RECURSIVE EraseLoop(_, _, _, _, _, _)
EraseLoop(s, t, q0, q1, nnb, i) ==
    IF i > NText \/ s.err # None THEN s
    ELSE LET u == i
             x == s.txt[u]
             n == Mn(Len(x.cache), nnb)
             s0 == [s EXCEPT !.nofill = @ \cup {u}]
             nb == IF x.cache = <<>> THEN nnb ELSE nnb - n
         IN EraseLoop([EraseEq0(IF x.cache = <<>> THEN s0
                                ELSE IF q1 # x.cq0 + Len(x.cache)
                                     THEN Fail(s0, "text.type backspace")
                                ELSE textdelete([s0 EXCEPT !.txt[u].cache =
                                                    SubSeq(@, 1, Len(@) - n)],
                                                u, q1 - n, q1, FALSE),
                                t, u, q0, q1, nb)
                         EXCEPT !.nofill = @ \ {u}], t, q0, q1, nnb, i + 1)

RECURSIVE FillAll(_, _)
FillAll(s, i) == IF i > NText THEN s ELSE FillAll(textfill(s, i), i + 1)

EraseFrom(s1, t, k) ==
    LET x == s1.txt[t]
        w == textbswidth(s1, t, k)
        q1 == x.q0
        q0 == IF q1 - w.n < x.org THEN x.org ELSE q1 - w.n
    IN IF s1.err # None \/ x.q0 = 0 THEN s1
       ELSE IF w.bad THEN Fail(s1, "bufread")
       ELSE IF q1 - q0 <= 0 THEN s1
       ELSE FillAll(EraseLoop(s1, t, q0, q1, q1 - q0, 1), 1)

KeyErase(s, t, k) == EraseFrom(TypePrologue(s, t), t, k)

(* autoindent: the blanks that start the line before q0 *)
RECURSIVE Indent(_, _, _, _)
Indent(s, t, p, k) ==
    IF k = 0 THEN [r |-> <<>>, bad |-> FALSE]
    ELSE LET c == textreadc(s, t, p)
             rest == Indent(s, t, p + 1, k - 1)
         IN IF c = Beyond THEN [r |-> <<>>, bad |-> TRUE]
            ELSE IF c \notin Blank THEN [r |-> <<>>, bad |-> FALSE]
            ELSE [r |-> <<c>> \o rest.r, bad |-> rest.bad]

(* an ordinary rune (a newline with its indent under autoindent) goes   *)
(* into the cache of every text of the File, at t's q0; each cache must *)
(* end there.  The newline commits the window only while r still holds  *)
(* it: the autoindent loop overwrites r with each rune it reads, so a   *)
(* newline typed after anything on its line is left in the cache.       *)
TypeFrom(s1, t, r) ==
    LET x == s1.txt[t]
        w == textbswidth(s1, t, "^U")
        ind == Indent(s1, t, x.q0 - w.n, w.n)
        auto == r = NL /\ AutoIndent
        rp == IF auto THEN <<NL>> \o ind.r ELSE <<r>>
        s2 == [s1 EXCEPT !.txt = [u \in Texts |->
                  [InsertLocal(@[u], x.q0, rp) EXCEPT
                      !.eq0 = IF @ = None THEN x.q0 ELSE @,
                      !.cq0 = IF s1.txt[u].cache = <<>> THEN x.q0 ELSE @,
                      !.cache = @ \o rp]]]
        s3 == textsetselect(s2, t, x.q0 + Len(rp), x.q0 + Len(rp))
    IN IF s1.err # None THEN s1
       ELSE IF auto /\ (w.bad \/ ind.bad) THEN Fail(s1, "bufread")
       ELSE IF \E u \in Texts : s1.txt[u].cache # <<>>
                                /\ x.q0 # s1.txt[u].cq0 + Len(s1.txt[u].cache)
            THEN Fail(s1, "text.type cq1")
       ELSE IF r = NL /\ (~auto \/ w.n = 0) THEN typecommit(s3, t) ELSE s3

TypeRune(s, t, r) == TypeFrom(TypePrologue(s, t), t, r)

(***************************************************************************)
(* textdoubleclick(t, q0, q1) and textclickmatch: a double click next to  *)
(* a bracket, a newline or a quote selects up to its partner, elsewhere   *)
(* the alphanumeric word.  ClickMatch returns [ok, q].                    *)
(***************************************************************************)
RECURSIVE ClickMatch(_, _, _, _, _, _, _)
(* mutant: the partner found leaves q on it rather than past it *)
ClickMatchStay(s, t, cl, cr, dir, q, nest) ==
    IF (dir > 0 /\ q = Len(s.file)) \/ (dir < 0 /\ q = 0)
    THEN [ok |-> cl = NL /\ nest = 1, q |-> q]
    ELSE LET q1 == IF dir > 0 THEN q + 1 ELSE q - 1
             c == textreadc(s, t, IF dir > 0 THEN q ELSE q - 1)
         IN IF c = cr THEN IF nest = 1 THEN [ok |-> TRUE, q |-> q]
                           ELSE ClickMatch(s, t, cl, cr, dir, q1, nest - 1)
            ELSE ClickMatch(s, t, cl, cr, dir, q1, IF c = cl THEN nest + 1 ELSE nest)

ClickMatch(s, t, cl, cr, dir, q, nest) ==
    IF (dir > 0 /\ q = Len(s.file)) \/ (dir < 0 /\ q = 0)
    THEN [ok |-> cl = NL /\ nest = 1, q |-> q]
    ELSE LET q1 == IF dir > 0 THEN q + 1 ELSE q - 1
             c == textreadc(s, t, IF dir > 0 THEN q ELSE q - 1)
         IN IF c = cr THEN IF nest = 1 THEN [ok |-> TRUE, q |-> q1]
                           ELSE ClickMatch(s, t, cl, cr, dir, q1, nest - 1)
            ELSE ClickMatch(s, t, cl, cr, dir, q1, IF c = cl THEN nest + 1 ELSE nest)

RECURSIVE WordRight(_, _, _)
WordRight(s, t, q) ==
    IF q < Len(s.file) /\ textreadc(s, t, q) \in Alnum THEN WordRight(s, t, q + 1) ELSE q
RECURSIVE WordLeft(_, _, _)
WordLeft(s, t, q) ==
    IF q > 0 /\ textreadc(s, t, q - 1) \in Alnum THEN WordLeft(s, t, q - 1) ELSE q

RECURSIVE DoubleClick(_, _, _, _, _)
DoubleClick(s, t, q0, q1, i) ==
    IF i > Len(Left) THEN [q0 |-> WordLeft(s, t, q0), q1 |-> WordRight(s, t, q1)]
    ELSE LET c == IF q0 = 0 THEN NL ELSE textreadc(s, t, q0 - 1)
             m == ClickMatch(s, t, c, Right[i], 1, q0, 1)
             c2 == IF q0 = Len(s.file) THEN NL ELSE textreadc(s, t, q0)
             m2 == ClickMatch(s, t, c2, Left[i], -1, q0, 1)
         IN IF c = Left[i]
            THEN IF m.ok THEN [q0 |-> q0, q1 |-> m.q - (IF c # NL THEN 1 ELSE 0)]
                 ELSE [q0 |-> q0, q1 |-> q1]
            ELSE IF c2 = Right[i]
            THEN IF m2.ok
                 THEN [q0 |-> m2.q + (IF c2 # NL \/ m2.q # 0 \/ textreadc(s, t, 0) = NL
                                      THEN 1 ELSE 0),
                       q1 |-> q0 + (IF q0 < Len(s.file) /\ c2 = NL THEN 1 ELSE 0)]
                 ELSE [q0 |-> q0, q1 |-> q1]
            ELSE DoubleClick(s, t, q0, q1, i + 1)

textdoubleclick(s, t, q0, q1) == DoubleClick(s, t, q0, q1, 1)

(***************************************************************************)
(* textbsinsert(t, q0, r, n, tofile): a write with backspaces ("bs") in   *)
(* it; the backspaces erase what precedes them in r, and those left at    *)
(* the front erase up to q0 runes before q0.  Returns [s, q0, nr].        *)
(***************************************************************************)
BS == "bs"
RECURSIVE BsFold(_, _, _)
(* mutant: a backspace never takes back a rune of r (no --up) *)
BsFoldAllInitial(out, initial, r) ==
    IF r = <<>> THEN [out |-> out, initial |-> initial]
    ELSE IF Head(r) # BS THEN BsFold(Append(out, Head(r)), initial, Tail(r))
    ELSE BsFold(out, initial + 1, Tail(r))

BsFold(out, initial, r) ==
    IF r = <<>> THEN [out |-> out, initial |-> initial]
    ELSE IF Head(r) # BS THEN BsFold(Append(out, Head(r)), initial, Tail(r))
    ELSE IF out = <<>> THEN BsFold(out, initial + 1, Tail(r))
    ELSE BsFold(SubSeq(out, 1, Len(out) - 1), initial, Tail(r))

textbsinsert(s, t, q0, r, tofile) ==
    LET f == BsFold(<<>>, 0, r)
        initial == Mn(f.initial, q0)
        q == q0 - initial
        s1 == IF f.initial > 0 THEN textdelete(s, t, q, q + initial, tofile) ELSE s
    IN IF \A i \in 1 .. Len(r) : r[i] # BS
       THEN [s |-> textinsert(s, t, q0, r, tofile), q0 |-> q0, nr |-> Len(r)]
       ELSE [s |-> textinsert(s1, t, q, f.out, tofile), q0 |-> q, nr |-> Len(f.out)]

-----------------------------------------------------------------------------
(***************************************************************************)
(* The texts after textload and textinit: selection and origin at 0, an   *)
(* empty cache, eq0 = ~0, and the frame filled by textredraw's textfill.  *)
(***************************************************************************)
Init ==
    /\ file \in InitFiles
    /\ txt = [u \in Texts |-> [q0 |-> 0, q1 |-> 0, org |-> 0,
                               fr |-> SubSeq(file, 1, Mn(Cap, Len(file))),
                               cq0 |-> 0, cache |-> <<>>, eq0 |-> None]]
    /\ err = None
    /\ focus \in Texts

Cur == [file |-> file, txt |-> txt, err |-> err, nofill |-> {}]

(* a step leaves the state n, within the bound on the texts' length *)
Apply(n) ==
    /\ n.err # None \/ \A u \in Texts : Len(ViewOf(n.file, n.txt[u])) <= MaxLen
    /\ file' = n.file
    /\ txt' = n.txt
    /\ err' = n.err

Moves == {"Kleft", "Kright", "Khome", "Kend"}
Erases == {"^H", "^U", "^W"}

(* keyboardthread: rowtype sends the key to the text under the mouse, *)
(* through wintype, to texttype(t, r)                                    *)
Type(t, r) == err = None /\ t = focus /\ Apply(TypeRune(Cur, t, r)) /\ UNCHANGED focus

Key(t, k) ==
    /\ err = None
    /\ t = focus
    /\ UNCHANGED focus
    /\ \/ k \in Moves /\ Apply(KeyMove(Cur, t, k))
       \/ k \in {"Kup", "Kpgup"} /\ Apply(KeyUp(Cur, t, k))
       \/ k = "Kdown" /\ \E n \in 0 .. Len(txt[t].fr) : Apply(KeyDown(Cur, t, n))
       \/ k = "^A" /\ Apply(KeyLineStart(Cur, t))
       \/ k = "^E" /\ Apply(KeyLineEnd(Cur, t))
       \/ k = "Esc" /\ Apply(KeyEsc(Cur, t))
       \/ k \in Erases /\ Apply(KeyErase(Cur, t, k))

(* mousethread, when the mouse leaves a text for another: the text it *)
(* leaves has eq0 reset and is committed                                 *)
Clicked(t) == typecommit([Cur EXCEPT !.txt[t].eq0 = None], t)

MouseTo(t) ==
    /\ err = None
    /\ t # focus
    /\ Apply(Clicked(focus))
    /\ focus' = t

(* mousethread on a button-1 press: the same reset and commit, then     *)
(* textselect sweeps q0..q1 inside the frame                             *)
Select(t) ==
    /\ err = None
    /\ t = focus
    /\ UNCHANGED focus
    /\ LET c == Clicked(t)
           x == c.txt[t]
       IN \E a, b \in x.org .. x.org + Len(x.fr) :
             a <= b /\ Apply(IF c.err # None THEN c ELSE textsetselect(c, t, a, b))

(* a second click at an empty selection: textdoubleclick *)
DoubleClickAt(t) ==
    /\ err = None
    /\ t = focus
    /\ txt[t].q0 = txt[t].q1
    /\ UNCHANGED focus
    /\ LET c == Clicked(t)
           d == textdoubleclick(c, t, c.txt[t].q0, c.txt[t].q1)
       IN Apply(IF c.err # None THEN c ELSE textsetselect(c, t, d.q0, d.q1))

Next ==
    \E t \in Texts :
        \/ \E r \in Typed : Type(t, r)
        \/ \E k \in Keys : Key(t, k)
        \/ MouseTo(t)
        \/ Select(t)
        \/ DoubleClickAt(t)
Spec == Init /\ [][Next]_vars

-----------------------------------------------------------------------------
(* A zerox shows its window: whatever is typed, erased, selected or    *)
(* committed through one text (texttype's loops over file->text, the    *)
(* propagation in textinsert and textdelete, wincommit), every text of   *)
(* the File shows the same runes: the File with its own cache put in at  *)
(* cq0.                                                                  *)
ClonesAgree == err = None => \A u, v \in Texts : View(u) = View(v)

(* The frame of each text holds runes of its view from org on, and is   *)
(* either full or shows the view to its end: textfill, run after every   *)
(* frdelete of textdelete, reads the rest of the File in.               *)
FrameFull ==
    err = None =>
        \A u \in Texts : Len(txt[u].fr) = Cap \/ txt[u].org + Len(txt[u].fr) = Len(View(u))

(* The frame shows the view: what libframe draws is the runes of the    *)
(* view from org on (textfill, textsetorigin and the frame updates of    *)
(* textinsert and textdelete keep it so).                               *)
FrameShowsView ==
    err = None => \A u \in Texts :
        /\ txt[u].org <= Len(View(u))
        /\ txt[u].fr = SubSeq(View(u), txt[u].org + 1, txt[u].org + Len(txt[u].fr))

(* The selection of every text lies in its view (texttype's Esc selects *)
(* eq0..q0).                                                             *)
SelectionInView ==
    err = None => \A u \in Texts : txt[u].q0 <= Len(View(u)) /\ txt[u].q1 <= Len(View(u))

(* acme does not end in error() *)
NoAbort == err = None

(* no text has typing cached *)
Committed == \A u \in Texts : txt[u].cache = <<>>

(* Reference for textdoubleclick next to a bracket: the runes between   *)
(* the bracket and its partner nest, every prefix having no more ")"    *)
(* than "(".                                                              *)
Depth(v, a, b) ==
    Cardinality({k \in a .. b : v[k] = "("}) - Cardinality({k \in a .. b : v[k] = ")"})
Nested(v, a, b) == Depth(v, a, b) = 0 /\ \A k \in a .. b : Depth(v, a, k) >= 0
Closes(v, q) == {b \in q .. Len(v) - 1 : v[b + 1] = ")" /\ Nested(v, q + 1, b)}
Opens(v, q) == {a \in 1 .. q : v[a] = "(" /\ Nested(v, a + 1, q)}
RefClick(v, q) ==
    IF q > 0 /\ v[q] = "("
    THEN IF Closes(v, q) = {} THEN [q0 |-> q, q1 |-> q]
         ELSE [q0 |-> q, q1 |-> CHOOSE b \in Closes(v, q) : \A c \in Closes(v, q) : b <= c]
    ELSE IF Opens(v, q) = {} THEN [q0 |-> q, q1 |-> q]
    ELSE [q0 |-> CHOOSE a \in Opens(v, q) : \A c \in Opens(v, q) : a >= c, q1 |-> q]

(* A committed File w, shown by the texts as textinit leaves them *)
WordState(w) ==
    [file |-> w, err |-> None, nofill |-> {},
     txt |-> [u \in Texts |-> [q0 |-> 0, q1 |-> 0, org |-> 0, fr |-> <<>>,
                               cq0 |-> 0, cache |-> <<>>, eq0 |-> None]]]

(* textdoubleclick in text t of state s, whose File is w, at q *)
ClickAgrees(s, t, w, q) ==
    /\ q <= Len(w)
    /\ (q > 0 /\ w[q] = "(") \/ (q < Len(w) /\ w[q + 1] = ")")
    => textdoubleclick(s, t, q, q) = RefClick(w, q)

(* textdoubleclick against RefClick on every File of ClickWords          *)
ClickWordsAgree == \A w \in ClickWords, q \in 0 .. 5 : ClickAgrees(WordState(w), 1, w, q)

(* A double click just after "(" or just before ")" selects what lies   *)
(* between the bracket and its partner, and nothing when there is none: *)
(* the nest counting of textdoubleclick and textclickmatch, at every    *)
(* position of the committed File the editing has reached and of every  *)
(* File of ClickWords (brackets nested and side by side, with other      *)
(* runes between them, unmatched on either side).                        *)
DoubleClickBrackets ==
    /\ err = None /\ Committed =>
         \A q \in 0 .. Len(file) : ClickAgrees(Cur, focus, file, q)
    /\ ClickWordsAgree

(* Reference for textbsinsert: the runes typed one at a time at the    *)
(* cursor, a backspace erasing the rune before it when there is one.   *)
RECURSIVE RefEdit(_, _, _)
RefEdit(v, q, r) ==
    IF r = <<>> THEN [v |-> v, q |-> q]
    ELSE IF Head(r) # BS THEN RefEdit(Ins(v, q, <<Head(r)>>), q + 1, Tail(r))
    ELSE IF q = 0 THEN RefEdit(v, q, Tail(r))
    ELSE RefEdit(Del(v, q - 1, q), q - 1, Tail(r))

(* A write with backspaces at the q0 of the text under the mouse        *)
(* (textbsinsert, tofile, with no typing cached, q0 inside the File)    *)
(* leaves every text of the File showing what typing the runes one at   *)
(* a time would, and returns the cursor after them as q0 + nr.          *)
BsInsertEdits ==
    err = None /\ Committed /\ SelectionInView =>
        \A r \in BsInputs :
            LET b == textbsinsert(Cur, focus, txt[focus].q0, r, TRUE)
                ref == RefEdit(file, txt[focus].q0, r)
            IN /\ b.s.err = None
               /\ \A w \in Texts : ViewOf(b.s.file, b.s.txt[w]) = ref.v
               /\ b.q0 + b.nr = ref.q

=============================================================================
