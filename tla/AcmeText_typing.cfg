\* a window and its zerox on a File holding "()": typing (with autoindent), every special key, selecting, double clicks and moving the mouse between the texts; error() ends acme, so a stop is not a deadlock; the view forgets cq0 of an empty cache and the texts after error()
CONSTANTS
    NText = 2
    Cap = 1
    MaxLines = 4
    MaxLen = 2
    Typed = {"a", "nl"}
    Keys = {"Kleft", "Kright", "Khome", "Kend", "Kup", "Kpgup", "Kdown", "^A", "^E", "Esc", "^H", "^U", "^W"}
    InitFiles <- MCInitFiles
    BsInputs <- MCBsInputs
    ClickWords <- MCClickWords
    AutoIndent = TRUE
    None = None
    Beyond = Beyond
SPECIFICATION Spec
INVARIANT TypeOK
INVARIANT ClonesAgree
INVARIANT FrameFull
INVARIANT DoubleClickBrackets
INVARIANT BsInsertEdits
CHECK_DEADLOCK FALSE
VIEW MCView
