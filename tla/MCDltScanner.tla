---------------------------- MODULE MCDltScanner ----------------------------
(***************************************************************************)
(* Line kinds and per-file alphabets for checking DltScanner.  Each kind   *)
(* stands for a line of a C++ source of the AVB stream handler; the text   *)
(* in the comment is an example of it.  File 1 and file 2 use different    *)
(* names so that a name carried from one file to the next shows.           *)
(***************************************************************************)
EXTENDS DltScanner

\* DLT_REGISTER_CONTEXT(*mLog, "c", "...");
RegisterCtx(c)   == [Plain EXCEPT !.ctx = c]
\* static const char* cClassName = "c::";
ClassDecl(c)     == [Plain EXCEPT !.cls = c]
\* void c::f(int x)
FunctionDef(c, f) == [Plain EXCEPT !.fn = [cls |-> c, name |-> f]]
OpenBrace        == [Plain EXCEPT !.open = TRUE]    \* {
CloseBrace       == [Plain EXCEPT !.close = TRUE]   \* }
Define(m)        == [Plain EXCEPT !.define = m]     \* #define m ...
DocStart         == [Plain EXCEPT !.docStart = TRUE] \* /**
LogTag == [Plain EXCEPT !.logTag = TRUE, !.star = TRUE]  \*  * @log text
DocBody          == [Plain EXCEPT !.star = TRUE]    \*  * more text
DocEnd == [Plain EXCEPT !.docEnd = TRUE, !.star = TRUE]  \*  */
BlankLine        == Plain     \* empty, or code no pattern sees
\* DLT_LOG_CXX(*mLog, DLT_LOG_<s>, q, "text", x);  and its multi-line forms
Call(s, q, t, end) ==
  [Plain EXCEPT !.call = s, !.marks = {s} \cap Severities, !.qual = q,
                !.tail = t, !.callEnd = end]
CallEnd          == [Plain EXCEPT !.callEnd = TRUE] \*     "text", x);

\* Well-formed C++: comments and calls are closed, a call's text starts
\* with a string literal, one class per file.  Brace lines are left to the
\* runs about bracket counting.
WellFormed ==
  LET Common == {DocStart, LogTag, DocEnd, BlankLine, CallEnd}
  IN  <<Common \cup
          {RegisterCtx("CTX1"), ClassDecl("C1"), FunctionDef("C1", "f1"),
           FunctionDef("cClassName", "init"), Define("LOG_DEVICE"),
           Call("Error", "LOG_PREFIX", "quote", TRUE),
           Call("Warning", "LOG_PREFIX", "eol", FALSE)},
        Common \cup
          {RegisterCtx("CTX2"), ClassDecl("C2"), FunctionDef("C2", "f2"),
           Define("LOG_ZONE"), Call("Warning", "LOG_DEVICE", "quote", TRUE),
           Call("Info", "LOG_PREFIX", "quote", TRUE),
           Call("Error", "LOG_BUFFER", "quote", FALSE)}>>

\* Inside a doc comment every line starts with " *".
StarredComment == {DocBody, DocEnd}

MCAlphabet == WellFormed

\* Input nobody would call wrong C++ but the parser must live with: a
\* blank line in a doc comment, files cut inside a comment or a call, a
\* call whose text starts with a variable, a call broken after the
\* severity, a severity that is not configured.  Runs with Truncated and
\* OutputMayFail.
Malformed ==
  LET Common == {DocStart, LogTag, DocEnd, BlankLine, CallEnd}
  IN  <<Common \cup
          {RegisterCtx("CTX1"), ClassDecl("C1"), FunctionDef("C1", "f1"),
           FunctionDef("cClassName", "init"), Define("LOG_DEVICE"),
           Call("Error", "LOG_PREFIX", "quote", TRUE),
           Call("Warning", "LOG_PREFIX", "eol", FALSE),
           Call("Error", NoName, NoName, FALSE)},
        Common \cup
          {RegisterCtx("CTX2"), ClassDecl("C2"), FunctionDef("C2", "f2"),
           Define("LOG_ZONE"), Call("Warning", "LOG_DEVICE", "other", TRUE),
           Call("Info", "LOG_PREFIX", "quote", TRUE),
           Call("Error", "LOG_BUFFER", "quote", FALSE)}>>

AnyComment == {DocBody, DocEnd, BlankLine}

-----------------------------------------------------------------------------
(* Single-file alphabets, each around one question.                        *)

\* Two classes defined in one file (spec 3: the function pattern must be
\* rebuilt every time the class name changes).
TwoClasses ==
  <<{ClassDecl("C1"), FunctionDef("C1", "f1"), ClassDecl("C2"),
     FunctionDef("C2", "f2"), BlankLine}>>

\* Braces around one-line doc comments ("/** brief */" opens the lookahead
\* of scan_file although no @log follows), and a function defined before
\* any class: "void cClassName::init(int x) {" with no cClassName line.
BracesAndComments ==
  <<{DocStart, OpenBrace, CloseBrace, BlankLine,
     FunctionDef("cClassName", "init")}>>

\* A call whose line also holds the marker of another severity, in its
\* text or in a trailing comment:
\* DLT_LOG_CXX(*mLog, DLT_LOG_WARN, LOG_PREFIX, "x");  // was DLT_LOG_ERROR
Mentions(s, t) ==
  [Call(s, "LOG_PREFIX", "quote", TRUE) EXCEPT !.marks = {s, t}]

\* Documented calls of every severity, one whose text starts with a
\* variable (DLT_LOG_CXX(*mLog, DLT_LOG_ERROR, LOG_PREFIX, x, " text");), and a Warning call that mentions the Error marker, in two
\* files (run with nothing, Warning, or Error and Warning configured, and
\* input closes that may fail).
CrashInputs ==
  LET lines == {DocStart, LogTag, DocEnd, BlankLine,
                Call("Error", "LOG_PREFIX", "other", TRUE),
                Mentions("Warning", "Error")} \cup
               {Call(s, "LOG_PREFIX", "quote", TRUE) : s \in Severities}
  IN  <<lines, lines>>

\* A documented multi-line call.
MultiLineCall ==
  <<{DocStart, LogTag, DocEnd, BlankLine, CallEnd,
     Call("Error", "LOG_PREFIX", "eol", FALSE)}>>

\* A documented call whose text starts on the call line and continues:
\* DLT_LOG_CXX(*mLog, DLT_LOG_ERROR, LOG_PREFIX, "text ",
\*             x, " more");
InlineOpening ==
  <<{DocStart, LogTag, DocEnd, CallEnd,
     Call("Error", "LOG_PREFIX", "quote", FALSE)}>>
=============================================================================
