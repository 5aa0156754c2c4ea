---------------------------- MODULE MCDltWalker ----------------------------
EXTENDS DltWalker

(* Values of configuration lines: the text, the [\w./]+ run FILE_ keeps,   *)
(* whether it is an absolute path, and the substrings load_config tests.   *)
Val(name, word, abs, hash) ==
  [name |-> name, word |-> word, abs |-> abs, hash |-> hash, dbg |-> FALSE]
Src     == Val("src", "src", FALSE, FALSE)
Sub     == Val("src/sub", "src/sub", FALSE, FALSE)
Inc     == Val("inc", "inc", FALSE, FALSE)
Missing == Val("missing", "missing", FALSE, FALSE)
This    == Val(THIS, NoName, FALSE, FALSE)
ErrTxt  == Val("dlt_error.txt", "dlt_error.txt", FALSE, FALSE)
WarnTxt == Val("dlt_warning.txt", "dlt_warning.txt", FALSE, FALSE)
Err2    == Val("out/err.txt", "out/err.txt", FALSE, FALSE)
\* The example of line 22.
CPath   == Val("C:/Users/dlt_error.txt", "C", TRUE, FALSE)
HashDir == Val("build#2", "build", FALSE, TRUE)
Empty   == Val("", NoName, FALSE, FALSE)
DebugDir == [Val("DEBUG_build", "DEBUG_build", FALSE, FALSE) EXCEPT !.dbg = TRUE]

NoLine == [doc |-> [key |-> NoName, sev |-> NoName, value |-> NoName, abs |-> FALSE],
           hash |-> FALSE, debug |-> FALSE, digit |-> NoName, pathIn |-> FALSE,
           pathArg |-> NoName, file |-> FALSE, fileKey |-> NoName, fileArg |-> NoName]

\* "# This is a comment"
CommentLine == [NoLine EXCEPT !.doc.key = "comment", !.hash = TRUE]
\* "DEBUG = d"
DebugLine(d) == [NoLine EXCEPT !.doc.key = "DEBUG", !.debug = TRUE, !.digit = d]
\* "PATH_IN = v"
PathLine(v) ==
  [NoLine EXCEPT !.doc = [key |-> "PATH_IN", sev |-> NoName, value |-> v.name,
                          abs |-> v.abs],
                 !.hash = v.hash, !.debug = v.dbg, !.pathIn = TRUE,
                 !.pathArg = IF v.name = "" THEN NoName ELSE v.name]
\* "FILE_k = v"
FileLine(k, v) ==
  [NoLine EXCEPT !.doc = [key |-> "FILE", sev |-> FileKeys[k], value |-> v.name,
                          abs |-> v.abs],
                 !.hash = v.hash, !.debug = v.dbg, !.file = TRUE,
                 !.fileKey = IF v.word # NoName THEN k ELSE NoName,
                 !.fileArg = v.word]

MCDirs == {"root", "src", "sub", "inc"}
MCParentOf == [d \in MCDirs |-> CASE d = "root" -> NoName
                                  [] d = "sub"  -> "src"
                                  [] OTHER      -> "root"]
MCPathDir == (NoName :> "root") @@ ("src" :> "src") @@ ("src/sub" :> "sub")
             @@ ("inc" :> "inc") @@ ("missing" :> NoName)
             @@ ("build#2" :> NoName)
MCFiles ==
  {[name |-> "main", dir |-> "root", ext |-> ".cpp"],
   [name |-> "a", dir |-> "src", ext |-> ".cpp"],
   [name |-> "a", dir |-> "src", ext |-> ".hpp"],
   [name |-> "notes", dir |-> "src", ext |-> ".txt"],
   [name |-> "b", dir |-> "sub", ext |-> ".hpp"],
   [name |-> "c", dir |-> "inc", ext |-> ".hpp"]}

\* "INPUT = src": no key load_config knows.  "FILE_TRACE = t.txt": no severity.
OtherLine == [NoLine EXCEPT !.doc.key = "other"]
UnknownFile ==
  [FileLine("ERROR", Val("t.txt", "t.txt", FALSE, FALSE))
     EXCEPT !.doc.key = "other", !.doc.sev = NoName, !.fileKey = "TRACE"]

\* Every config of up to four lines of the documented kinds, with lines
\* of keys or severities load_config does not know among them.
DocumentedLines ==
  {OtherLine, UnknownFile, CommentLine, DebugLine(0), PathLine(Sub),
   PathLine(Inc), PathLine(Missing), FileLine("ERROR", ErrTxt),
   FileLine("WARNING", WarnTxt), FileLine("ERROR", Err2)}
\* No PATH_IN line given twice: the input paths do not overlap.
DistinctPaths(c) ==
  \A i, j \in DOMAIN c : c[i].pathIn /\ c[i] = c[j] => i = j
Documented == {c \in BoundedSeq(DocumentedLines, 4) : DistinctPaths(c)}

\* Values the documented format allows that load_config misreads: the
\* example path of line 22, a "#" or "DEBUG" inside a value, no value.
Misread ==
  {<<FileLine("ERROR", CPath)>>, <<PathLine(HashDir), PathLine(Inc)>>,
   <<PathLine(DebugDir)>>, <<FileLine("ERROR", ErrTxt), PathLine(Empty)>>}

\* Input paths below one another: src/sub inside src, inc inside the root.
OverlappingPaths ==
  {<<PathLine(Src), PathLine(Sub)>>, <<PathLine(Inc), PathLine(This)>>}
=============================================================================
