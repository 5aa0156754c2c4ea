----------------------------- MODULE DltScanner -----------------------------
(***************************************************************************)
(* The extraction engine of src/public/doc/DltParser.py: class Parser, as  *)
(* Walker.search_paths drives it over a sequence of input files.           *)
(*                                                                         *)
(* A source line is abstracted to the features the Parser's regular        *)
(* expressions test (a record, see Plain).  The file's text is not a       *)
(* variable: every readline() picks its line from the set Input, so one    *)
(* run covers every file of at most MaxLines lines over the alphabet of    *)
(* line kinds.  Names (contexts, classes, functions) are model values.     *)
(*                                                                         *)
(* pos and depth are history variables: the true number of lines read     *)
(* from the current file and its true brace balance.  They are read only   *)
(* by properties.                                                          *)
(***************************************************************************)
EXTENDS Integers, Sequences, FiniteSets, Functions

CONSTANTS
  ConfigChoices,  \* the sets of severities config.txt may give a FILE_ entry
  NumFiles,       \* number of files the walker hands to the parser
  MaxLines,       \* bound on the length of a file
  Alphabet,       \* Alphabet[f]: the line kinds file f is made of
  CommentText,    \* the line kinds that occur inside a doc comment
  CommentClose,   \* a line " */" (forced at the bound in well-formed input)
  CallClose,      \* a line "... );" (forced at the bound in well-formed input)
  Truncated,      \* where a file may end early: {"comment", "cont"} or less
  InputMayFail,   \* may open(in_file, "r") raise OSError
  OutputMayFail,  \* may open(path, "w+") raise OSError
  CloseMayFail,   \* may close() of an input file raise OSError
  NoName          \* the empty string "" of a name field

\* The order in which write_dlt_message tests the markers (lines 376-383).
SeverityOrder == <<"Error", "Warning", "Info", "Verbose">>
Severities == Range(SeverityOrder)
\* First arguments of DLT_LOG_CXX: the four markers and one no test knows.
Markers == Severities \cup {"Debug"}
\* Parser.dlt_log: the qualifier macros.
Macros == {"LOG_PREFIX", "LOG_DEVICE", "LOG_ZONE", "LOG_PORT", "LOG_THREAD",
           "LOG_BUFFER"}
\* The macros a #define of which appends a "<q>=&lt;NAME&gt;: " fragment.
Qualifiers == {"LOG_DEVICE", "LOG_ZONE", "LOG_PORT", "LOG_THREAD"}

ASSUME \A c \in ConfigChoices : c \subseteq Severities
ASSUME Truncated \subseteq {"comment", "cont"}
ASSUME NumFiles \in Nat \ {0} /\ MaxLines \in Nat \ {0}

(***************************************************************************)
(* A line of text, as the patterns see it.                                 *)
(*   ctx      DLT_REGISTER_CONTEXT(mLog, "X" / getDltContext("X")  (96)   *)
(*   cls      cClassName = "X::";                                   (97)   *)
(*   fn       [cls |-> Q, name |-> f]: the text Q::f( with an argument (98) *)
(*   open     a "{" anywhere (pattern 3 is searched, not matched)   (99)   *)
(*   close    a "}" anywhere                                       (100)   *)
(*   define   #define M for a macro M of dlt_log                   (101)   *)
(*   docStart "/**"                                                 (102)  *)
(*   logTag   "*\s*@log" (347);  star: a "*" (450);  docEnd: "*/" (449)    *)
(*   call     the first argument of DLT_LOG_CXX(x, ...)            (103)   *)
(*   marks    the severity markers anywhere in the line        (376-383)   *)
(*   qual     the qualifier macro of the call                   (459-489)  *)
(*   tail     what follows "qual," : "eol", "quote" or "other"   (459-489) *)
(*   callEnd  the line ends with ");"                          (459, 468)  *)
(*   eof      the "" that readline() returns at end of file                *)
(***************************************************************************)
Plain == [ctx |-> NoName, cls |-> NoName, fn |-> NoName, open |-> FALSE,
          close |-> FALSE, define |-> NoName, docStart |-> FALSE,
          logTag |-> FALSE, star |-> FALSE, docEnd |-> FALSE,
          call |-> NoName, marks |-> {}, qual |-> NoName, tail |-> NoName,
          callEnd |-> FALSE, eof |-> FALSE]

EOF == [Plain EXCEPT !.eof = TRUE]

VARIABLES
  pc,             \* where the walker / scan_file is
  file_idx,       \* the file being processed (Walker.search_recursively)
  file_in,        \* Parser._file_in: "None", an open file, or a file whose
                  \* close() raised (the descriptor is released anyway)
  line_number,    \* Parser._line_number
  num_brackets,   \* Parser._num_brackets
  class_name,     \* Parser._class_name
  fn_pattern,     \* the class literal in Parser._regex[2]
  function_name,  \* Parser._function_name
  dlt_context,    \* Parser._dlt_context
  log_name,       \* Parser._log_name, as the sequence of appended macros
  lines_written,  \* Parser._lines_written
  comment,        \* Parser._comment: which lines of which file it holds
  is_commented,   \* Parser._is_commented
  pending,        \* the record write_dlt_message is building
  out,            \* out[s]: the rows written to the file of severity s
  out_open,       \* severities whose Parser._file_out_* is not None
  report,         \* what scan_file printed when it returned
  at_eof,         \* the input file's position is at its end
  pos,            \* history: lines really read from this file
  depth,          \* history: "{" lines minus "}" lines read from this file
  configured      \* the keys of Walker._out_files the Parser was built with

vars == <<pc, file_idx, file_in, line_number, num_brackets, class_name,
          fn_pattern, function_name, dlt_context, log_name, lines_written,
          comment, is_commented, pending, out, out_open, report, at_eof, pos,
          depth, configured>>

scan == <<line_number, num_brackets, class_name, fn_pattern, function_name,
          dlt_context, log_name, lines_written, comment, is_commented>>

NoComment == [file |-> 0, first |-> 0, last |-> 0]

NoRecord == [sev |-> NoName, ctx |-> NoName, cls |-> NoName,
             fn |-> NoName, line |-> 0, quals |-> <<>>, msg |-> <<>>,
             comment |-> NoComment, file |-> 0, call |-> NoName,
             callPos |-> 0, endPos |-> 0, opening |-> NoName]

-----------------------------------------------------------------------------
(* Pattern set (set_patterns, lines 95-103) and its use in scan_file.       *)

\* Parser.__init__ (64-88) joins the markers of the configured severities
\* with "|"; set_patterns (103) puts them in the group of the DLT message
\* pattern.  With nothing configured the group is "()" and matches any
\* first argument.
dlt_config == IF configured = {} THEN Markers ELSE configured

IsDltCall(l) == l.call \in dlt_config

\* write_dlt_message (375-385): the first marker found, in SeverityOrder.
OutFile(l) ==
  LET hits == {i \in DOMAIN SeverityOrder : SeverityOrder[i] \in l.marks}
  IN  IF hits = {} THEN NoName
      ELSE SeverityOrder[CHOOSE i \in hits : \A j \in hits : i <= j]

Brace(l) == (IF l.open THEN 1 ELSE 0) - (IF l.close THEN 1 ELSE 0)

NewContext(l) == IF l.ctx # NoName THEN l.ctx ELSE dlt_context
NewClass(l)   == IF l.cls # NoName THEN l.cls ELSE class_name
\* re.sub("cClassName", class_name, pattern) (314) only replaces the
\* placeholder: once a class name is in the pattern it stays there.
NewPattern(l) ==
  IF l.cls # NoName /\ fn_pattern = "cClassName" THEN l.cls ELSE fn_pattern
FnMatch(l) == l.fn # NoName /\ l.fn.cls = NewPattern(l)

\* parse_error_message (456-490): which branch the call line takes.  The
\* patterns of lines 465 and 476 concatenate dlt_log without a group, so
\* "LOG_PREFIX", ..., "LOG_THREAD" alone satisfy them.
Shape(l) ==
  CASE l.callEnd /\ l.qual \in Macros /\ l.tail = "quote" -> "single"
    [] l.callEnd                                          -> "split_failed"
    [] \/ l.qual \in Macros \ {"LOG_BUFFER"}
       \/ l.qual = "LOG_BUFFER" /\ l.tail = "eol"          -> "empty_opening"
    [] l.qual = "LOG_BUFFER" /\ l.tail = "quote"         -> "inline_opening"
    [] OTHER                                              -> "none"

-----------------------------------------------------------------------------
(* The input: what the next readline() may return.                         *)

Closing == IF pc = "comment" THEN {CommentClose} ELSE {CallClose}
MayEnd == pc \notin {"comment", "cont"} \/ pc \in Truncated
Text == IF pc = "comment" THEN CommentText ELSE Alphabet[file_idx]
Input ==
  IF at_eof THEN {EOF}
  ELSE IF pos < MaxLines THEN Text \cup (IF MayEnd THEN {EOF} ELSE {})
  ELSE IF pos = MaxLines /\ ~MayEnd THEN Closing
  ELSE {EOF}

\* A readline() inside the lookahead of scan_file, parse_comment or
\* parse_error_message: the counter is incremented even at end of file.
Consume(l) ==
  /\ line_number' = line_number + 1
  /\ pos' = pos + (IF l.eof THEN 0 ELSE 1)
  /\ depth' = depth + Brace(l)
  /\ at_eof' = l.eof

-----------------------------------------------------------------------------
Init ==
  /\ pc = "start"
  /\ file_idx = 1
  /\ file_in = "None"
  /\ line_number = 0
  /\ num_brackets = 0
  /\ class_name = NoName
  /\ fn_pattern = "cClassName"
  /\ function_name = NoName
  /\ dlt_context = NoName
  /\ log_name = <<>>
  /\ lines_written = 0
  /\ comment = NoComment
  /\ is_commented = FALSE
  /\ pending = NoRecord
  /\ out = [s \in Severities |-> <<>>]
  /\ out_open = {}
  /\ report = "none"
  /\ at_eof = FALSE
  /\ pos = 0
  /\ depth = 0
  /\ configured \in ConfigChoices

\* Mutation: one output file is opened per known severity.
open_output_files_all ==
  /\ pc = "start"
  /\ out_open' = Severities
  /\ pc' = "nextFile"
  /\ UNCHANGED <<configured, file_idx, file_in, scan, pending, out, report,
                 at_eof, pos, depth>>

\* Walker.search_paths -> Parser.open_output_files (157-228): one open per
\* configured severity; an OSError leaves that handle None.
open_output_files ==
  /\ pc = "start"
  /\ \E opened \in SUBSET configured :
       /\ OutputMayFail \/ opened = configured
       /\ out_open' = opened
  /\ pc' = "nextFile"
  /\ UNCHANGED <<configured, file_idx, file_in, scan, pending, out, report,
                 at_eof, pos, depth>>

\* Mutation: _log_name is carried over to the next file.
open_input_file_keeps_log_name ==
  /\ pc = "nextFile"
  /\ file_idx <= NumFiles
  /\ file_in = "None"
  /\ \E ok \in IF InputMayFail THEN BOOLEAN ELSE {TRUE} :
       file_in' = IF ok THEN "open" ELSE "None"
  /\ class_name' = NoName
  /\ function_name' = NoName
  /\ dlt_context' = NoName
  /\ line_number' = 0
  /\ num_brackets' = 0
  /\ lines_written' = 0
  /\ is_commented' = FALSE
  /\ fn_pattern' = "cClassName"
  /\ report' = "none"
  /\ at_eof' = FALSE
  /\ pos' = 0
  /\ depth' = 0
  /\ pc' = "scan"
  /\ UNCHANGED <<configured, file_idx, log_name, comment, pending, out, out_open>>

\* Mutation: _class_name is carried over to the next file.
open_input_file_keeps_class_name ==
  /\ pc = "nextFile"
  /\ file_idx <= NumFiles
  /\ file_in = "None"
  /\ \E ok \in IF InputMayFail THEN BOOLEAN ELSE {TRUE} :
       file_in' = IF ok THEN "open" ELSE "None"
  /\ function_name' = NoName
  /\ log_name' = <<>>
  /\ dlt_context' = NoName
  /\ line_number' = 0
  /\ num_brackets' = 0
  /\ lines_written' = 0
  /\ is_commented' = FALSE
  /\ fn_pattern' = "cClassName"
  /\ report' = "none"
  /\ at_eof' = FALSE
  /\ pos' = 0
  /\ depth' = 0
  /\ pc' = "scan"
  /\ UNCHANGED <<configured, file_idx, class_name, comment, pending, out, out_open>>

\* Mutation: the function pattern is carried over to the next file.
open_input_file_keeps_pattern ==
  /\ pc = "nextFile"
  /\ file_idx <= NumFiles
  /\ file_in = "None"
  /\ \E ok \in IF InputMayFail THEN BOOLEAN ELSE {TRUE} :
       file_in' = IF ok THEN "open" ELSE "None"
  /\ class_name' = NoName
  /\ function_name' = NoName
  /\ log_name' = <<>>
  /\ dlt_context' = NoName
  /\ line_number' = 0
  /\ num_brackets' = 0
  /\ lines_written' = 0
  /\ is_commented' = FALSE
  /\ report' = "none"
  /\ at_eof' = FALSE
  /\ pos' = 0
  /\ depth' = 0
  /\ pc' = "scan"
  /\ UNCHANGED <<configured, file_idx, fn_pattern, comment, pending, out, out_open>>

\* Mutation: the guard is tested after open(): the new file is opened, the
\* state of the old one kept.
open_input_file_already_open_reopens ==
  /\ pc = "nextFile"
  /\ file_idx <= NumFiles
  /\ file_in # "None"
  /\ file_in' = "open"
  /\ at_eof' = FALSE
  /\ pos' = 0
  /\ depth' = 0
  /\ pc' = "scan"
  /\ UNCHANGED <<configured, file_idx, scan, pending, out, out_open, report>>

\* open_input_file (115-118): a file is still set, so the call returns at
\* once.  Nothing is opened and no state is reset.
open_input_file_already_open ==
  /\ pc = "nextFile"
  /\ file_idx <= NumFiles
  /\ file_in # "None"
  /\ pc' = "scan"
  /\ UNCHANGED <<configured, file_idx, file_in, scan, pending, out, out_open,
                 report, at_eof, pos, depth>>

\* Walker.search_recursively -> Parser.open_input_file (112-138).  The
\* state is reset and the patterns rebuilt whether or not open() succeeded.
open_input_file ==
  /\ pc = "nextFile"
  /\ file_idx <= NumFiles
  /\ file_in = "None"
  /\ \E ok \in IF InputMayFail THEN BOOLEAN ELSE {TRUE} :
       file_in' = IF ok THEN "open" ELSE "None"
  /\ class_name' = NoName
  /\ function_name' = NoName
  /\ log_name' = <<>>
  /\ dlt_context' = NoName
  /\ line_number' = 0
  /\ num_brackets' = 0
  /\ lines_written' = 0
  /\ is_commented' = FALSE
  /\ fn_pattern' = "cClassName"
  /\ report' = "none"
  /\ at_eof' = FALSE
  /\ pos' = 0
  /\ depth' = 0
  /\ pc' = "scan"
  /\ UNCHANGED <<configured, file_idx, comment, pending, out, out_open>>

\* scan_file (290-299): nothing to read when open() failed.
scan_file_not_open ==
  /\ pc = "scan"
  /\ file_in = "None"
  /\ report' = "notOpen"
  /\ pc' = "close"
  /\ UNCHANGED <<configured, file_idx, file_in, scan, pending, out, out_open,
                 at_eof, pos, depth>>

scan_file_start ==
  /\ pc = "scan"
  /\ file_in = "open"
  /\ pc' = "line"
  /\ UNCHANGED <<configured, file_idx, file_in, scan, pending, out, out_open, report,
                 at_eof, pos, depth>>

\* scan_file (300-301): readline() on a closed file raises ValueError.
scan_file_closed ==
  /\ pc = "scan"
  /\ file_in = "closed"
  /\ pc' = "crashed"
  /\ UNCHANGED <<configured, file_idx, file_in, scan, pending, out, out_open,
                 report, at_eof, pos, depth>>

-----------------------------------------------------------------------------
(* scan_file's main loop (300-358).  Patterns 0-6 are tried in order on   *)
(* the same line; a comment start (6) hands over to the lookahead.         *)

\* Patterns 0-6 applied to line l, no function line before a class.
ScanLine(l) ==
  /\ pc = "line"
  /\ ~l.eof
  /\ ~(FnMatch(l) /\ NewClass(l) = NoName)
  /\ Consume(l)
  /\ dlt_context' = NewContext(l)
  /\ class_name' = NewClass(l)
  /\ fn_pattern' = NewPattern(l)
  /\ function_name' = IF FnMatch(l) THEN l.fn.name ELSE function_name
  /\ num_brackets' = num_brackets + Brace(l)
  /\ log_name' = IF l.define \in Qualifiers
                   THEN Append(log_name, l.define) ELSE log_name
  /\ pc' = IF l.docStart THEN "tag" ELSE "line"
  /\ UNCHANGED <<configured, file_idx, file_in, lines_written, comment, is_commented,
                 pending, out, out_open, report>>

scan_line == pc = "line" /\ \E l \in Input : ScanLine(l)

\* Pattern 2 matches while the class name is "" (320-323): scan_file
\* returns, leaving the rest of the file unread and skipping the check.
abort_scan ==
  /\ pc = "line"
  /\ \E l \in Input :
       /\ ~l.eof
       /\ FnMatch(l) /\ NewClass(l) = NoName
       /\ Consume(l)
       /\ dlt_context' = NewContext(l)
  /\ report' = "aborted"
  /\ pc' = "close"
  /\ UNCHANGED <<configured, file_idx, file_in, num_brackets, class_name, fn_pattern,
                 function_name, log_name, lines_written, comment,
                 is_commented, pending, out, out_open>>

\* readline() returned "" (302-303): the bracket check (359-364).
scan_eof ==
  /\ pc = "line"
  /\ EOF \in Input
  /\ report' = IF num_brackets > 0 THEN "imbalance" ELSE "done"
  /\ pc' = "close"
  /\ UNCHANGED <<configured, file_idx, file_in, scan, pending, out, out_open,
                 at_eof, pos, depth>>

\* The line after "/**" (345-349): an @log tag starts parse_comment, whose
\* first statements (445-446) reset _comment to the tag's text.
TagLine(l) ==
  /\ Consume(l)
  /\ IF l.logTag
       THEN /\ is_commented' = TRUE
            /\ comment' = [file |-> file_idx, first |-> pos', last |-> pos']
            /\ pc' = "comment"
       ELSE /\ UNCHANGED <<is_commented, comment>>
            /\ pc' = "call"
  /\ UNCHANGED <<configured, file_idx, file_in, num_brackets, class_name, fn_pattern,
                 function_name, dlt_context, log_name, lines_written,
                 pending, out, out_open, report>>

read_tag_line == pc = "tag" /\ \E l \in Input : TagLine(l)

\* Mutation: the "*/" line is appended to the comment as well.
CommentLine_appends_close(l) ==
  /\ Consume(l)
  /\ \/ /\ l.docEnd
        /\ pc' = "call"
        /\ comment' = [comment EXCEPT !.last = pos']
     \/ /\ ~l.docEnd /\ l.star
        /\ comment' = [comment EXCEPT !.last = pos']
        /\ pc' = "comment"
     \/ /\ ~l.docEnd /\ ~l.star
        /\ pc' = "crashed"
        /\ UNCHANGED comment
  /\ UNCHANGED <<configured, file_idx, file_in, num_brackets, class_name, fn_pattern,
                 function_name, dlt_context, log_name, lines_written,
                 is_commented, pending, out, out_open, report>>

\* One iteration of parse_comment's loop (447-452).  A line without "*/"
\* is split on "\s*\*\s*(.*)"; without a "*" (and at end of file) the
\* split has one element and [1] raises IndexError.
CommentLine(l) ==
  /\ Consume(l)
  /\ \/ /\ l.docEnd
        /\ pc' = "call"
        /\ UNCHANGED comment
     \/ /\ ~l.docEnd /\ l.star
        /\ comment' = [comment EXCEPT !.last = pos']
        /\ pc' = "comment"
     \/ /\ ~l.docEnd /\ ~l.star
        /\ pc' = "crashed"
        /\ UNCHANGED comment
  /\ UNCHANGED <<configured, file_idx, file_in, num_brackets, class_name, fn_pattern,
                 function_name, dlt_context, log_name, lines_written,
                 is_commented, pending, out, out_open, report>>

read_comment_line == pc = "comment" /\ \E l \in Input : CommentLine(l)

\* Mutation: _is_commented is not reset after a write.
Emit_keeps_commented(r) ==
  /\ pending' = NoRecord
  /\ \/ /\ r.sev \in out_open \cup {NoName}
        /\ out' = IF r.sev = NoName THEN out
                  ELSE [out EXCEPT ![r.sev] = Append(@, r)]
        /\ lines_written' = lines_written + 1
        /\ UNCHANGED is_commented
        /\ pc' = "line"
     \/ /\ r.sev \notin out_open \cup {NoName}
        /\ pc' = "crashed"
        /\ UNCHANGED <<out, lines_written, is_commented>>

\* The end of write_dlt_message (404-414) for the finished row r, then
\* lines 356-357 of scan_file.  A row whose severity has no open output
\* file is written to None: AttributeError.
Emit(r) ==
  /\ pending' = NoRecord
  /\ \/ /\ r.sev \in out_open \cup {NoName}
        /\ out' = IF r.sev = NoName THEN out
                  ELSE [out EXCEPT ![r.sev] = Append(@, r)]
        /\ lines_written' = lines_written + 1
        /\ is_commented' = FALSE
        /\ pc' = "line"
     \/ /\ r.sev \notin out_open \cup {NoName}
        /\ pc' = "crashed"
        /\ UNCHANGED <<out, lines_written, is_commented>>

\* Mutation: the header takes the line number before the call line is read.
Header_stale_line(l) ==
  [sev |-> OutFile(l), ctx |-> dlt_context, cls |-> class_name,
   fn |-> function_name, line |-> line_number, quals |-> log_name,
   msg |-> <<>>, comment |-> comment, file |-> file_idx, call |-> l.call,
   callPos |-> pos', endPos |-> pos',
   opening |-> IF l.qual \in Macros THEN l.tail ELSE NoName]

\* The header write_dlt_message builds before parsing the message
\* (387-393); _log_name and _comment do not change until it is written.
Header(l) ==
  [sev |-> OutFile(l), ctx |-> dlt_context, cls |-> class_name,
   fn |-> function_name, line |-> line_number', quals |-> log_name,
   msg |-> <<>>, comment |-> comment, file |-> file_idx, call |-> l.call,
   callPos |-> pos', endPos |-> pos',
   opening |-> IF l.qual \in Macros THEN l.tail ELSE NoName]

\* The line after the comment block (351-357): a DLT call after an @log
\* comment is written; parse_error_message reads the first line (456-490).
CallLine(l) ==
  /\ Consume(l)
  /\ \/ /\ ~(IsDltCall(l) /\ is_commented)
        /\ is_commented' = FALSE
        /\ pc' = "line"
        /\ UNCHANGED <<lines_written, pending, out>>
     \/ /\ IsDltCall(l) /\ is_commented
        /\ Shape(l) = "single"
        /\ Emit([Header(l) EXCEPT !.msg = <<pos'>>])
     \/ /\ IsDltCall(l) /\ is_commented
        /\ Shape(l) = "none"
        /\ Emit(Header(l))
     \/ /\ IsDltCall(l) /\ is_commented
        /\ Shape(l) = "split_failed"   \* format_message(list): TypeError
        /\ pc' = "crashed"
        /\ UNCHANGED <<lines_written, is_commented, pending, out>>
     \/ /\ IsDltCall(l) /\ is_commented
        /\ Shape(l) \in {"empty_opening", "inline_opening"}
        /\ pending' = [Header(l) EXCEPT
                         !.msg = IF Shape(l) = "inline_opening"
                                   THEN <<pos'>> ELSE <<>>]
        /\ pc' = "cont"
        /\ UNCHANGED <<lines_written, is_commented, out>>
  /\ UNCHANGED <<configured, file_idx, file_in, num_brackets, class_name, fn_pattern,
                 function_name, dlt_context, log_name, comment, out_open,
                 report>>

read_call_line == pc = "call" /\ \E l \in Input : CallLine(l)

\* Mutation: the text before ");" on the closing line is not appended.
ContLine_drops_last(l) ==
  /\ Consume(l)
  /\ \/ /\ l.eof
        /\ pc' = "hung"
        /\ UNCHANGED <<lines_written, is_commented, pending, out>>
     \/ /\ ~l.eof /\ l.callEnd
        /\ Emit([pending EXCEPT !.endPos = pos'])
     \/ /\ ~l.eof /\ ~l.callEnd
        /\ pending' = [pending EXCEPT !.msg = Append(@, pos')]
        /\ UNCHANGED <<lines_written, is_commented, out, pc>>
  /\ UNCHANGED <<configured, file_idx, file_in, num_brackets, class_name, fn_pattern,
                 function_name, dlt_context, log_name, comment, out_open,
                 report>>

\* Mutation: the loop tests the line read before it, so ");" never ends it.
ContLine_stale_test(l) ==
  /\ Consume(l)
  /\ \/ /\ l.eof
        /\ pc' = "hung"
        /\ UNCHANGED <<lines_written, is_commented, pending, out>>
     \/ /\ ~l.eof
        /\ pending' = [pending EXCEPT !.msg = Append(@, pos')]
        /\ UNCHANGED <<lines_written, is_commented, out, pc>>
  /\ UNCHANGED <<configured, file_idx, file_in, num_brackets, class_name, fn_pattern,
                 function_name, dlt_context, log_name, comment, out_open,
                 report>>

\* One iteration of the accumulation loops of parse_error_message
\* (466-474, 480-488).  At end of file readline() keeps returning "",
\* which never ends with ");": the loop never exits.
ContLine(l) ==
  /\ Consume(l)
  /\ \/ /\ l.eof
        /\ pc' = "hung"
        /\ UNCHANGED <<lines_written, is_commented, pending, out>>
     \/ /\ ~l.eof /\ l.callEnd
        /\ Emit([pending EXCEPT !.msg = Append(@, pos'), !.endPos = pos'])
     \/ /\ ~l.eof /\ ~l.callEnd
        /\ pending' = [pending EXCEPT !.msg = Append(@, pos')]
        /\ UNCHANGED <<lines_written, is_commented, out, pc>>
  /\ UNCHANGED <<configured, file_idx, file_in, num_brackets, class_name, fn_pattern,
                 function_name, dlt_context, log_name, comment, out_open,
                 report>>

read_cont_line == pc = "cont" /\ \E l \in Input : ContLine(l)

\* close_input_file (140-155); the walker moves on to the next file.  With
\* no file set it returns at once; an OSError from close() leaves
\* _file_in set.
close_input_file ==
  /\ pc = "close"
  /\ \/ /\ file_in = "None"
        /\ UNCHANGED file_in
     \/ /\ file_in # "None"
        /\ \E fails \in IF CloseMayFail /\ file_in = "open" THEN BOOLEAN
                                                          ELSE {FALSE} :
             file_in' = IF fails THEN "closed" ELSE "None"
  /\ file_idx' = file_idx + 1
  /\ pc' = "nextFile"
  /\ UNCHANGED <<configured, scan, pending, out, out_open, report, at_eof, pos, depth>>

\* Walker.search_paths -> close_output_files (230-288) after the last file.
close_output_files ==
  /\ pc = "nextFile"
  /\ file_idx > NumFiles
  /\ out_open' = {}
  /\ pc' = "done"
  /\ UNCHANGED <<configured, file_idx, file_in, scan, pending, out, report,
                 at_eof, pos, depth>>

\* The program has exited, died of an exception, or spins in a loop whose
\* further iterations change nothing but _line_number.
Halted ==
  /\ pc \in {"done", "crashed", "hung"}
  /\ UNCHANGED vars

Next ==
  \/ open_output_files
  \/ open_input_file
  \/ open_input_file_already_open
  \/ scan_file_not_open
  \/ scan_file_start
  \/ scan_file_closed
  \/ scan_line
  \/ abort_scan
  \/ scan_eof
  \/ read_tag_line
  \/ read_comment_line
  \/ read_call_line
  \/ read_cont_line
  \/ close_input_file
  \/ close_output_files
  \/ Halted

\* The parser is one sequential Python thread: it never stops while a step
\* is enabled.
Spec == Init /\ [][Next]_vars /\ WF_vars(Next)

-----------------------------------------------------------------------------
(* Properties                                                              *)

AllLines == UNION Range(Alphabet) \cup CommentText
Names(f, field) == {l[field] : l \in Alphabet[f]} \cup {NoName}
FunctionNames(f) == {l.fn.name : l \in {k \in Alphabet[f] : k.fn # NoName}}
Rows == UNION {Range(out[s]) : s \in Severities}

RowType ==
  [sev : Severities \cup {NoName},
   ctx : UNION {Names(f, "ctx") : f \in 1..NumFiles},
   cls : UNION {Names(f, "cls") : f \in 1..NumFiles},
   fn : UNION {FunctionNames(f) : f \in 1..NumFiles} \cup {NoName},
   line : Nat, quals : Seq(Qualifiers), msg : Seq(Nat),
   comment : [file : 0..NumFiles, first : Nat, last : Nat],
   file : 0..NumFiles, call : Markers \cup {NoName}, callPos : Nat,
   endPos : Nat, opening : {"eol", "quote", "other", NoName}]

TypeOK ==
  /\ pc \in {"start", "nextFile", "scan", "line", "tag", "comment", "call",
             "cont", "close", "done", "crashed", "hung"}
  /\ file_idx \in 1..NumFiles + 1
  /\ file_in \in {"None", "open", "closed"}
  /\ line_number \in Nat /\ num_brackets \in Int /\ lines_written \in Nat
  /\ class_name \in {l.cls : l \in AllLines} \cup {NoName}
  /\ fn_pattern \in {l.cls : l \in AllLines} \cup {"cClassName"}
  /\ log_name \in Seq(Qualifiers)
  /\ is_commented \in BOOLEAN
  /\ pending \in RowType
  /\ out \in [Severities -> Seq(RowType)]
  /\ configured \subseteq Severities
  /\ out_open \subseteq configured
  /\ report \in {"none", "notOpen", "aborted", "done", "imbalance"}

\* The "(line)" of a row is the line of the file on which its DLT_LOG_CXX
\* call starts, although the lookahead of scan_file, parse_comment and
\* parse_error_message reads lines the main loop never sees.
RowLineIsCallLine == \A r \in Rows : r.line = r.callPos

\* The description of a row is the @log comment whose "*/" line is the
\* line just before the call (spec 4.2): _comment and _is_commented are
\* never carried over to a later call.
DescriptionFromPrecedingComment ==
  \A r \in Rows : r.comment.file = r.file /\ r.callPos = r.comment.last + 2

\* No row carries a context, class, function or qualifier of another file:
\* open_input_file resets the scan state of one file before the next.
RowsFromOwnFile ==
  \A r \in Rows :
    /\ r.ctx \in Names(r.file, "ctx")
    /\ r.cls \in Names(r.file, "cls")
    /\ r.fn \in FunctionNames(r.file) \cup {NoName}
    /\ \A i \in DOMAIN r.quals : r.quals[i] \in Names(r.file, "define")

\* The message text parse_error_message hands to format_message holds the
\* fragments of every line of the call, in order (spec 4.4): the call line
\* itself when text follows "qualifier," and each continuation line.
SpecMessage(r) ==
  (IF r.opening = "quote" THEN <<r.callPos>> ELSE <<>>)
  \o [i \in 1..(r.endPos - r.callPos) |-> r.callPos + i]

MessageHasAllFragments ==
  \A r \in Rows : r.opening \in {"eol", "quote"} => r.msg = SpecMessage(r)

\* A line "C::f(...)" scanned while the class is C sets the function name
\* to f (spec 3 and 8): the function pattern follows the class name.
FunctionCapture ==
  [][\A l \in AllLines :
       (ScanLine(l) /\ l.fn # NoName /\ l.fn.cls = class_name')
         => function_name' = l.fn.name]_vars

\* Every file is scanned to its end and the walker finishes: no exception
\* and no endless loop.
Termination == <>(pc = "done")

\* scan_file reports an imbalance exactly when the file's braces do not
\* balance (spec 4.2: "if bracket depth # 0, report").  A scan that
\* returned early (320-323) counts: the file may end on the line that
\* stopped it, and spec 7 says scanning goes on past a function found
\* before its class, so its braces must still be checked.
ImbalanceReported ==
  report \in {"done", "imbalance", "aborted"} =>
    (report = "imbalance" <=> depth # 0)

\* No exception ends the run (spec 7: nothing is fatal but a missing
\* configuration file).
NoCrash == pc # "crashed"
=============================================================================
