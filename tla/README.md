# TLA+ models of the DLT documentation extractor

The program is `src/public/doc/DltParser.py`. It walks C++ sources, finds
`/** @log ... */` comments that come just before a `DLT_LOG_CXX(...)` call,
and writes one HTML table row per documented call. Each row goes to the
output file of the call's severity.

## The system's parts

| Part | Code | Role |
|---|---|---|
| Walker | `Walker.__init__`, `load_config`, `search_paths`, `search_recursively` (493-570) | Reads `config.txt`, opens the output files once, then runs open / scan / close for every `.cpp` and `.hpp` file, and closes the outputs. |
| Configuration | `Parser.__init__` (60-93) | Turns the configured severities into the group of the call pattern. |
| Pattern set | `set_patterns`, `compile_patterns` (95-110) | Defines 8 regexes. Pattern 2, the function pattern, holds the literal `cClassName` until a class is seen. |
| Line scanner | `scan_file` (290-364) | Applies patterns 0-6, in order, to every line. It updates context, class, function, brace count and qualifiers. A `/**` starts the lookahead. |
| Message extractor | the lookahead at 344-357, `parse_comment` (444-454), `parse_error_message` (456-490) | Reads the tag line, the comment body and the call line. For a multi-line call it reads the continuation lines. None of these lines go back to the main loop. |
| Record renderer | `write_dlt_message` (366-402) | Picks the severity and builds the header `ctx / class::function(line): qualifiers`. Adds the message and the comment. |
| Message formatter | `format_message` (416-442) | Splits the message text into literals and variables and renders them in pairs. |
| Output router | `open_output_files`, the writes in `write_dlt_message`, `close_output_files` (157-288, 404-414) | Keeps one handle per severity. A handle that failed to open stays `None`. |

The program is one sequential thread. The only things that can "interleave"
are the lines the main loop reads and the lines the lookahead reads. The model
is about that interplay and about state carried across calls and files.

## Modules

### `DltScanner.tla`: the Parser, driven by the Walker

- **Lines.** A line is a record of the features the regexes test (`Plain`).
  These are:
  - `ctx`, `cls` and `fn`: a context registration, a class declaration, and a
    function definition `Q::f(`.
  - `open` and `close`: a `{` or `}` anywhere on the line.
  - `define`: a `#define` of a qualifier macro.
  - `docStart`, `logTag`, `star` and `docEnd`: the comment markers.
  - `call`: the first argument of the call. `marks` holds the severity
    markers found on the line.
  - `qual` and `tail`: the qualifier macro of the call and what follows it.
  - `callEnd`: the line ends with `);`.

  Names are model values.
- **Input.** The file is not a variable. Every `readline()` picks its result
  from `Input`, so one run covers every file of at most `MaxLines` lines over
  the alphabet `Alphabet[f]`.
  - In a well-formed run, a file may end only outside a comment and outside a
    call. At the bound, the `*/` or `);` line is forced.
  - `Truncated` lets a file end inside a comment or a call.
  - `EOF` is the `""` that `readline()` returns at end of file. Once it has
    been returned, it is returned forever (`at_eof`).
- **State.** The variables are the `Parser` fields, with their names:
  `line_number`, `num_brackets`, `class_name`, `function_name`, `dlt_context`,
  `log_name`, `lines_written`, `comment` and `is_commented`. Alongside them:
  - `fn_pattern`: the class literal inside `_regex[2]`.
  - `out_open`: the handles that are not `None`.
  - `out`: the rows written to each output file.
  - `pending`: the row `write_dlt_message` is building.
  - `pc`: the position in the Walker / scan loop.
  - `report`: what `scan_file` printed when it returned.

  `pos` and `depth` are history variables, read only by properties: the true
  number of lines read from the file and its true brace balance.
- **Actions.** There is one action per step of the code.

  | Action | Code |
  |---|---|
  | `open_output_files` | 157-228 |
  | `open_input_file` | 112-138. It resets the state and rebuilds the patterns even when `open()` failed. |
  | `scan_file_not_open` and `scan_file_start` | 290-299 |
  | `scan_line` | one main-loop iteration, 300-358 |
  | `abort_scan` | the early `return` at 320-323 |
  | `scan_eof` | 359-364 |
  | `read_tag_line` | 345-349 |
  | `read_comment_line` | one iteration of `parse_comment` |
  | `read_call_line` | 351-357, with the first-line branch of `parse_error_message` |
  | `read_cont_line` | one iteration of the accumulation loops |
  | `open_input_file_already_open` | the early `return` at 115-118 when a file is still set |
  | `scan_file_closed` | 300-301: `readline()` on a closed file raises ValueError |
  | `close_input_file` | 140-155. With `CloseMayFail`, `close()` may raise OSError. |
  | `close_output_files` | 230-288 |

  The row is written by `Emit`, the end of `write_dlt_message` plus 356-357.
  `Halted` is the final stutter of the done, crashed and hung states. The script ends after `walker.search_paths()` (584).
- **Faults.** `open()` of an input or output file may fail (`OpenMayFail`,
  `OutputMayFail`). `close()` of an input file may raise OSError
  (`CloseMayFail`). The handler at 148-151 logs the error but leaves
  `_file_in` set. CPython's `FileIO.close` has already released the
  descriptor by then, so `file_in` becomes `"closed"`, not `"None"`. The next
  `open_input_file` sees a file still set and returns without opening or
  resetting anything. `scan_file` then reads the closed handle.
- **Fragments.** A row's message is kept as the positions of the lines its
  fragments came from (`msg`), not as text. That is enough to tell whether
  a fragment is missing or out of order.

- **Configuration.** `configured` is the set of severities `config.txt`
  gives a `FILE_` entry. It is chosen in `Init` from `ConfigChoices`, because
  the Parser is built with it once, before any file is read. `DltWalker`
  models how the file produces it.

### `MCDltScanner.tla`

This module builds line kinds from the record and defines the alphabets the
cfgs use:
- `WellFormed`: two files with different contexts, classes, functions and
  qualifier defines. They hold single-line and multi-line calls of several
  severities.
- `Malformed`: `WellFormed` plus a call without a qualifier and a call whose
  text is not a string.
- One small alphabet per violation run.

### `DltMessageFormat.tla`: `format_message` (416-442)

- **Messages.** A message is a sequence of lexemes: quote, identifier
  (`WORD`), a name of `msg_func` (`FUNC`), `.`, `+`, a separator
  (`,` `(` `)` space) and a newline. Two identifiers are never adjacent,
  because they would be one identifier.
- **The code.** These operators translate the code, in order:
  - `Matches`, `Spans` and `Literals` translate `re.split` and `re.findall`
    with the non-greedy `".+?"`. A literal has at least one character, and
    `.` does not match a newline.
  - `HasWord` is the `\w` filter.
  - `Strip` is one `re.sub` pass. Its alternatives are tried in the order of
    the pattern, so `\w+\.` removes an identifier together with its dot.
  - `CleanVariable` is the two passes followed by `upper()`.
  - `PopPairs` is the pop loop.
- **The reference.** `SpecRender` renders the message the way spec 4.5 and
  the example of spec 8 describe. It is written as a separate left-to-right
  lexer.
- **State.** The state machine is a single step: `Format` is the call at
  line 398.

### `DltWalker.tla`: `Walker` and the script (493-584)

- **Configuration lines.** A line is a record of what `load_config`'s tests
  find in it:
  - `hash`: a `#` anywhere in the line;
  - `debug` and `digit`: `DEBUG` anywhere, and the digit the split captures;
  - `pathIn` and `pathArg`: `PATH_IN` anywhere, and the `\S+` the split
    captures;
  - `file`, `fileKey` and `fileArg`: `FILE_` anywhere, the key, and the
    `[\w./]+` the split captures.

  The field `doc` holds what the format documented in lines 13-27 says the
  line means.
- **Actions.** There is one action per step of the code.

  | Action | Code |
  |---|---|
  | `open_config` | 505-511 |
  | `load_line` / `LoadLine` | one loop iteration, with the `IndexError` of an unmatched `PATH_IN` |
  | `construct_parser` | 512-516 |
  | `search_paths` | 556-557; `TypeError` on the class `Parser` after a missing config |
  | `start_walk` | one `os.walk` per path and extension |
  | `scan_source` | open, scan and close of one file, in the listing's order |
  | `end_walk` | the next extension or the next path |
  | `close_outputs` | 560 |
- **Directories.** The directory tree is a constant. A path that does not
  exist yields nothing.
- **Scanning.** The scan of a file is one step here. `DltScanner` models it.

### `AbstractWalker.tla`: the traversal contract

Spec 6, 4.4 and 7 describe the traversal like this:
- start-up either fails or fixes the set of sources;
- each source is handed to the core once, one file after another;
- the run finishes when no source is left.

`DltWalker` maps onto it as follows. `status` comes from `pc`, and `sources`
is the set of `.cpp` and `.hpp` files below the input paths that
`load_config` produced. `ImplementsTraversal == AW!Spec` is checked as a
`PROPERTY`, weak fairness included, so it also says the walk ends.

## Runs

| Run | Expect | What it shows |
|---|---|---|
| `well_formed` | pass | 2 files × 7 lines, Error and Warning configured, input opens may fail. See below. |
| `malformed` | pass | Opens and input closes may fail, files may end inside comments or calls, malformed calls are allowed. Crashes and hangs happen, but no row written before them is wrong. |
| `second_class` | violation | `FunctionCapture`: the function pattern keeps the first class of the file (line 314). |
| `brace_count` | violation | `ImbalanceReported`: a brace on a lookahead line is never counted, and only `> 0` is reported. A `cClassName::f(` line before any class makes `scan_file` return at 320-323, so the file `{` / `void cClassName::init(int x)` is never checked for braces. Spec 7 says scanning continues past a function found before its class. |
| `crashes` | violation | `NoCrash`: the run ends with an exception in six ways. A comment line without `*` raises IndexError. An unmatched single-line split returns a list, and `format_message` raises TypeError. With nothing configured, the empty group `()` matches every call and the write goes to `None`. A failed output open is ignored until its first row. A failed `close()` of file 1 leaves `_file_in` set, so file 2 is never opened and its first `readline()` raises ValueError. The output file is chosen by the first severity marker anywhere on the line (376-385). With only Warning configured, a Warning call whose line also holds `DLT_LOG_ERROR`, in its text or a trailing comment, is written to the `None` Error handle. Spec 4.4 describes this search, but spec 8 says a Warning call never reaches the Error stream. With both configured, the row lands silently in the Error file, and no run checks that case. |
| `truncated_call` | violation | `Termination`: end of file inside a multi-line call loops forever. |
| `inline_opening` | violation | `MessageHasAllFragments`: the ungrouped alternation at line 465 drops the first line's text. |
| `format_plain` | pass | Every well-formed message of up to 8 lexemes without `.` or `+` is rendered as spec 4.5 says (`FormatMatchesSpec`). That is 136,866 messages. |
| `format_round_trip` | violation | `FormatMatchesSpec`: spec 8's `"prefix " + x.toString() + " suffix"` gets the placeholder `++`, not `X`. `\w+\.` removes `x.`, and nothing removes `+`. |
| `walker` | pass | Every config of up to 4 lines, over documented kinds plus an unknown key and an unknown severity, present or missing. `ConfigAsDocumented` and `ImplementsTraversal` both hold. |
| `config_misread` | violation | `ConfigAsDocumented` fails on four configs. The docstring's own example `FILE_ERROR = C:/Users/dlt_error.txt` becomes `<script_dir>/C`. A `#` or `DEBUG` inside a `PATH_IN` value sends the line to the comment or `DEBUG` branch. An empty `PATH_IN` raises IndexError. |
| `overlapping_paths` | violation | `ImplementsTraversal`: nested `PATH_IN` entries scan a file twice, so its rows are written twice. |

TLC prints one trace per run, the shortest. The other cases merged into
`crashes`, `config_misread` and `brace_count` are separate paths of the
model. Each of them was checked once with the alphabet cut down to that
case alone, and each fails on its own. For example, the early return fails
with `{`, a blank line and `cClassName::init(` alone. These cut-down cfgs
are not kept as runs.

In `well_formed`, every row satisfies all of these:
- Its `(line)` is the line of its call (`RowLineIsCallLine`).
- Its description is the comment just before the call (`DescriptionFromPrecedingComment`).
- Its context, class, function and qualifiers come from its own file (`RowsFromOwnFile`).
- It has every fragment of its message, in order (`MessageHasAllFragments`).

In addition, a class's function is captured (`FunctionCapture`) and the walker
terminates (`Termination`).

In `walker`, two things hold:
- A config file that exists is read to its end. Its paths and its output
  files, the last `FILE_` line of each severity winning, are the documented
  ones (`ConfigAsDocumented`).
- Every configured source is scanned exactly once, and the walk ends
  (`ImplementsTraversal`). Overlapping paths are left out of this run; they
  are the `overlapping_paths` finding.

Each property of a passing run has a mutant: a plausible bug in the mapped
code that makes TLC report the property violated. Examples are a missing reset
in `open_input_file`, a header that reads the line number too early, a
`_is_commented` that is not reset, and a closing `);` line that is not
appended. They are listed in `PROJECT.json`.

## Bounds

Two files are the fewest that show state leaking between files. The leak needs
a define, class or context in file 1 and a call in file 2.

Seven lines allow a documented call (`/**`, tag, `*/`, call) plus a
multi-line call, or two calls. This covers both the `_is_commented` reuse and
the off-by-one of the line number.

`format_plain` covers 8 lexemes. That is enough for two literals with a
variable between them and before them, a newline inside a would-be literal,
and the msg_func name next to separators. The `.` and `+` cases are what the
round trip shows.

`walker` covers 4 config lines (144,667 states, about 35 s). That is enough
for a key given twice together with two paths, or a path with its outputs and
an unknown line among them. The tree has a
nested directory, a sibling, a non-source file and a missing path, so both
extension passes and the recursion matter.

The well-formed alphabet has no braces, to keep the run near 90 s. Brace
counting is checked by the small `brace_count` run.

`crashes` has two files of at most 4 lines. A failed close only shows in the
file after it.

## Fairness

`Spec` assumes weak fairness on `Next`. The program is one thread with no
waits, so it takes a step whenever one is enabled. `Halted` stutters in the
final states only. The hung state is modelled as a halt because the loop
changes nothing but `_line_number` from then on, which is why `Termination`
can fail.

`DltWalker` also assumes weak fairness on `Next`, for the same reason: it is
the same thread. `AbstractWalker` states weak fairness on its `Next`, so
refining it means the walk ends. `DltMessageFormat` is a single step under
weak fairness.

## Not modelled

- **HTML text.** Escaping, wording and layout are left out. `format_message`'s
  `" &lt;"` and `"&gt; "` wrappers become a placeholder element.
- **The `\w+->` and `static_cast<...>` alternatives of `msg_func`, and empty
  literals `""`.** These are not among the lexemes. The empty literal is
  `.+?` matching across two quotes, which the lexer form cannot express
  without characters.
- **Argument handling and path strings of the script (576-581).** The input
  root and the script directory are the abstract bases `input_root` and
  `script_dir`.
- **The walker and scanner as one module.** `DltScanner` takes the configured
  severities as a choice at start (`ConfigChoices`), and `DltWalker` checks
  how `config.txt` produces them. The two are not composed, so the scan of a
  file is one step in `DltWalker`. Composing them would multiply the
  scanner's states by the configs. The scanner runs fix one set of
  configured severities each, and `crashes` adds Warning alone and the empty
  set, which is what a config without `FILE_` lines produces.
- **The row's message text in the scanner.** `DltScanner` keeps the positions
  of a row's fragments, and `DltMessageFormat` checks what `format_message`
  makes of one fragment sequence. The two are not joined into one module.
- **The split at 476 versus the search at 475.** The search allows any
  spacing around the comma; the split needs exactly one whitespace. The
  line shapes do not tell spacing apart, so a `LOG_BUFFER,"..."` opening
  line with no space is not among the inputs.
